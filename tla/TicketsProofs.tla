---------------------------- MODULE TicketsProofs ----------------------------
(***************************************************************************)
(* Proofs about Tickets, for every set of users, tickets, requests and     *)
(* bodies.                                                                 *)
(*                                                                         *)
(* The inductive invariant joins the types with what each handler learnt   *)
(* at its earlier awaits and still relies on, and with the rows: a ticket  *)
(* is never deleted or handed over, never loses its date and is never      *)
(* active again (KeepsRows), so what a handler learnt, and what an account *)
(* has been told, stays true whatever the others write in between.         *)
(***************************************************************************)
EXTENDS Tickets, FiniteSetTheorems, TLAPS

\* What the handler with locals h relies on.
LocalOK(h) ==
    /\ h.pc \in {"property", "tenant", "insert"} => h.dto \in CreateDtos /\ h.ownerId \in Users
    /\ h.pc \in {"tenant", "insert"} => PropertyOwner[h.dto.propertyId] = h.ownerId
    /\ h.pc = "tenant" => h.dto.tenantId # Undefined
    /\ h.pc = "insert" =>
         h.dto.tenantId = Undefined \/ TenantOwner[h.dto.tenantId] = h.ownerId
    /\ h.pc \in {"find", "write"} => h.dto \in PatchDtos /\ h.ownerId \in Users
    /\ h.pc \in {"find", "write", "findClose", "close"} => h.id \in Tickets /\ tickets[h.id] # Null
    /\ h.pc \in {"write", "close"} =>
         /\ OwnerMatches(tickets[h.id].ownerId, h.ownerId)
         /\ h.seen \in MaintenanceStatus \ {"CERRADO"}
         /\ h.seen = "RESUELTO" => tickets[h.id].fechaResolucion # Null
    /\ h.pc = "role" => h.id \in Registered /\ h.dto \in RoleDtos

\* What ResolvedHasDate and TicketAccountAgrees say of one row.
RowOK(row) ==
    /\ row.estado = "RESUELTO" => row.fechaResolucion # Null
    /\ PropertyOwner[row.propertyId] = row.ownerId
    /\ row.tenantId # Null => TenantOwner[row.tenantId] = row.ownerId

IInv ==
    /\ TicketsTypeOK
    /\ \A r \in Requests : LocalOK(req[r])
    /\ \A k \in Tickets : tickets[k] # Null => RowOK(tickets[k])
    /\ NoticesAreTrue

KeepsRow(old, new) ==
    /\ new # Null
    /\ new.ownerId = old.ownerId
    /\ old.fechaResolucion # Null => new.fechaResolucion # Null
    /\ ~old.isActive => ~new.isActive

KeepsRows ==
    /\ \A k \in Tickets : tickets[k] # Null => KeepsRow(tickets[k], tickets'[k])
    /\ Registered \subseteq Registered'

-----------------------------------------------------------------------------
(***************************************************************************)
(* What survives a step that keeps the rows.                               *)
(***************************************************************************)
\* Idle handlers rely on nothing.
LEMMA IdleOK == Idle \in IdleRequest /\ LocalOK(Idle)
  BY DEF Idle, IdleRequest, LocalOK

\* A handler may still rely on what it learnt.
LEMMA LocalKept ==
    ASSUME NEW h, LocalOK(h), KeepsRows
    PROVE  LocalOK(h)'
  BY DEF LocalOK, KeepsRows, KeepsRow

\* What was true when it was told stays true.
LEMMA ToldKept ==
    ASSUME NEW task \in Notice \cup Entry, Told(task), KeepsRows
    PROVE  Told(task)'
  <1>1. task.ticket \in Tickets BY DEF Notice, Entry
  <1>2. tickets[task.ticket] # Null BY DEF Told
  <1>3. KeepsRow(tickets[task.ticket], tickets'[task.ticket]) BY <1>1, <1>2 DEF KeepsRows
  <1>4. QED BY <1>2, <1>3 DEF Told, KeepsRow

\* A notice is not an entry of the activity log.
LEMMA NoticeOrEntry ==
    /\ \A n \in Notice : n \notin Entry
    /\ \A u \in Users, k \in Tickets, w \in {"urgent", "resolved"} :
         /\ Notify(u, w, k) \in Notice
         /\ Notify(u, w, k).userId = u /\ Notify(u, w, k).ticket = k /\ Notify(u, w, k).what = w
    /\ \A u \in Users, k \in Tickets, a \in {"CREATED", "UPDATED", "RESOLVED", "CLOSED"} :
         /\ LogActivity(u, a, k) \in Entry
         /\ LogActivity(u, a, k).userId = u /\ LogActivity(u, a, k).ticket = k
         /\ LogActivity(u, a, k).action = a
  <1>1. ASSUME NEW n \in Notice, n \in Entry PROVE FALSE
    <2>1. DOMAIN n = {"userId", "what", "ticket"} BY DEF Notice
    <2>2. DOMAIN n = {"userId", "action", "ticket"} BY <1>1 DEF Entry
    <2>3. QED BY <2>1, <2>2
  <1>2. QED BY <1>1 DEF Notify, LogActivity, Notice, Entry

\* What is told, or on its way to be.
Reports == tasks \cup unread \cup read \cup activity

\* The facts that make a step keep the invariant.
LEMMA StepOK ==
    ASSUME IInv, TicketsTypeOK', KeepsRows,
           \A k \in Tickets : tickets'[k] # Null => RowOK(tickets'[k]),
           \A s \in Requests : req'[s] = req[s] \/ LocalOK(req[s])',
           \A task \in Reports' : task \in Reports \/ Told(task)'
    PROVE  IInv'
  <1>1. ASSUME NEW s \in Requests PROVE LocalOK(req[s])'
    <2>1. CASE req'[s] = req[s]
      <3>1. PICK h : h = req[s] OBVIOUS
      <3>2. LocalOK(h)' BY <3>1, LocalKept DEF IInv
      <3>3. QED BY <2>1, <3>1, <3>2 DEF LocalOK
    <2>2. QED BY <2>1
  <1>2. \A k \in Tickets : (tickets[k] # Null => RowOK(tickets[k]))'
    BY DEF RowOK
  <1>3. NoticesAreTrue'
    <2>1. ASSUME NEW task \in Reports' PROVE Told(task)'
      <3>1. CASE task \in Reports
        <4>1. task \in Notice \cup Entry BY <3>1 DEF Reports, IInv, TicketsTypeOK
        <4>2. Told(task) BY <3>1 DEF Reports, IInv, NoticesAreTrue
        <4>3. QED BY <4>1, <4>2, ToldKept
      <3>2. QED BY <3>1
    <2>2. QED BY <2>1 DEF NoticesAreTrue, Reports
  <1>4. QED BY <1>1, <1>2, <1>3 DEF IInv

-----------------------------------------------------------------------------
(***************************************************************************)
(* The initial state, and one lemma per action.                            *)
(***************************************************************************)
\* The initial state satisfies the invariant.
LEMMA InitIInv == Init => IInv
  BY IdleOK, TicketsAssumption
     DEF Init, IInv, TicketsTypeOK, NoticesAreTrue

\* A request moves to the locals q, or answers.
Moves == \E r \in Requests, q \in IdleRequest \cup Handler :
           LocalOK(q) /\ req' = [req EXCEPT ![r] = q]

\* Answering is a move.
LEMMA AnswerMoves ==
    ASSUME NEW r \in Requests, Answer(r)
    PROVE  Moves
  BY IdleOK DEF Answer, Moves

\* A move keeps the types of the requests, and what the others rely on.
LEMMA MoveStep ==
    ASSUME IInv, Moves \/ UNCHANGED req
    PROVE  /\ req' \in [Requests -> IdleRequest \cup Handler]
           /\ \A s \in Requests : req'[s] = req[s] \/ LocalOK(req'[s])
  <1>1. req \in [Requests -> IdleRequest \cup Handler] BY DEF IInv, TicketsTypeOK
  <1>2. CASE UNCHANGED req BY <1>1, <1>2
  <1>3. ASSUME NEW r \in Requests, NEW q \in IdleRequest \cup Handler, LocalOK(q),
               req' = [req EXCEPT ![r] = q]
        PROVE  /\ req' \in [Requests -> IdleRequest \cup Handler]
               /\ \A s \in Requests : req'[s] = req[s] \/ LocalOK(req'[s])
    <2>1. req' \in [Requests -> IdleRequest \cup Handler] BY <1>1, <1>3
    <2>2. ASSUME NEW s \in Requests PROVE req'[s] = req[s] \/ req'[s] = q
      BY <1>1, <1>3
    <2>3. QED BY <1>3, <2>1, <2>2
  <1>4. QED BY <1>2, <1>3 DEF Moves

\* A step that writes no ticket and tells nothing new.
LEMMA QuietStep ==
    ASSUME IInv, UNCHANGED tickets, Moves \/ UNCHANGED req,
           users' \in [Users -> UserRow \cup {Null}], Registered \subseteq Registered',
           properties' \subseteq properties,
           tenants' \subseteq tenants, arrived' \in 0 .. MaxArrivals,
           unread' \subseteq Notice, read' \subseteq Notice, activity' \subseteq Entry,
           tasks' \subseteq tasks, Reports' \subseteq Reports
    PROVE  IInv'
  <1>1. TicketsTypeOK' BY MoveStep DEF IInv, TicketsTypeOK
  <1>2. KeepsRows BY DEF KeepsRows, KeepsRow
  <1>3. \A k \in Tickets : tickets'[k] # Null => RowOK(tickets'[k]) BY DEF IInv
  <1>4. ASSUME NEW s \in Requests PROVE req'[s] = req[s] \/ LocalOK(req[s])'
    BY MoveStep DEF LocalOK
  <1>5. \A task \in Reports' : task \in Reports OBVIOUS
  <1>6. QED BY <1>1, <1>2, <1>3, <1>4, <1>5, StepOK

\* The same, when only a request moves.
LEMMA RequestStep ==
    ASSUME IInv, Moves, arrived' \in 0 .. MaxArrivals,
           UNCHANGED <<directory, tickets, notices, tasks>>
    PROVE  IInv'
  BY QuietStep DEF IInv, TicketsTypeOK, Reports, Registered, directory, notices

\* No bound is passed.
LEMMA ArrivedStep ==
    ASSUME IInv, Count \/ UNCHANGED arrived
    PROVE  arrived' \in 0 .. MaxArrivals
  BY TicketsAssumption DEF IInv, TicketsTypeOK, Count

\* The owner filter of a caller who must have one.
LEMMA OwnerOrSelfIsUser ==
    ASSUME NEW u \in Registered, IInv
    PROVE  /\ OwnerOrSelf(u, users[u]) \in Users
           /\ ResolveOwnerId(u, users[u]) \in Users \cup {Undefined}
  <1>1. u \in Users /\ users[u].organizationId \in Users \cup {Null}
    BY DEF IInv, TicketsTypeOK, UserRow, Registered
  <1>2. QED BY <1>1 DEF OwnerOrSelf, ResolveOwnerId

\* A request that begins has the locals Begin gives it.
LEMMA BeginMoves ==
    ASSUME IInv, NEW r \in Requests, NEW u \in Registered, NEW step \in Steps, NEW required,
           NEW ownerId \in Users \cup {Undefined}, NEW id \in Tickets \cup Users \cup {Null},
           NEW dto \in CreateDtos \cup PatchDtos \cup RoleDtos \cup {Null},
           Begin(r, step, u, required, ownerId, id, dto),
           LocalOK([pc |-> step, by |-> u, ownerId |-> ownerId, id |-> id, dto |-> dto,
                    seen |-> Null])
    PROVE  Moves /\ arrived' \in 0 .. MaxArrivals
  <1>0. u \in Users BY DEF Registered
  <1> DEFINE q == [pc |-> step, by |-> u, ownerId |-> ownerId, id |-> id, dto |-> dto,
                   seen |-> Null]
  <1>1. q \in Handler BY <1>0 DEF Handler
  <1>2. req' = [req EXCEPT ![r] = q] BY DEF Begin
  <1>3. LocalOK(q) OBVIOUS
  <1> HIDE DEF q
  <1>4. Moves BY <1>1, <1>2, <1>3 DEF Moves
  <1>5. QED BY <1>4, ArrivedStep DEF Begin

\* The start of POST /maintenance.
LEMMA CreateStartStep ==
    ASSUME IInv, NEW r \in Requests, NEW u \in Registered, NEW dto \in CreateDtos,
           CreateStart(r, u, dto)
    PROVE  IInv'
  <1> DEFINE q == [pc |-> "property", by |-> u, ownerId |-> OwnerOrSelf(u, users[u]),
                   id |-> Null, dto |-> dto, seen |-> Null]
  <1>1. LocalOK(q) BY OwnerOrSelfIsUser DEF LocalOK
  <1>2. Moves /\ arrived' \in 0 .. MaxArrivals
    BY <1>1, BeginMoves, OwnerOrSelfIsUser DEF CreateStart, Steps
  <1>3. QED BY <1>2, RequestStep DEF CreateStart

\* The start of PATCH /maintenance/:id.
LEMMA UpdateStartStep ==
    ASSUME IInv, NEW r \in Requests, NEW u \in Registered, NEW k \in Tickets, tickets[k] # Null,
           NEW dto \in PatchDtos, UpdateStart(r, u, k, dto)
    PROVE  IInv'
  <1> DEFINE q == [pc |-> "find", by |-> u, ownerId |-> OwnerOrSelf(u, users[u]),
                   id |-> k, dto |-> dto, seen |-> Null]
  <1>1. LocalOK(q) BY OwnerOrSelfIsUser DEF LocalOK
  <1>2. Moves /\ arrived' \in 0 .. MaxArrivals
    BY <1>1, BeginMoves, OwnerOrSelfIsUser DEF UpdateStart, Steps
  <1>3. QED BY <1>2, RequestStep DEF UpdateStart

\* The start of DELETE /maintenance/:id.
LEMMA RemoveStartStep ==
    ASSUME IInv, NEW r \in Requests, NEW u \in Registered, NEW k \in Tickets, tickets[k] # Null,
           RemoveStart(r, u, k)
    PROVE  IInv'
  <1> DEFINE q == [pc |-> "findClose", by |-> u, ownerId |-> ResolveOwnerId(u, users[u]),
                   id |-> k, dto |-> Null, seen |-> Null]
  <1>1. LocalOK(q) BY DEF LocalOK
  <1>2. Moves /\ arrived' \in 0 .. MaxArrivals
    BY <1>1, BeginMoves, OwnerOrSelfIsUser DEF RemoveStart, Steps
  <1>3. QED BY <1>2, RequestStep DEF RemoveStart

\* The start of PATCH /users/:id/role.
LEMMA RoleStartStep ==
    ASSUME IInv, NEW r \in Requests, NEW u \in Registered, NEW target \in Registered,
           NEW dto \in RoleDtos, RoleStart(r, u, target, dto)
    PROVE  IInv'
  <1> DEFINE q == [pc |-> "role", by |-> u, ownerId |-> Undefined,
                   id |-> target, dto |-> dto, seen |-> Null]
  <1>1. LocalOK(q) BY DEF LocalOK
  <1>2. target \in Users BY DEF Registered
  <1>3. Moves /\ arrived' \in 0 .. MaxArrivals
    BY <1>1, <1>2, BeginMoves DEF RoleStart, Steps
  <1>4. QED BY <1>3, RequestStep DEF RoleStart

\* A request that is not idle has locals of its own.
LEMMA Running ==
    ASSUME IInv, NEW r \in Requests, ~At(r, "idle")
    PROVE  req[r] \in Handler /\ LocalOK(req[r])
  BY DEF IInv, TicketsTypeOK, IdleRequest, At

\* A handler goes on with other locals.
LEMMA GoesOn ==
    ASSUME IInv, NEW r \in Requests, ~At(r, "idle"), NEW step \in Steps,
           NEW seen \in MaintenanceStatus \cup {Null},
           req' = [req EXCEPT ![r].pc = step, ![r].seen = seen],
           LocalOK([req[r] EXCEPT !.pc = step, !.seen = seen])
    PROVE  Moves
  <1> DEFINE q == [req[r] EXCEPT !.pc = step, !.seen = seen]
  <1>1. q \in Handler BY Running DEF Handler
  <1>2. req' = [req EXCEPT ![r] = q] BY Running DEF Handler
  <1>3. LocalOK(q) OBVIOUS
  <1> HIDE DEF q
  <1>4. QED BY <1>1, <1>2, <1>3 DEF Moves

\* The look-up of the property.
LEMMA CreatePropertyStep ==
    ASSUME IInv, NEW r \in Requests, CreateProperty(r)
    PROVE  IInv'
  <1> DEFINE step == IF req[r].dto.tenantId = Undefined THEN "insert" ELSE "tenant"
             q == [req[r] EXCEPT !.pc = step]
  <1>1. req[r] \in Handler /\ LocalOK(req[r]) /\ req[r].pc = "property"
    BY Running DEF CreateProperty, At
  <1>2. CASE PropertyFound(req[r].dto.propertyId, req[r].ownerId)
    <2>1. req' = [req EXCEPT ![r] = q]
      BY <1>1, <1>2 DEF CreateProperty, Continue
    <2>2. q \in Handler BY <1>1 DEF Handler, Steps
    <2>3. LocalOK(q) BY <1>1, <1>2 DEF LocalOK, Handler, PropertyFound
    <2> HIDE DEF q
    <2>4. Moves BY <2>1, <2>2, <2>3 DEF Moves
    <2>5. QED BY <2>4, ArrivedStep, RequestStep DEF CreateProperty
  <1>3. CASE ~PropertyFound(req[r].dto.propertyId, req[r].ownerId)
    BY <1>3, AnswerMoves, ArrivedStep, RequestStep DEF CreateProperty
  <1>4. QED BY <1>2, <1>3

\* The look-up of the tenant.
LEMMA CreateTenantStep ==
    ASSUME IInv, NEW r \in Requests, CreateTenant(r)
    PROVE  IInv'
  <1> DEFINE q == [req[r] EXCEPT !.pc = "insert"]
  <1>1. req[r] \in Handler /\ LocalOK(req[r]) /\ req[r].pc = "tenant"
    BY Running DEF CreateTenant, At
  <1>2. CASE TenantFound(req[r].dto.tenantId, req[r].ownerId)
    <2>1. req' = [req EXCEPT ![r] = q]
      BY <1>1, <1>2 DEF CreateTenant, Continue
    <2>2. q \in Handler BY <1>1 DEF Handler, Steps
    <2>3. LocalOK(q) BY <1>1, <1>2 DEF LocalOK, Handler, TenantFound
    <2> HIDE DEF q
    <2>4. Moves BY <2>1, <2>2, <2>3 DEF Moves
    <2>5. QED BY <2>4, ArrivedStep, RequestStep DEF CreateTenant
  <1>3. CASE ~TenantFound(req[r].dto.tenantId, req[r].ownerId)
    BY <1>3, AnswerMoves, ArrivedStep, RequestStep DEF CreateTenant
  <1>4. QED BY <1>2, <1>3

\* findOne and the check of estado: what is read is true when it is read.
LEMMA FindStep ==
    ASSUME IInv, NEW r \in Requests, NEW step \in {"find", "findClose"},
           NEW next \in {"write", "close"}, step = "find" <=> next = "write",
           Find(r, step, next)
    PROVE  IInv'
  <1> DEFINE k == req[r].id
             q == [req[r] EXCEPT !.pc = next, !.seen = tickets[k].estado]
  <1>1. req[r] \in Handler /\ LocalOK(req[r]) /\ req[r].pc = step
    BY Running DEF Find, At
  <1>2. k \in Tickets /\ tickets[k] # Null /\ tickets[k] \in TicketRow /\ RowOK(tickets[k])
    BY <1>1 DEF LocalOK, IInv, TicketsTypeOK
  <1>3. CASE TicketFound(k, req[r].ownerId) /\ tickets[k].estado # "CERRADO"
    <2>1. req' = [req EXCEPT ![r] = q]
      BY <1>1, <1>3 DEF Find
    <2>2. q \in Handler BY <1>1, <1>2 DEF Handler, Steps, TicketRow
    <2>3. LocalOK(q)
      BY <1>1, <1>2, <1>3 DEF LocalOK, Handler, TicketFound, RowOK, TicketRow
    <2> HIDE DEF q
    <2>4. Moves BY <2>1, <2>2, <2>3 DEF Moves
    <2>5. QED BY <2>4, ArrivedStep, RequestStep DEF Find
  <1>4. CASE ~(TicketFound(k, req[r].ownerId) /\ tickets[k].estado # "CERRADO")
    BY <1>4, AnswerMoves, ArrivedStep, RequestStep DEF Find
  <1>5. QED BY <1>3, <1>4

\* A request answers, writes the row `row' of the ticket k and tells `told'.
LEMMA WriteStep ==
    ASSUME IInv, NEW r \in Requests, NEW k \in Tickets, NEW row \in TicketRow,
           NEW told \in SUBSET (Notice \cup Entry),
           Answer(r), tickets' = [tickets EXCEPT ![k] = row], RowOK(row),
           tickets[k] # Null => KeepsRow(tickets[k], row),
           tasks' = tasks \cup told, \A task \in told : Told(task)',
           UNCHANGED <<directory, notices, arrived>>
    PROVE  IInv'
  <1>1. row # Null BY TicketsAssumption
  <1>2. TicketsTypeOK'
    BY AnswerMoves, MoveStep, ArrivedStep DEF IInv, TicketsTypeOK, directory, notices
  <1>3. ASSUME NEW j \in Tickets PROVE tickets'[j] = IF j = k THEN row ELSE tickets[j]
    BY DEF IInv, TicketsTypeOK
  <1>4. KeepsRows
    <2>1. ASSUME NEW j \in Tickets, tickets[j] # Null, j # k
          PROVE  KeepsRow(tickets[j], tickets'[j])
      BY <1>3, <2>1 DEF KeepsRow
    <2>2. Registered' = Registered BY DEF directory, Registered
    <2>3. QED BY <1>3, <2>1, <2>2 DEF KeepsRows
  <1>5. \A j \in Tickets : tickets'[j] # Null => RowOK(tickets'[j])
    BY <1>3 DEF IInv
  <1>6. ASSUME NEW s \in Requests PROVE req'[s] = req[s] \/ LocalOK(req[s])'
    BY IdleOK DEF Answer, IInv, TicketsTypeOK, LocalOK, Idle
  <1>7. \A task \in Reports' : task \in Reports \/ Told(task)'
    BY DEF Reports, notices
  <1>8. QED BY <1>2, <1>4, <1>5, <1>6, <1>7, StepOK

\* The insert of POST /maintenance.
LEMMA CreateInsertStep ==
    ASSUME IInv, NEW r \in Requests, CreateInsert(r)
    PROVE  IInv'
  <1> DEFINE h == req[r]
             row == NewTicket(h.ownerId, h.dto)
  <1>1. LocalOK(h) /\ h.pc = "insert" BY Running DEF CreateInsert, At
  <1>2. h.dto \in CreateDtos /\ h.ownerId \in Users BY <1>1 DEF LocalOK
  <1>3. row \in TicketRow /\ row.ownerId = h.ownerId
    BY <1>2, DtosAssumption DEF NewTicket, TicketRow, MaintenanceStatus
  <1>4. RowOK(row) BY <1>1 DEF LocalOK, RowOK, NewTicket
  <1>5. PICK k \in Tickets :
          /\ tickets[k] = Null
          /\ tickets' = [tickets EXCEPT ![k] = row]
          /\ tasks' = tasks \cup {LogActivity(h.ownerId, "CREATED", k)}
                        \cup (IF h.dto.prioridad = "URGENTE"
                                THEN {Notify(h.ownerId, "urgent", k)} ELSE {})
    BY DEF CreateInsert
  <1> DEFINE entry == LogActivity(h.ownerId, "CREATED", k)
             notice == Notify(h.ownerId, "urgent", k)
             told == {entry} \cup (IF h.dto.prioridad = "URGENTE" THEN {notice} ELSE {})
  <1>6. /\ entry \in Entry /\ entry.userId = h.ownerId /\ entry.ticket = k
        /\ entry.action = "CREATED"
        /\ notice \in Notice /\ notice.userId = h.ownerId /\ notice.ticket = k
        /\ notice.what = "urgent"
    BY <1>2, NoticeOrEntry
  <1>7. tickets'[k] = row /\ row # Null
    BY <1>3, <1>5, TicketsAssumption DEF IInv, TicketsTypeOK
  <1> HIDE DEF row, entry, notice
  <1>8. ASSUME NEW task \in {entry, notice} PROVE Told(task)'
    BY <1>3, <1>6, <1>7, NoticeOrEntry DEF Told
  <1>9. told \in SUBSET (Notice \cup Entry) /\ tasks' = tasks \cup told
    BY <1>5, <1>6 DEF entry, notice
  <1>10. \A task \in told : Told(task)' BY <1>8
  <1> HIDE DEF told
  <1>11. QED BY <1>3, <1>4, <1>5, <1>9, <1>10, WriteStep DEF CreateInsert

\* What the update writes: the date is there whenever the ticket is resolved,
\* by this body or by the estado that the row already has.
LEMMA UpdatedRow ==
    ASSUME NEW h, NEW row \in TicketRow, h.dto \in PatchDtos, ~UpdateRefused(h), RowOK(row),
           h.seen \in MaintenanceStatus, h.seen = "RESUELTO" => row.fechaResolucion # Null
    PROVE  /\ Updated(row, h) \in TicketRow
           /\ KeepsRow(row, Updated(row, h))
           /\ RowOK(Updated(row, h))
           /\ Resolves(h) => Updated(row, h).fechaResolucion # Null
  <1> DEFINE new == Updated(row, h)
             fecha == FechaResolucion(h)
  <1>1. /\ h.dto.estado \in MaintenanceStatus \cup {Undefined}
        /\ h.dto.fechaResolucion \in {"given", "empty", "bad", Undefined, Null}
    BY DtosAssumption DEF UpdateRefused
  <1>2. fecha \in {"given", "now", Undefined, Null}
    BY <1>1 DEF FechaResolucion, UpdateRefused
  <1>3. /\ new.ownerId = row.ownerId /\ new.propertyId = row.propertyId
        /\ new.tenantId = row.tenantId /\ new.isActive = row.isActive
        /\ new.estado = IF h.dto.estado = Undefined THEN row.estado ELSE h.dto.estado
    BY DEF Updated, TicketRow
  <1>4. /\ fecha = Undefined => new.fechaResolucion = row.fechaResolucion
        /\ fecha = Null => new.fechaResolucion = "epoch"
        /\ fecha \in {"given", "now"} => new.fechaResolucion = fecha
    BY <1>2, TicketsAssumption DEF Updated, TicketRow, Dates
  <1>5. new \in TicketRow
    <2>1. new.estado \in MaintenanceStatus BY <1>1, <1>3 DEF TicketRow
    <2>2. new.fechaResolucion \in Dates \cup {Null} BY <1>2, <1>4 DEF TicketRow, Dates
    <2>3. new = [row EXCEPT !.estado = new.estado, !.fechaResolucion = new.fechaResolucion]
      BY DEF Updated, TicketRow
    <2> HIDE DEF new
    <2>4. QED BY <2>1, <2>2, <2>3 DEF TicketRow
  <1>6. fecha # Undefined => new.fechaResolucion # Null
    BY <1>2, <1>4, TicketsAssumption DEF Dates
  <1>7. Resolves(h) => fecha # Undefined
    BY <1>1, TicketsAssumption DEF FechaResolucion, Dates
  <1> HIDE DEF new, fecha
  <1>8. row.fechaResolucion # Null => new.fechaResolucion # Null BY <1>4, <1>6
  <1>9. new.estado = "RESUELTO" => new.fechaResolucion # Null
    <2>1. CASE h.dto.estado = Undefined BY <2>1, <1>3, <1>8 DEF RowOK
    <2>2. CASE h.dto.estado # Undefined /\ h.dto.estado = "RESUELTO"
      <3>1. NuevoEstado(h) = "RESUELTO"
        BY <2>2, TicketsAssumption DEF NuevoEstado, MaintenanceStatus
      <3>2. QED BY <3>1, <1>6, <1>7, <1>8 DEF Resolves
    <2>3. QED BY <2>1, <2>2, <1>3
  <1>10. RowOK(new) BY <1>3, <1>9 DEF RowOK
  <1>11. KeepsRow(row, new) BY <1>3, <1>5, <1>8, TicketsAssumption DEF KeepsRow
  <1>12. QED BY <1>5, <1>6, <1>7, <1>10, <1>11 DEF new

\* The update of PATCH /maintenance/:id.
LEMMA UpdateWriteStep ==
    ASSUME IInv, NEW r \in Requests, UpdateWrite(r)
    PROVE  IInv'
  <1> DEFINE h == req[r]
             k == h.id
             row == Updated(tickets[k], h)
             notice == Notify(h.ownerId, "resolved", k)
             resolved == LogActivity(h.ownerId, "RESOLVED", k)
             updated == LogActivity(h.ownerId, "UPDATED", k)
             told == IF Resolves(h) THEN {notice, resolved} ELSE {updated}
  <1>1. LocalOK(h) /\ h.pc = "write" BY Running DEF UpdateWrite, At
  <1>2. /\ h.dto \in PatchDtos /\ h.ownerId \in Users /\ k \in Tickets /\ tickets[k] # Null
        /\ tickets[k].ownerId = h.ownerId /\ h.seen \in MaintenanceStatus
        /\ h.seen = "RESUELTO" => tickets[k].fechaResolucion # Null
    BY <1>1, TicketsAssumption DEF LocalOK, OwnerMatches
  <1>3. tickets[k] \in TicketRow /\ RowOK(tickets[k]) BY <1>2 DEF IInv, TicketsTypeOK
  <1>4. ~UpdateRefused(h) BY DEF UpdateWrite
  <1>5. /\ row \in TicketRow /\ KeepsRow(tickets[k], row) /\ RowOK(row)
        /\ Resolves(h) => row.fechaResolucion # Null
    BY <1>2, <1>3, <1>4, UpdatedRow
  <1>6. /\ notice \in Notice /\ notice.userId = h.ownerId /\ notice.ticket = k
        /\ resolved \in Entry /\ resolved.userId = h.ownerId /\ resolved.ticket = k
        /\ updated \in Entry /\ updated.userId = h.ownerId /\ updated.ticket = k
        /\ resolved.action = "RESOLVED" /\ updated.action = "UPDATED"
    BY <1>2, NoticeOrEntry
  <1>7. tickets' = [tickets EXCEPT ![k] = row] /\ tasks' = tasks \cup told
    BY DEF UpdateWrite
  <1>8. tickets'[k] = row /\ row # Null /\ row.ownerId = h.ownerId
    BY <1>2, <1>5, <1>7, TicketsAssumption DEF IInv, TicketsTypeOK, KeepsRow
  <1> HIDE DEF row, notice, resolved, updated
  <1>9. ASSUME Resolves(h), NEW task \in {notice, resolved} PROVE Told(task)'
    BY <1>5, <1>6, <1>8, <1>9, NoticeOrEntry DEF Told
  <1>10. ASSUME NEW task \in {updated} PROVE Told(task)'
    BY <1>6, <1>8, <1>10, NoticeOrEntry DEF Told
  <1>11. /\ Resolves(h) => told = {notice, resolved}
         /\ ~Resolves(h) => told = {updated}
    OBVIOUS
  <1> HIDE DEF told
  <1>12. told \in SUBSET (Notice \cup Entry) /\ \A task \in told : Told(task)'
    <2>1. CASE Resolves(h) BY <2>1, <1>6, <1>9, <1>11
    <2>2. CASE ~Resolves(h) BY <2>2, <1>6, <1>10, <1>11
    <2>3. QED BY <2>1, <2>2
  <1>13. QED BY <1>2, <1>5, <1>7, <1>12, WriteStep DEF UpdateWrite

\* The soft delete of DELETE /maintenance/:id.
LEMMA RemoveWriteStep ==
    ASSUME IInv, NEW r \in Requests, RemoveWrite(r)
    PROVE  IInv'
  <1> DEFINE h == req[r]
             k == h.id
             row == [tickets[k] EXCEPT !.isActive = FALSE, !.estado = "CERRADO"]
             entry == LogActivity(h.ownerId, "CLOSED", k)
             told == IF h.ownerId = Undefined THEN {} ELSE {entry}
  <1>1. LocalOK(h) /\ h \in Handler /\ h.pc = "close" BY Running DEF RemoveWrite, At
  <1>2. /\ k \in Tickets /\ tickets[k] # Null
        /\ OwnerMatches(tickets[k].ownerId, h.ownerId)
    BY <1>1 DEF LocalOK
  <1>3. tickets[k] \in TicketRow /\ RowOK(tickets[k]) BY <1>2 DEF IInv, TicketsTypeOK
  <1>4. /\ row \in TicketRow /\ row.ownerId = tickets[k].ownerId /\ ~row.isActive
        /\ KeepsRow(tickets[k], row) /\ RowOK(row) /\ row # Null
    <2>1. row \in TicketRow BY <1>3 DEF TicketRow, MaintenanceStatus
    <2>2. row # Null BY <2>1, TicketsAssumption
    <2>3. QED BY <1>3, <2>1, <2>2 DEF TicketRow, RowOK, KeepsRow
  <1>5. tickets' = [tickets EXCEPT ![k] = row] /\ tasks' = tasks \cup told
    <2>1. tickets' = [tickets EXCEPT ![k].isActive = FALSE, ![k].estado = "CERRADO"]
      BY DEF RemoveWrite
    <2>2. tickets' = [tickets EXCEPT ![k] = row] BY <1>2, <2>1 DEF IInv, TicketsTypeOK
    <2>3. QED BY <2>2 DEF RemoveWrite
  <1>6. tickets'[k] = row BY <1>2, <1>5 DEF IInv, TicketsTypeOK
  <1>7. h.ownerId # Undefined =>
          /\ h.ownerId = row.ownerId
          /\ entry \in Entry /\ entry.userId = h.ownerId /\ entry.ticket = k
          /\ entry.action = "CLOSED"
    BY <1>1, <1>2, <1>4, NoticeOrEntry DEF Handler, OwnerMatches
  <1> HIDE DEF row, entry
  <1>8. ASSUME h.ownerId # Undefined, NEW task \in {entry} PROVE Told(task)'
    BY <1>4, <1>6, <1>7, <1>8, NoticeOrEntry DEF Told
  <1>9. /\ h.ownerId = Undefined => told = {}
        /\ h.ownerId # Undefined => told = {entry}
    OBVIOUS
  <1> HIDE DEF told
  <1>10. told \in SUBSET (Notice \cup Entry) /\ \A task \in told : Told(task)'
    <2>1. CASE h.ownerId = Undefined BY <2>1, <1>9
    <2>2. CASE h.ownerId # Undefined BY <2>2, <1>7, <1>8, <1>9
    <2>3. QED BY <2>1, <2>2
  <1>11. QED BY <1>2, <1>4, <1>5, <1>10, WriteStep DEF RemoveWrite

\* A user keeps the type of its row when its role changes.
LEMMA WithRoleTyped ==
    ASSUME NEW user \in UserRow, NEW dto \in RoleDtos
    PROVE  WithRole(user, dto) \in UserRow
  <1>1. /\ dto.role \in Role
        /\ dto.organizationId \in Users \cup {Undefined, Null}
        /\ dto.linkedTenantId \in Tenants \cup {Undefined, Null}
    BY DtosAssumption
  <1>2. QED BY <1>1 DEF WithRole, UserRow

\* The update of PATCH /users/:id/role.
LEMMA RoleWriteStep ==
    ASSUME IInv, NEW r \in Requests, RoleWrite(r)
    PROVE  IInv'
  <1> DEFINE h == req[r]
             user == WithRole(users[h.id], h.dto)
  <1>1. h.id \in Registered /\ h.dto \in RoleDtos BY Running DEF RoleWrite, At, LocalOK
  <1>2. user \in UserRow
    BY <1>1, WithRoleTyped DEF IInv, TicketsTypeOK, Registered
  <1>3. users' = users \/ users' = [users EXCEPT ![h.id] = user] BY DEF RoleWrite
  <1> HIDE DEF user
  <1>4. /\ users' \in [Users -> UserRow \cup {Null}]
        /\ Registered \subseteq Registered'
    BY <1>1, <1>2, <1>3, TicketsAssumption DEF IInv, TicketsTypeOK, Registered
  <1>5. QED
    BY <1>4, AnswerMoves, ArrivedStep, QuietStep
       DEF RoleWrite, notices, IInv, TicketsTypeOK, Reports

\* Anyone registers.
LEMMA RegisterStep ==
    ASSUME IInv, NEW u \in Users, NEW role \in NewRoles, Register(u, role)
    PROVE  IInv'
  <1> DEFINE row == [role |-> IF role = Undefined THEN "CLIENTE" ELSE role,
                     organizationId |-> Null, linkedTenantId |-> Null]
  <1>1. row \in UserRow BY TicketsAssumption DEF UserRow, Role, StaffRoles, OwnerRoles
  <1>2. users' = [users EXCEPT ![u] = row] BY DEF Register
  <1> HIDE DEF row
  <1>3. /\ users' \in [Users -> UserRow \cup {Null}]
        /\ Registered \subseteq Registered'
    BY <1>1, <1>2, TicketsAssumption DEF IInv, TicketsTypeOK, Registered
  <1>4. QED
    BY <1>3, ArrivedStep, QuietStep DEF Register, notices, IInv, TicketsTypeOK, Reports

\* What is told is stored, read, or lost; properties and tenants are removed.
LEMMA OtherStep ==
    ASSUME IInv,
           \/ \E task \in tasks : Deliver(task) \/ Drop(task)
           \/ \E u \in Registered : MarkAllAsRead(u) \/ \E notice \in unread : MarkAsRead(u, notice)
           \/ \E p \in Properties : RemoveProperty(p)
           \/ \E t \in Tenants : RemoveTenant(t)
           \/ \E r \in Requests : Fail(r)
    PROVE  IInv'
  <1> USE DEF directory, notices, Registered
  <1>1. ASSUME NEW task \in tasks, Deliver(task) PROVE IInv'
    <2>1. task \in Notice \/ (task \notin Notice /\ task \in Entry)
      BY DEF IInv, TicketsTypeOK
    <2>2. QED
      BY <1>1, <2>1, ArrivedStep, QuietStep DEF Deliver, IInv, TicketsTypeOK, Reports
  <1>2. ASSUME NEW task \in tasks, Drop(task) PROVE IInv'
    BY <1>2, ArrivedStep, QuietStep DEF Drop, IInv, TicketsTypeOK, Reports
  <1>3. ASSUME NEW u \in Registered, MarkAllAsRead(u) PROVE IInv'
    BY <1>3, ArrivedStep, QuietStep DEF MarkAllAsRead, IInv, TicketsTypeOK, Reports
  <1>4. ASSUME NEW u \in Registered, NEW notice \in unread, MarkAsRead(u, notice) PROVE IInv'
    BY <1>4, ArrivedStep, QuietStep DEF MarkAsRead, IInv, TicketsTypeOK, Reports
  <1>5. ASSUME NEW p \in Properties, RemoveProperty(p) PROVE IInv'
    BY <1>5, ArrivedStep, QuietStep DEF RemoveProperty, IInv, TicketsTypeOK, Reports
  <1>6. ASSUME NEW t \in Tenants, RemoveTenant(t) PROVE IInv'
    BY <1>6, ArrivedStep, QuietStep DEF RemoveTenant, IInv, TicketsTypeOK, Reports
  <1>7. ASSUME NEW r \in Requests, Fail(r) PROVE IInv'
    BY <1>7, AnswerMoves, ArrivedStep, RequestStep DEF Fail
  <1>8. QED BY <1>1, <1>2, <1>3, <1>4, <1>5, <1>6, <1>7

-----------------------------------------------------------------------------
(***************************************************************************)
(* The theorems.                                                           *)
(***************************************************************************)
\* Every step keeps the invariant.
LEMMA NextIInv == IInv /\ [Next]_vars => IInv'
  <1> SUFFICES ASSUME IInv, [Next]_vars PROVE IInv'
    OBVIOUS
  <1>1. CASE UNCHANGED vars
    BY <1>1, QuietStep, ArrivedStep
       DEF vars, directory, notices, IInv, TicketsTypeOK, Reports, Registered
  <1>2. ASSUME NEW r \in Requests, Proceed(r) PROVE IInv'
    <2>1. CASE Find(r, "find", "write") BY <2>1, FindStep
    <2>2. CASE Find(r, "findClose", "close") BY <2>2, FindStep
    <2>3. QED
      BY <1>2, <2>1, <2>2, CreatePropertyStep, CreateTenantStep, CreateInsertStep,
         UpdateWriteStep, RemoveWriteStep, RoleWriteStep DEF Proceed
  <1>3. ASSUME NEW r \in Requests, NEW u \in Registered, Arrive(r, u) PROVE IInv'
    BY <1>3, CreateStartStep, UpdateStartStep, RemoveStartStep, RoleStartStep DEF Arrive
  <1>4. QED BY <1>1, <1>2, <1>3, RegisterStep, OtherStep DEF Next

\* The invariant is inductive.
LEMMA Inductive == Spec => []IInv
  BY InitIInv, NextIInv, PTL DEF Spec

\* The rows keep the types of the schema, and a handler has the locals its step
\* needs, whatever the others have written since it read.
THEOREM TicketsTyped == Spec => []TicketsTypeOK
  <1>1. IInv => TicketsTypeOK BY DEF IInv
  <1>2. QED BY <1>1, Inductive, PTL

\* A RESUELTO ticket has its date, although each PATCH decides whether to fill
\* it in by the estado it read (MaintenanceService.update).
THEOREM ResolvedKeepsDate == Spec => []ResolvedHasDate
  <1>1. IInv => ResolvedHasDate BY DEF IInv, ResolvedHasDate, RowOK
  <1>2. QED BY <1>1, Inductive, PTL

\* A ticket, its property and its tenant are of one account, although the role
\* of the creator may change while its POST is on the way
\* (MaintenanceService.create).
THEOREM TicketsStayInAccount == Spec => []TicketAccountAgrees
  <1>1. IInv => TicketAccountAgrees BY DEF IInv, TicketAccountAgrees, RowOK
  <1>2. QED BY <1>1, Inductive, PTL

\* What NotificationsService stores about tickets happened, and goes to the
\* account of the ticket.
THEOREM NoticesStayTrue == Spec => []NoticesAreTrue
  <1>1. IInv => NoticesAreTrue BY DEF IInv
  <1>2. QED BY <1>1, Inductive, PTL

\* The one way to change a closed ticket is to have read it before it closed
\* ("No se puede modificar un ticket cerrado").
LEMMA ClosedStep ==
    IInv /\ [Next]_vars =>
      \A k \in Tickets : Closed(k) /\ ~InFlightOn(k) => tickets'[k] = tickets[k]
  <1> SUFFICES ASSUME IInv, [Next]_vars, NEW k \in Tickets, Closed(k), ~InFlightOn(k),
                      tickets'[k] # tickets[k]
               PROVE  FALSE
    OBVIOUS
  <1>1. tickets[k] # Null BY DEF Closed
  <1>2. ASSUME NEW r \in Requests, CreateInsert(r) PROVE FALSE
    <2>1. PICK j \in Tickets :
            /\ tickets[j] = Null
            /\ tickets' = [tickets EXCEPT ![j] = NewTicket(req[r].ownerId, req[r].dto)]
      BY <1>2 DEF CreateInsert
    <2>2. QED BY <1>1, <2>1 DEF IInv, TicketsTypeOK
  <1>3. ASSUME NEW r \in Requests, UpdateWrite(r) \/ RemoveWrite(r) PROVE FALSE
    <2>1. (At(r, "write") \/ At(r, "close")) /\ LocalOK(req[r])
      BY <1>3, Running DEF UpdateWrite, RemoveWrite, At
    <2>2. req[r].seen # "CERRADO" BY <2>1 DEF LocalOK, At
    <2>3. req[r].id # k BY <2>1, <2>2 DEF InFlightOn
    <2>4. CASE UpdateWrite(r)
      <3>1. tickets' = [tickets EXCEPT ![req[r].id] = Updated(@, req[r])]
        BY <2>4 DEF UpdateWrite
      <3>2. QED BY <2>3, <3>1 DEF IInv, TicketsTypeOK
    <2>5. CASE RemoveWrite(r)
      <3>1. tickets' = [tickets EXCEPT ![req[r].id].isActive = FALSE,
                                       ![req[r].id].estado = "CERRADO"]
        BY <2>5 DEF RemoveWrite
      <3>2. QED BY <2>3, <3>1 DEF IInv, TicketsTypeOK
    <2>6. QED BY <1>3, <2>4, <2>5
  <1>4. UNCHANGED tickets
    BY <1>2, <1>3
       DEF Next, vars, Proceed, Arrive, CreateProperty, CreateTenant, Find, RoleWrite, Fail,
           CreateStart, UpdateStart, RemoveStart, RoleStart, Deliver, Drop, MarkAsRead,
           MarkAllAsRead, RemoveProperty, RemoveTenant, Register
  <1>5. QED BY <1>4

\* A closed ticket that no handler read open stays as it is.
THEOREM ClosedTicketsStay == Spec => SettledStaysClosed
  BY ClosedStep, Inductive, PTL DEF Spec, SettledStaysClosed

-----------------------------------------------------------------------------
\* A caller reads what it lists, and lists no more than it may read.
LEMMA ListedIsReadable ==
    ASSUME TicketsTypeOK, NEW u \in Registered
    PROVE  /\ users[u].role # "INQUILINO" \/ users[u].linkedTenantId # Null =>
                \A k \in Tickets : k \in Listed(u, Undefined) <=> CanRead(u, k)
           /\ \A t \in Tenants : \A k \in Listed(u, t) : CanRead(u, k)
  <1>1. users[u].linkedTenantId \in Tenants \cup {Null}
    BY DEF TicketsTypeOK, UserRow, Registered
  <1>2. CASE users[u].role = "INQUILINO"
    <2>1. ResolveOwnerId(u, users[u]) = Undefined BY <1>2 DEF ResolveOwnerId
    <2>2. QED
      BY <1>1, <1>2, <2>1, TicketsAssumption
         DEF Listed, CanRead, FindMany, Active, TicketFound, OwnerMatches
  <1>3. CASE users[u].role # "INQUILINO"
    BY <1>3 DEF Listed, CanRead, FindMany, Active, TicketFound
  <1>4. QED BY <1>2, <1>3

\* The counts of the overview cover the list.
LEMMA OverviewCovers ==
    ASSUME TicketsTypeOK, IsFiniteSet(Tickets), NEW u \in Registered,
           Allows(CanManageMaintenance, users[u].role)
    PROVE  Overview(u).abiertos + Overview(u).resueltos = Cardinality(Listed(u, Undefined))
  <1> DEFINE all == FindMany(ResolveOwnerId(u, users[u]), Undefined)
             open == {k \in all : tickets[k].estado \in OpenStatus}
             done == {k \in all : tickets[k].estado \in {"RESUELTO", "CERRADO"}}
  <1>1. Listed(u, Undefined) = all
    BY DEF Listed, Allows, CanManageMaintenance, OwnerRoles
  <1>2. Overview(u).abiertos = Cardinality(open) /\ Overview(u).resueltos = Cardinality(done)
    BY DEF Overview
  <1>3. all \subseteq Tickets BY DEF FindMany, Active
  <1>4. \A k \in all : tickets[k].estado \in OpenStatus \cup {"RESUELTO", "CERRADO"}
    BY DEF FindMany, Active, TicketsTypeOK, TicketRow, MaintenanceStatus, OpenStatus
  <1> HIDE DEF all
  <1>5. all = open \cup done /\ open \cap done = {} BY <1>4 DEF OpenStatus
  <1>6. IsFiniteSet(open) /\ IsFiniteSet(done) BY <1>3, FS_Subset
  <1> HIDE DEF open, done
  <1>7. Cardinality(open \cup done)
          = Cardinality(open) + Cardinality(done) - Cardinality(open \cap done)
    BY <1>6, FS_Union
  <1>8. Cardinality(open \cap done) = 0 BY <1>5, FS_EmptySet
  <1>9. Cardinality(open) \in Nat /\ Cardinality(done) \in Nat BY <1>6, FS_CardinalityType
  <1>10. QED BY <1>1, <1>2, <1>5, <1>7, <1>8, <1>9

\* GET /maintenance, GET /maintenance/:id and the overview agree for every
\* caller, whatever its role has become (MaintenanceService.findAll, findOne,
\* getOverviewStats).
THEOREM ViewsStayAgreed ==
    ASSUME IsFiniteSet(Tickets)
    PROVE  Spec => []ViewsAgree
  <1>1. TicketsTypeOK => ViewsAgree BY ListedIsReadable, OverviewCovers DEF ViewsAgree
  <1>2. QED BY <1>1, TicketsTyped, PTL
=============================================================================
