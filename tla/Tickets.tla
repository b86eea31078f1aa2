------------------------------ MODULE Tickets ------------------------------
(***************************************************************************)
(* The maintenance tickets of RentFlowAPI: MaintenanceService, the users   *)
(* whose roles decide what each caller reaches (AuthService.register and   *)
(* UsersService.changeRole), and the notices and activity entries that the *)
(* handlers start and do not wait for (NotificationsService).              *)
(*                                                                         *)
(* A handler reads its caller, then the rows it needs, then writes by id;  *)
(* other handlers run between any two of its database calls.  The texts,   *)
(* costs, category and priority of a ticket are left out; so is the        *)
(* deactivation of users, which is in Sessions: here everyone may call.    *)
(***************************************************************************)
EXTENDS FiniteSets, Naturals, Roles

CONSTANTS
    Users, Properties, Tenants,
    Tickets,       \* ids of tickets that may be created (bounds their number)
    Requests,      \* requests in flight at once
    InitialUsers,  \* the rows of users at the start; Null: not registered
    NewRoles,      \* the roles in the bodies of POST /auth/register
    PropertyOwner, \* the owner of each property, which nothing changes
    TenantOwner,   \* the owner of each tenant, which nothing changes
    CreateDtos,    \* bodies of POST /maintenance
    PatchDtos,     \* bodies of PATCH /maintenance/:id
    RoleDtos,      \* bodies of PATCH /users/:id/role
    MaxArrivals    \* how many requests arrive in all (a bound)

MaintenanceStatus == {"PENDIENTE", "EN_PROGRESO", "ESPERANDO_REPUESTOS", "RESUELTO", "CERRADO"}
OpenStatus == {"PENDIENTE", "EN_PROGRESO", "ESPERANDO_REPUESTOS"}

\* The dates a ticket is resolved at: the clock's, the client's, new Date(null).
Dates == {"now", "given", "epoch"}

UserRow == [role : Role, organizationId : Users \cup {Null},
            linkedTenantId : Tenants \cup {Null}]

TicketRow == [ownerId : Users, propertyId : Properties, tenantId : Tenants \cup {Null},
              estado : MaintenanceStatus, fechaResolucion : Dates \cup {Null},
              isActive : BOOLEAN]

\* What a handler tells an account about a ticket: by notify, which the user
\* may mark as read, and by logActivity.  Equal entries are one.
Notice == [userId : Users, what : {"urgent", "resolved"}, ticket : Tickets]
Entry == [userId : Users, action : {"CREATED", "UPDATED", "RESOLVED", "CLOSED"},
          ticket : Tickets]

ASSUME TicketsAssumption ==
    /\ Null # Undefined
    /\ Users \cap {Null, Undefined} = {}
    /\ Null \notin Tenants /\ Undefined \notin Tenants
    /\ Null \notin Tickets
    /\ Null \notin UserRow
    /\ InitialUsers \in [Users -> UserRow \cup {Null}]
    /\ NewRoles \subseteq Role \cup {Undefined}
    /\ PropertyOwner \in [Properties -> Users]
    /\ TenantOwner \in [Tenants -> Users]
    /\ Null \notin MaintenanceStatus /\ Undefined \notin MaintenanceStatus
    /\ Null \notin Dates /\ Undefined \notin Dates
    /\ Null \notin TicketRow
    /\ MaxArrivals \in Nat

\* @IsOptional lets null pass for every optional field.
ASSUME DtosAssumption ==
    /\ CreateDtos \subseteq [propertyId : Properties, tenantId : Tenants \cup {Undefined},
                             prioridad : {"URGENTE", "MEDIA"}]
    /\ PatchDtos \subseteq [estado : MaintenanceStatus \cup {Undefined, Null},
                            fechaResolucion : {"given", "empty", "bad", Undefined, Null}]
    /\ RoleDtos \subseteq [role : Role, organizationId : Users \cup {Undefined, Null},
                           linkedTenantId : Tenants \cup {Undefined, Null}]

VARIABLES
    users,       \* users[u]: the row of user u, or Null
    properties,  \* the active properties
    tenants,     \* the active tenants
    tickets,     \* tickets[k]: the row of ticket k, or Null
    unread,      \* the notices stored and not read
    read,        \* the notices marked as read
    activity,    \* the entries stored in activity_logs
    tasks,       \* the notify and logActivity calls still running
    req,         \* req[r]: where the handler of request r is, and its locals
    arrived      \* how many requests have arrived

directory == <<users, properties, tenants>>
notices == <<unread, read, activity>>
vars == <<directory, tickets, notices, tasks, req, arrived>>

Registered == {u \in Users : users[u] # Null}

Steps == {"property", "tenant", "insert", "find", "write", "findClose", "close",
          "role"}

IdleRequest == [pc : {"idle"}]

\* ownerId: the filter of the caller; id: the ticket or the user named in the
\* path; seen: the estado of the ticket as it was read.
Handler == [pc : Steps, by : Users, ownerId : Users \cup {Undefined},
            id : Tickets \cup Users \cup {Null},
            dto : CreateDtos \cup PatchDtos \cup RoleDtos \cup {Null},
            seen : MaintenanceStatus \cup {Null}]

Idle == [pc |-> "idle"]

At(r, step) == req[r].pc = step

Answer(r) == req' = [req EXCEPT ![r] = Idle]

Continue(r, step) == req' = [req EXCEPT ![r].pc = step]

Count == arrived < MaxArrivals /\ arrived' = arrived + 1

\* JwtStrategy reads the caller, RolesGuard compares its role.
Begin(r, step, u, required, ownerId, id, dto) ==
    /\ At(r, "idle")
    /\ Count
    /\ Allows(required, users[u].role)
    /\ req' = [req EXCEPT ![r] = [pc |-> step, by |-> u, ownerId |-> ownerId, id |-> id,
                                  dto |-> dto, seen |-> Null]]

-----------------------------------------------------------------------------
(***************************************************************************)
(* NotificationsService: calls that no handler waits for, and whose        *)
(* failures are only logged.                                               *)
(***************************************************************************)
Notify(ownerId, what, k) == [userId |-> ownerId, what |-> what, ticket |-> k]

LogActivity(ownerId, action, k) == [userId |-> ownerId, action |-> action, ticket |-> k]

\* The row is stored and emitted to the sockets of its user.
Deliver(task) ==
    /\ task \in tasks
    /\ tasks' = tasks \ {task}
    /\ IF task \in Notice
         THEN unread' = unread \cup {task} /\ UNCHANGED activity
         ELSE activity' = activity \cup {task} /\ UNCHANGED unread
    /\ UNCHANGED <<directory, tickets, read, req, arrived>>

\* The insert fails, or the process ends before it.
Drop(task) ==
    /\ task \in tasks
    /\ tasks' = tasks \ {task}
    /\ UNCHANGED <<directory, tickets, notices, req, arrived>>

\* PATCH /notifications/:id/read.  The row is found among those of the caller,
\* then updated; no row changes hands in between.
MarkAsRead(u, notice) ==
    /\ Count
    /\ notice \in unread /\ notice.userId = u
    /\ unread' = unread \ {notice}
    /\ read' = read \cup {notice}
    /\ UNCHANGED <<directory, tickets, activity, tasks, req>>

\* PATCH /notifications/read-all
MarkAllAsRead(u) ==
    /\ Count
    /\ LET mine == {notice \in unread : notice.userId = u}
       IN  unread' = unread \ mine /\ read' = read \cup mine
    /\ UNCHANGED <<directory, tickets, activity, tasks, req>>

-----------------------------------------------------------------------------
(***************************************************************************)
(* POST /maintenance.                                                      *)
(***************************************************************************)
CanReport == OwnerRoles \cup {"MANTENIMIENTO", "INQUILINO"}

CreateStart(r, u, dto) ==
    /\ Begin(r, "property", u, CanReport, OwnerOrSelf(u, users[u]), Null, dto)
    /\ UNCHANGED <<directory, tickets, notices, tasks>>

\* findPropertyByOwner
PropertyFound(p, ownerId) == p \in properties /\ PropertyOwner[p] = ownerId

\* Mutant: any active tenant is found.
TenantOfAnyone(t, ownerId) == t \in tenants

\* findTenantByOwner
TenantFound(t, ownerId) == t \in tenants /\ TenantOwner[t] = ownerId

CreateProperty(r) ==
    LET h == req[r] IN
    /\ At(r, "property")
    /\ IF ~PropertyFound(h.dto.propertyId, h.ownerId) THEN Answer(r)
       ELSE Continue(r, IF h.dto.tenantId = Undefined THEN "insert" ELSE "tenant")
    /\ UNCHANGED <<directory, tickets, notices, tasks, arrived>>

CreateTenant(r) ==
    /\ At(r, "tenant")
    /\ IF TenantFound(req[r].dto.tenantId, req[r].ownerId) THEN Continue(r, "insert") ELSE Answer(r)
    /\ UNCHANGED <<directory, tickets, notices, tasks, arrived>>

\* Mutant: no column has a default.
NewTicketNoDefault(ownerId, dto) ==
    [ownerId |-> ownerId, propertyId |-> dto.propertyId, tenantId |-> dto.tenantId,
     estado |-> Null, fechaResolucion |-> Null, isActive |-> TRUE]

NewTicket(ownerId, dto) ==
    [ownerId |-> ownerId, propertyId |-> dto.propertyId,
     tenantId |-> IF dto.tenantId = Undefined THEN Null ELSE dto.tenantId,
     estado |-> "PENDIENTE", fechaResolucion |-> Null, isActive |-> TRUE]

\* Bound: a request waits here when no id is left.
CreateInsert(r) ==
    LET h == req[r] IN
    /\ At(r, "insert")
    /\ \E k \in Tickets :
         /\ tickets[k] = Null
         /\ tickets' = [tickets EXCEPT ![k] = NewTicket(h.ownerId, h.dto)]
         /\ tasks' = tasks \cup {LogActivity(h.ownerId, "CREATED", k)}
                       \cup (IF h.dto.prioridad = "URGENTE"
                               THEN {Notify(h.ownerId, "urgent", k)} ELSE {})
    /\ Answer(r)
    /\ UNCHANGED <<directory, notices, arrived>>

-----------------------------------------------------------------------------
(***************************************************************************)
(* PATCH /maintenance/:id and DELETE /maintenance/:id.                     *)
(***************************************************************************)
\* findById
TicketFound(k, ownerId) ==
    tickets[k] # Null /\ tickets[k].isActive /\ OwnerMatches(tickets[k].ownerId, ownerId)

UpdateStart(r, u, k, dto) ==
    /\ Begin(r, "find", u, CanManageMaintenance, OwnerOrSelf(u, users[u]), k, dto)
    /\ UNCHANGED <<directory, tickets, notices, tasks>>

\* A caller without owner filter finds every ticket.
RemoveStart(r, u, k) ==
    /\ Begin(r, "findClose", u, CanManageMaintenance, ResolveOwnerId(u, users[u]), k, Null)
    /\ UNCHANGED <<directory, tickets, notices, tasks>>

\* Mutant: a closed ticket may be modified.
FindOpenOrClosed(r, step, next) ==
    LET h == req[r] IN
    /\ At(r, step)
    /\ IF TicketFound(h.id, h.ownerId)
         THEN req' = [req EXCEPT ![r].pc = next, ![r].seen = tickets[h.id].estado]
         ELSE Answer(r)
    /\ UNCHANGED <<directory, tickets, notices, tasks, arrived>>

\* findOne and the check of estado, of update and of remove.
Find(r, step, next) ==
    LET h == req[r] IN
    /\ At(r, step)
    /\ IF TicketFound(h.id, h.ownerId) /\ tickets[h.id].estado # "CERRADO"
         THEN req' = [req EXCEPT ![r].pc = next, ![r].seen = tickets[h.id].estado]
         ELSE Answer(r)
    /\ UNCHANGED <<directory, tickets, notices, tasks, arrived>>

NuevoEstado(h) == IF h.dto.estado \in {Undefined, Null} THEN h.seen ELSE h.dto.estado

\* The ticket becomes RESUELTO, judged by the estado that was read.
Resolves(h) == NuevoEstado(h) = "RESUELTO" /\ h.seen # "RESUELTO"

\* Mutant: only an absent date is filled in, whatever the estado becomes.
NoDateFilled(h) == h.dto.fechaResolucion

\* dto.fechaResolucion after the date of a resolution without one is filled in.
FechaResolucion(h) ==
    IF Resolves(h) /\ h.dto.fechaResolucion \in {Undefined, Null, "empty"}
      THEN "now" ELSE h.dto.fechaResolucion

\* Prisma refuses a null estado and an invalid date.
UpdateRefused(h) == h.dto.estado = Null \/ FechaResolucion(h) \in {"empty", "bad"}

Updated(row, h) ==
    [row EXCEPT !.estado = IF h.dto.estado = Undefined THEN @ ELSE h.dto.estado,
                !.fechaResolucion = CASE FechaResolucion(h) = Undefined -> @
                                      [] FechaResolucion(h) = Null -> "epoch"
                                      [] OTHER -> FechaResolucion(h)]

\* Mutant: the account is told before the row is written, so a refusal is not.
UpdateTold(r) ==
    LET h == req[r] IN
    /\ At(r, "write")
    /\ tickets' = IF UpdateRefused(h) THEN tickets
                  ELSE [tickets EXCEPT ![h.id] = Updated(@, h)]
    /\ tasks' = tasks \cup (IF Resolves(h)
                              THEN {Notify(h.ownerId, "resolved", h.id),
                                    LogActivity(h.ownerId, "RESOLVED", h.id)}
                              ELSE {LogActivity(h.ownerId, "UPDATED", h.id)})
    /\ Answer(r)
    /\ UNCHANGED <<directory, notices, arrived>>

\* update({ where: { id } }): whatever the row has become since it was read.
UpdateWrite(r) ==
    LET h == req[r] IN
    /\ At(r, "write")
    /\ ~UpdateRefused(h)
    /\ tickets' = [tickets EXCEPT ![h.id] = Updated(@, h)]
    /\ tasks' = tasks \cup (IF Resolves(h)
                              THEN {Notify(h.ownerId, "resolved", h.id),
                                    LogActivity(h.ownerId, "RESOLVED", h.id)}
                              ELSE {LogActivity(h.ownerId, "UPDATED", h.id)})
    /\ Answer(r)
    /\ UNCHANGED <<directory, notices, arrived>>

\* softDelete
RemoveWrite(r) ==
    LET h == req[r] IN
    /\ At(r, "close")
    /\ tickets' = [tickets EXCEPT ![h.id].isActive = FALSE, ![h.id].estado = "CERRADO"]
    /\ tasks' = tasks \cup (IF h.ownerId = Undefined THEN {}
                            ELSE {LogActivity(h.ownerId, "CLOSED", h.id)})
    /\ Answer(r)
    /\ UNCHANGED <<directory, notices, arrived>>

-----------------------------------------------------------------------------
(***************************************************************************)
(* POST /auth/register and PATCH /users/:id/role.  Users are never         *)
(* deleted: assertExists finds whom it found before.  The entry that       *)
(* changeRole logs is left out, as are the tokens of register, which are   *)
(* in Sessions.                                                            *)
(***************************************************************************)
\* Anyone registers, with the role of the body or the default of the schema.
Register(u, role) ==
    /\ Count
    /\ users[u] = Null
    /\ users' = [users EXCEPT ![u] = [role |-> IF role = Undefined THEN "CLIENTE" ELSE role,
                                      organizationId |-> Null, linkedTenantId |-> Null]]
    /\ UNCHANGED <<properties, tenants, tickets, notices, tasks, req>>

\* "ADMIN no puede promover a SUPER_ADMIN ni a otro ADMIN"
MayAssign(caller, role) == ~(caller = "ADMIN" /\ role \in {"SUPER_ADMIN", "ADMIN"})

RoleStart(r, u, target, dto) ==
    /\ MayAssign(users[u].role, dto.role)
    /\ Begin(r, "role", u, AdminOnly, Undefined, target, dto)
    /\ UNCHANGED <<directory, tickets, notices, tasks>>

WithRole(user, dto) ==
    [user EXCEPT
        !.role = dto.role,
        !.organizationId = IF dto.role \in OwnerRoles THEN Null
                           ELSE IF dto.organizationId = Undefined THEN @ ELSE dto.organizationId,
        !.linkedTenantId = IF dto.role # "INQUILINO" THEN Null
                           ELSE IF dto.linkedTenantId = Undefined THEN @ ELSE dto.linkedTenantId]

\* linkedTenantId is unique: the update is refused if another user has it.
RoleWrite(r) ==
    LET h == req[r]
        user == WithRole(users[h.id], h.dto)
        taken == \E v \in Registered \ {h.id} :
                   user.linkedTenantId # Null /\ users[v].linkedTenantId = user.linkedTenantId
    IN
    /\ At(r, "role")
    /\ users' = IF taken THEN users ELSE [users EXCEPT ![h.id] = user]
    /\ Answer(r)
    /\ UNCHANGED <<properties, tenants, tickets, notices, tasks, arrived>>

-----------------------------------------------------------------------------
\* DELETE /properties/:id and DELETE /tenants/:id, whose handlers are in Leases.
RemoveProperty(p) ==
    /\ Count
    /\ properties' = properties \ {p}
    /\ UNCHANGED <<users, tenants, tickets, notices, tasks, req>>

RemoveTenant(t) ==
    /\ Count
    /\ tenants' = tenants \ {t}
    /\ UNCHANGED <<users, properties, tickets, notices, tasks, req>>

\* A call of the database fails: the handler throws.
Fail(r) ==
    /\ ~At(r, "idle")
    /\ Answer(r)
    /\ UNCHANGED <<directory, tickets, notices, tasks, arrived>>

Arrive(r, u) ==
    \/ \E dto \in CreateDtos : CreateStart(r, u, dto)
    \/ \E k \in {k \in Tickets : tickets[k] # Null} :
         RemoveStart(r, u, k) \/ \E dto \in PatchDtos : UpdateStart(r, u, k, dto)
    \/ \E v \in Registered, dto \in RoleDtos : RoleStart(r, u, v, dto)

Proceed(r) ==
    \/ CreateProperty(r) \/ CreateTenant(r) \/ CreateInsert(r)
    \/ Find(r, "find", "write") \/ UpdateWrite(r)
    \/ Find(r, "findClose", "close") \/ RemoveWrite(r)
    \/ RoleWrite(r)

Init ==
    /\ users = InitialUsers
    /\ properties = Properties
    /\ tenants = Tenants
    /\ tickets = [k \in Tickets |-> Null]
    /\ unread = {} /\ read = {} /\ activity = {} /\ tasks = {}
    /\ req = [r \in Requests |-> Idle]
    /\ arrived = 0

Next ==
    \/ \E r \in Requests : Proceed(r) \/ Fail(r) \/ \E u \in Registered : Arrive(r, u)
    \/ \E task \in tasks : Deliver(task) \/ Drop(task)
    \/ \E u \in Users, role \in NewRoles : Register(u, role)
    \/ \E u \in Registered : MarkAllAsRead(u) \/ \E notice \in unread : MarkAsRead(u, notice)
    \/ \E p \in Properties : RemoveProperty(p)
    \/ \E t \in Tenants : RemoveTenant(t)

Spec == Init /\ [][Next]_vars

-----------------------------------------------------------------------------
(***************************************************************************)
(* What GET /maintenance, GET /maintenance/:id and                         *)
(* GET /maintenance/stats/overview answer to the user u.                   *)
(***************************************************************************)
Active == {k \in Tickets : tickets[k] # Null /\ tickets[k].isActive}

\* findMany with the query's tenantId: buildWhere without its other filters.
FindMany(ownerId, tenantId) ==
    {k \in Active : /\ OwnerMatches(tickets[k].ownerId, ownerId)
                    /\ tenantId = Undefined \/ tickets[k].tenantId = tenantId}

\* Mutant: the tenantId of the query wins.
ListedAsAsked(u, tenantId) ==
    IF users[u].role = "INQUILINO" /\ users[u].linkedTenantId = Null THEN {}
    ELSE FindMany(ResolveOwnerId(u, users[u]), tenantId)

\* An INQUILINO lists its own tickets, whatever it asks for; without a linked
\* tenant it is refused.
Listed(u, tenantId) ==
    IF users[u].role # "INQUILINO" THEN FindMany(ResolveOwnerId(u, users[u]), tenantId)
    ELSE IF users[u].linkedTenantId = Null THEN {}
    ELSE FindMany(Undefined, users[u].linkedTenantId)

CanRead(u, k) ==
    /\ TicketFound(k, ResolveOwnerId(u, users[u]))
    /\ users[u].role = "INQUILINO" => tickets[k].tenantId = users[u].linkedTenantId

Overview(u) ==
    LET mine(statuses) == {k \in FindMany(ResolveOwnerId(u, users[u]), Undefined) :
                             tickets[k].estado \in statuses}
        resueltos == mine({"RESUELTO", "CERRADO"})
    IN  [abiertos |-> Cardinality(mine(OpenStatus)),
         resueltos |-> Cardinality(resueltos),
         timed |-> {k \in resueltos : tickets[k].fechaResolucion # Null}]

-----------------------------------------------------------------------------
(***************************************************************************)
(* Properties.                                                             *)
(***************************************************************************)
\* The rows have the types of the schema, the handlers the locals they need.
TicketsTypeOK ==
    /\ users \in [Users -> UserRow \cup {Null}]
    /\ properties \subseteq Properties
    /\ tenants \subseteq Tenants
    /\ tickets \in [Tickets -> TicketRow \cup {Null}]
    /\ unread \subseteq Notice
    /\ read \subseteq Notice
    /\ activity \subseteq Entry
    /\ tasks \subseteq Notice \cup Entry
    /\ req \in [Requests -> IdleRequest \cup Handler]
    /\ arrived \in 0 .. MaxArrivals

\* A RESUELTO ticket has a fechaResolucion, so that the average of the overview
\* counts it, although a PATCH decides whether to fill the date in by the estado
\* it read and other handlers write in between.
ResolvedHasDate ==
    \A k \in Tickets :
        tickets[k] # Null /\ tickets[k].estado = "RESUELTO" => tickets[k].fechaResolucion # Null

\* A ticket, its property and its tenant belong to one account, whoever created
\* it and whatever became of the creator's role meanwhile.
TicketAccountAgrees ==
    \A k \in Tickets : tickets[k] # Null =>
        /\ PropertyOwner[tickets[k].propertyId] = tickets[k].ownerId
        /\ tickets[k].tenantId # Null => TenantOwner[tickets[k].tenantId] = tickets[k].ownerId

\* What is told happened, and is told to the account of the ticket: the calls
\* nobody waits for never report a write that was refused or lost.
Told(task) ==
    LET row == tickets[task.ticket] IN
    /\ row # Null
    /\ task.userId = row.ownerId
    /\ task \in Notice /\ task.what = "resolved" => row.fechaResolucion # Null
    /\ task \in Entry /\ task.action = "RESOLVED" => row.fechaResolucion # Null
    /\ task \in Entry /\ task.action = "CLOSED" => ~row.isActive

NoticesAreTrue == \A task \in tasks \cup unread \cup read \cup activity : Told(task)

\* A ticket that is closed stays as it is once no handler that read it open is
\* still to write: "No se puede modificar un ticket cerrado".
InFlightOn(k) ==
    \E r \in Requests :
        (At(r, "write") \/ At(r, "close")) /\ req[r].id = k /\ req[r].seen # "CERRADO"

Closed(k) == tickets[k] # Null /\ (tickets[k].estado = "CERRADO" \/ ~tickets[k].isActive)

SettledStaysClosed ==
    [][\A k \in Tickets : Closed(k) /\ ~InFlightOn(k) => tickets'[k] = tickets[k]]_vars

\* The three views of a caller agree, each role's filters included: it can read
\* exactly what it lists, a query never widens the list, and for those who may
\* see the overview, its counts cover the list.  (An INQUILINO without a linked
\* tenant is refused the list; it may still read tickets without a tenant.)
ViewsAgree ==
    \A u \in Registered :
        /\ users[u].role # "INQUILINO" \/ users[u].linkedTenantId # Null =>
             \A k \in Tickets : k \in Listed(u, Undefined) <=> CanRead(u, k)
        /\ \A t \in Tenants : \A k \in Listed(u, t) : CanRead(u, k)
        /\ Allows(CanManageMaintenance, users[u].role) =>
             Overview(u).abiertos + Overview(u).resueltos = Cardinality(Listed(u, Undefined))
=============================================================================
