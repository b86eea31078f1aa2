------------------------------- MODULE Leases -------------------------------
(***************************************************************************)
(* The rental core of RentFlowAPI: the tables properties, tenants and      *)
(* contracts, and the HTTP handlers that change them (the services         *)
(* ContractsService, PropertiesService and TenantsService with their       *)
(* repositories).                                                          *)
(*                                                                         *)
(* A handler is an async function: it yields at every await on the         *)
(* database, so two handlers interleave at these points.  One action is    *)
(* one database call (or one transaction commit) with the code up to the   *)
(* next await.  A handler's local variables are the record req[r].         *)
(***************************************************************************)
EXTENDS Integers, FiniteSets

CONSTANTS
    Users,           \* ids of users; an ownerId is one of them
    Properties,      \* ids a property row may get
    Tenants,         \* ids a tenant row may get
    Contracts,       \* ids a contract row may get (bounds the number of rows)
    Codes,           \* values of codigoContrato
    Requests,        \* requests the server may have in flight at once
    CreateDtos,      \* bodies of POST /contracts the clients send
    PatchDtos,       \* bodies of PATCH /contracts/:id the clients send
    PropertyPatches, \* values of estado in PATCH /properties/:id
    Null,            \* a JSON null; also: no row with this id
    Undefined        \* a field the body leaves out

ContractStatus == {"ACTIVO", "PROXIMO_A_VENCER", "VENCIDO", "CANCELADO", "RENOVADO"}
PropertyStatus == {"DISPONIBLE", "OCUPADA", "MANTENIMIENTO"}

\* The states countActiveByProperty counts.
OccupyingStatus == {"ACTIVO", "PROXIMO_A_VENCER"}

\* new Date(null), as a number on the scale of the other dates.
Epoch == 0

(***************************************************************************)
(* Request bodies, after the global ValidationPipe.  PartialType makes     *)
(* every field of the PATCH body optional, and @IsOptional lets null pass. *)
(***************************************************************************)
CreateDto == [propertyId : Properties, tenantId : Tenants,
              fechaInicio : Int, fechaFin : Int,
              estado : ContractStatus \cup {Undefined}]

PatchDto == [fechaInicio : Int \cup {Undefined, Null},
             fechaFin : Int \cup {Undefined, Null},
             estado : ContractStatus \cup {Undefined},
             propertyId : Properties \cup {Undefined},
             tenantId : Tenants \cup {Undefined}]

ASSUME MarkersAssumption ==
    /\ Null \notin Int /\ Undefined \notin Int /\ Null # Undefined
    /\ Null \notin ContractStatus /\ Undefined \notin ContractStatus

ASSUME DtosAssumption ==
    /\ CreateDtos \subseteq CreateDto
    /\ PatchDtos \subseteq PatchDto
    /\ PropertyPatches \subseteq PropertyStatus

VARIABLES
    properties, \* the table properties
    tenants,    \* the table tenants
    contracts,  \* the table contracts
    req         \* req[r]: where the handler of request r is, and its locals

tables == <<properties, tenants, contracts>>
vars == <<properties, tenants, contracts, req>>

-----------------------------------------------------------------------------
(***************************************************************************)
(* Rows and requests.                                                      *)
(***************************************************************************)
PropertyRow == [ownerId : Users, estado : PropertyStatus, isActive : BOOLEAN]

TenantRow == [ownerId : Users, isActive : BOOLEAN]

ContractRow == [codigoContrato : Codes, ownerId : Users,
                propertyId : Properties, tenantId : Tenants,
                fechaInicio : Int, fechaFin : Int,
                estado : ContractStatus, isActive : BOOLEAN]

ASSUME NullAssumption ==
    /\ Null \notin PropertyRow \cup TenantRow \cup ContractRow
    /\ Null \notin Contracts

\* The rows a handler has asked for and not yet got.
Lookup == {"property", "tenant"}

IdleRequest == [pc : {"idle"}]

CreateSteps == {"createFind", "createCount", "createCode", "createInsert"}

CreateRequest == [pc : CreateSteps, ownerId : Users, dto : CreateDtos,
                  pending : SUBSET Lookup, codigo : Codes \cup {Undefined}]

PatchSteps == {"patchFind", "patchWrite"}

PatchRequest == [pc : PatchSteps, ownerId : Users,
                 id : Contracts, dto : PatchDtos, pending : SUBSET Lookup]

CancelSteps == {"cancelBegin", "cancelCommit"}

CancelRequest == [pc : CancelSteps, id : Contracts,
                  propertyId : Properties, estado : PropertyStatus \cup {Undefined}]

\* The handler has read a contract and will write it.
WritingSteps == PatchSteps \cup CancelSteps

PropertyPatchRequest == [pc : {"propertyWrite"}, id : Properties,
                         estado : PropertyPatches]

PropertyRemoveRequest == [pc : {"propertyRemove"}, id : Properties]

TenantRemoveRequest == [pc : {"tenantRemove"}, id : Tenants]

Request == IdleRequest \cup CreateRequest \cup PatchRequest \cup CancelRequest
             \cup PropertyPatchRequest \cup PropertyRemoveRequest
             \cup TenantRemoveRequest

Idle == [pc |-> "idle"]

At(r, step) == req[r].pc = step

\* The handler of r returns, or throws and is answered with an error.
Answer(r) == req' = [req EXCEPT ![r] = Idle]

Resume(r, locals) == req' = [req EXCEPT ![r] = locals]

-----------------------------------------------------------------------------
(***************************************************************************)
(* Queries.                                                                *)
(***************************************************************************)
Present(table, id) == table[id] # Null

\* Mutant: the lookup forgets the ownerId.
FoundByAnyone(table, id, owner) == Present(table, id) /\ table[id].isActive

\* findFirst({ where: { id, ownerId, isActive: true } })
FoundByOwner(table, id, owner) ==
    /\ Present(table, id)
    /\ table[id].ownerId = owner
    /\ table[id].isActive

\* The same, where the ownerId filter is left out for SUPER_ADMIN.
FoundInScope(table, id, scope) ==
    \/ scope = Undefined /\ Present(table, id) /\ table[id].isActive
    \/ scope # Undefined /\ FoundByOwner(table, id, scope)

Scopes == Users \cup {Undefined}

Occupies(c, p) ==
    /\ Present(contracts, c)
    /\ contracts[c].propertyId = p
    /\ contracts[c].isActive
    /\ contracts[c].estado \in OccupyingStatus

\* countActiveByProperty(p) > 0
HasActiveContract(p) == \E c \in Contracts : Occupies(c, p)

CodeExists(codigo) ==
    \E c \in Contracts : Present(contracts, c) /\ contracts[c].codigoContrato = codigo

-----------------------------------------------------------------------------
(***************************************************************************)
(* POST /properties and POST /tenants: the new row appears by one INSERT.  *)
(* What the tenant handler reads first (e-mail, DNI) decides only whether  *)
(* the row appears, and is left open here.                                 *)
(***************************************************************************)
CreateProperty(p, owner) ==
    /\ ~Present(properties, p)
    /\ properties' = [properties EXCEPT
          ![p] = [ownerId |-> owner, estado |-> "DISPONIBLE", isActive |-> TRUE]]
    /\ UNCHANGED <<tenants, contracts, req>>

CreateTenant(t, owner) ==
    /\ ~Present(tenants, t)
    /\ tenants' = [tenants EXCEPT ![t] = [ownerId |-> owner, isActive |-> TRUE]]
    /\ UNCHANGED <<properties, contracts, req>>

-----------------------------------------------------------------------------
(***************************************************************************)
(* POST /contracts: ContractsService.create.                               *)
(***************************************************************************)
\* Mutant: the default of estado is forgotten.
SaysActivo(dto) == dto.estado = "ACTIVO"

IsActivo(dto) == dto.estado \in {Undefined, "ACTIVO"}

\* Bound: an unused contract id is left for every create in flight.
ContractIdsLeft ==
    Cardinality({r \in Requests : req[r].pc \in CreateSteps})
        < Cardinality({c \in Contracts : ~Present(contracts, c)})

\* The date check, then the two lookups of Promise.all are sent.
CreateStart(r, owner, dto) ==
    /\ At(r, "idle")
    /\ ContractIdsLeft
    /\ dto.fechaFin > dto.fechaInicio
    /\ Resume(r, [pc |-> "createFind", ownerId |-> owner, dto |-> dto,
                  pending |-> Lookup, codigo |-> Undefined])
    /\ UNCHANGED tables

\* Only a contract that starts as ACTIVO is checked against the others.
AfterFind(q) ==
    IF q.pending # {} THEN q
    ELSE [q EXCEPT !.pc = IF IsActivo(q.dto) THEN "createCount" ELSE "createCode"]

\* One of the two lookups answers; they answer in either order.
CreateFindProperty(r) ==
    /\ At(r, "createFind") /\ "property" \in req[r].pending
    /\ IF FoundByOwner(properties, req[r].dto.propertyId, req[r].ownerId)
         THEN Resume(r, AfterFind([req[r] EXCEPT !.pending = @ \ {"property"}]))
         ELSE Answer(r)
    /\ UNCHANGED tables

CreateFindTenant(r) ==
    /\ At(r, "createFind") /\ "tenant" \in req[r].pending
    /\ IF FoundByOwner(tenants, req[r].dto.tenantId, req[r].ownerId)
         THEN Resume(r, AfterFind([req[r] EXCEPT !.pending = @ \ {"tenant"}]))
         ELSE Answer(r)
    /\ UNCHANGED tables

\* Mutant: the count is not looked at.
CreateUncounted(r) ==
    /\ At(r, "createCount")
    /\ Resume(r, [req[r] EXCEPT !.pc = "createCode"])
    /\ UNCHANGED tables

\* 409 when the property already has an active contract.
CreateCount(r) ==
    /\ At(r, "createCount")
    /\ IF HasActiveContract(req[r].dto.propertyId)
         THEN Answer(r)
         ELSE Resume(r, [req[r] EXCEPT !.pc = "createCode"])
    /\ UNCHANGED tables

\* Mutant: the loop's condition is inverted.
CreateUsedCode(r) ==
    /\ At(r, "createCode")
    /\ \E codigo \in Codes :
         /\ CodeExists(codigo)
         /\ Resume(r, [req[r] EXCEPT !.pc = "createInsert", !.codigo = codigo])
    /\ UNCHANGED tables

\* The last round of generateUniqueCode.  The rounds before it drew a code
\* that exists: they change nothing.
CreateCode(r) ==
    /\ At(r, "createCode")
    /\ \E codigo \in Codes :
         /\ ~CodeExists(codigo)
         /\ Resume(r, [req[r] EXCEPT !.pc = "createInsert", !.codigo = codigo])
    /\ UNCHANGED tables

\* Mutant: an estado left out is not replaced.
NewWithoutDefault(q) ==
    [codigoContrato |-> q.codigo, ownerId |-> q.ownerId,
     propertyId |-> q.dto.propertyId, tenantId |-> q.dto.tenantId,
     fechaInicio |-> q.dto.fechaInicio, fechaFin |-> q.dto.fechaFin,
     estado |-> q.dto.estado, isActive |-> TRUE]

NewContract(q) ==
    [codigoContrato |-> q.codigo, ownerId |-> q.ownerId,
     propertyId |-> q.dto.propertyId, tenantId |-> q.dto.tenantId,
     fechaInicio |-> q.dto.fechaInicio, fechaFin |-> q.dto.fechaFin,
     estado |-> IF q.dto.estado = Undefined THEN "ACTIVO" ELSE q.dto.estado,
     isActive |-> TRUE]

\* The unique key codigoContrato rejects a code taken since it was drawn.
CreateRejected(r) ==
    /\ At(r, "createInsert")
    /\ CodeExists(req[r].codigo)
    /\ Answer(r)
    /\ UNCHANGED tables

\* The commit of ContractRepository.create.
CreateInsert(r) ==
    /\ At(r, "createInsert")
    /\ ~CodeExists(req[r].codigo)
    /\ \E c \in Contracts :
         /\ ~Present(contracts, c)
         /\ contracts' = [contracts EXCEPT ![c] = NewContract(req[r])]
    /\ properties' = IF IsActivo(req[r].dto)
                       THEN [properties EXCEPT
                               ![req[r].dto.propertyId] = [@ EXCEPT !.estado = "OCUPADA"]]
                       ELSE properties
    /\ Answer(r)
    /\ UNCHANGED tenants

-----------------------------------------------------------------------------
(***************************************************************************)
(* PATCH /contracts/:id: ContractsService.update.                          *)
(***************************************************************************)
\* The JavaScript truth value of a date or an id in a body.
Given(field) == field \notin {Undefined, Null}

\* Mutant: a date given alone is not compared with the row's.
BothDatesAccepted(row, dto) ==
    Given(dto.fechaInicio) /\ Given(dto.fechaFin) => dto.fechaFin > dto.fechaInicio

\* The date check mixes the body with the row as it was read.
DatesAccepted(row, dto) ==
    LET inicio == IF Given(dto.fechaInicio) THEN dto.fechaInicio ELSE row.fechaInicio
        fin    == IF Given(dto.fechaFin) THEN dto.fechaFin ELSE row.fechaFin
    IN  Given(dto.fechaInicio) \/ Given(dto.fechaFin) => fin > inicio

\* The rows update looks up: those the body names and the contract has not.
ToFind(row, dto) ==
    {k \in Lookup :
        \/ k = "property" /\ dto.propertyId \notin {Undefined, row.propertyId}
        \/ k = "tenant" /\ dto.tenantId \notin {Undefined, row.tenantId}}

AfterPatchFind(q) == IF q.pending # {} THEN q ELSE [q EXCEPT !.pc = "patchWrite"]

\* Mutant: cancelled contracts are not turned away.
PatchReadAny(r, owner, id, dto) ==
    /\ At(r, "idle")
    /\ FoundByOwner(contracts, id, owner)
    /\ DatesAccepted(contracts[id], dto)
    /\ Resume(r, AfterPatchFind([pc |-> "patchFind", ownerId |-> owner, id |-> id,
                                 dto |-> dto, pending |-> ToFind(contracts[id], dto)]))
    /\ UNCHANGED tables

\* findOne and the checks on its answer (404 and 400 leave all unchanged).
PatchRead(r, owner, id, dto) ==
    /\ At(r, "idle")
    /\ FoundByOwner(contracts, id, owner)
    /\ contracts[id].estado # "CANCELADO"
    /\ DatesAccepted(contracts[id], dto)
    /\ Resume(r, AfterPatchFind([pc |-> "patchFind", ownerId |-> owner, id |-> id,
                                 dto |-> dto, pending |-> ToFind(contracts[id], dto)]))
    /\ UNCHANGED tables

PatchFindProperty(r) ==
    /\ At(r, "patchFind") /\ "property" \in req[r].pending
    /\ IF FoundByOwner(properties, req[r].dto.propertyId, req[r].ownerId)
         THEN Resume(r, AfterPatchFind([req[r] EXCEPT !.pending = @ \ {"property"}]))
         ELSE Answer(r)
    /\ UNCHANGED tables

\* Awaited after the property's.
PatchFindTenant(r) ==
    /\ At(r, "patchFind") /\ req[r].pending = {"tenant"}
    /\ IF FoundByOwner(tenants, req[r].dto.tenantId, req[r].ownerId)
         THEN Resume(r, AfterPatchFind([req[r] EXCEPT !.pending = {}]))
         ELSE Answer(r)
    /\ UNCHANGED tables

\* ContractRepository.update: a field is written unless the body leaves it
\* out; a null date becomes new Date(null).  propertyId and tenantId are
\* never written.
Written(old, field) ==
    CASE field = Undefined -> old
      [] field = Null -> Epoch
      [] OTHER -> field

\* Mutant: the tenant that was looked up is written.
PatchedTenant(row, dto) ==
    [row EXCEPT !.fechaInicio = Written(@, dto.fechaInicio),
                !.fechaFin = Written(@, dto.fechaFin),
                !.estado = Written(@, dto.estado),
                !.tenantId = Written(@, dto.tenantId)]

\* Mutant: an estado left out is taken as ACTIVO, as in POST.
PatchedDefault(row, dto) ==
    [row EXCEPT !.fechaInicio = Written(@, dto.fechaInicio),
                !.fechaFin = Written(@, dto.fechaFin),
                !.estado = IF dto.estado = Undefined THEN "ACTIVO" ELSE dto.estado]

Patched(row, dto) ==
    [row EXCEPT !.fechaInicio = Written(@, dto.fechaInicio),
                !.fechaFin = Written(@, dto.fechaFin),
                !.estado = Written(@, dto.estado)]

\* The row is found by its id alone, whatever became of it since the read.
PatchWrite(r) ==
    /\ At(r, "patchWrite")
    /\ contracts' = [contracts EXCEPT ![req[r].id] = Patched(@, req[r].dto)]
    /\ Answer(r)
    /\ UNCHANGED <<properties, tenants>>

-----------------------------------------------------------------------------
(***************************************************************************)
(* DELETE /contracts/:id: ContractsService.remove.  The transaction reads  *)
(* from the snapshot taken by its first statement (REPEATABLE READ).       *)
(***************************************************************************)
CancelRead(r, owner, id) ==
    /\ At(r, "idle")
    /\ FoundByOwner(contracts, id, owner)
    /\ contracts[id].estado # "CANCELADO"
    /\ Resume(r, [pc |-> "cancelBegin", id |-> id,
                  propertyId |-> contracts[id].propertyId, estado |-> Undefined])
    /\ UNCHANGED tables

CancelBegin(r) ==
    /\ At(r, "cancelBegin")
    /\ Resume(r, [req[r] EXCEPT !.pc = "cancelCommit",
                                !.estado = properties[req[r].propertyId].estado])
    /\ UNCHANGED tables

Cancelled(row) == [row EXCEPT !.estado = "CANCELADO", !.isActive = FALSE]

CancelCommit(r) ==
    /\ At(r, "cancelCommit")
    /\ contracts' = [contracts EXCEPT ![req[r].id] = Cancelled(@)]
    /\ properties' = IF req[r].estado = "OCUPADA"
                       THEN [properties EXCEPT
                               ![req[r].propertyId] = [@ EXCEPT !.estado = "DISPONIBLE"]]
                       ELSE properties
    /\ Answer(r)
    /\ UNCHANGED tenants

-----------------------------------------------------------------------------
(***************************************************************************)
(* PATCH and DELETE /properties/:id, DELETE /tenants/:id: findOne, then a  *)
(* write by id.  Neither removal looks at the contracts.                   *)
(***************************************************************************)
PropertyRead(r, scope, id) ==
    /\ At(r, "idle")
    /\ FoundInScope(properties, id, scope)
    /\ \/ \E estado \in PropertyPatches :
            Resume(r, [pc |-> "propertyWrite", id |-> id, estado |-> estado])
       \/ Resume(r, [pc |-> "propertyRemove", id |-> id])
    /\ UNCHANGED tables

PropertyWrite(r) ==
    /\ At(r, "propertyWrite")
    /\ properties' = [properties EXCEPT ![req[r].id] = [@ EXCEPT !.estado = req[r].estado]]
    /\ Answer(r)
    /\ UNCHANGED <<tenants, contracts>>

PropertyRemove(r) ==
    /\ At(r, "propertyRemove")
    /\ properties' = [properties EXCEPT ![req[r].id] = [@ EXCEPT !.isActive = FALSE]]
    /\ Answer(r)
    /\ UNCHANGED <<tenants, contracts>>

TenantRead(r, scope, id) ==
    /\ At(r, "idle")
    /\ FoundInScope(tenants, id, scope)
    /\ Resume(r, [pc |-> "tenantRemove", id |-> id])
    /\ UNCHANGED tables

TenantRemove(r) ==
    /\ At(r, "tenantRemove")
    /\ tenants' = [tenants EXCEPT ![req[r].id] = [@ EXCEPT !.isActive = FALSE]]
    /\ Answer(r)
    /\ UNCHANGED <<properties, contracts>>

-----------------------------------------------------------------------------
(***************************************************************************)
(* A database call of r fails (lost connection, deadlock victim): the      *)
(* handler throws, its open transaction is rolled back.                    *)
(***************************************************************************)
Fail(r) ==
    /\ ~At(r, "idle")
    /\ Answer(r)
    /\ UNCHANGED tables

Insert ==
    \/ \E p \in Properties, u \in Users : CreateProperty(p, u)
    \/ \E t \in Tenants, u \in Users : CreateTenant(t, u)

\* A client's call: the handler runs up to its first wait.
Arrive(r) ==
    \/ \E u \in Users, dto \in CreateDtos : CreateStart(r, u, dto)
    \/ \E u \in Users, c \in Contracts, dto \in PatchDtos : PatchRead(r, u, c, dto)
    \/ \E u \in Users, c \in Contracts : CancelRead(r, u, c)
    \/ \E s \in Scopes, p \in Properties : PropertyRead(r, s, p)
    \/ \E s \in Scopes, t \in Tenants : TenantRead(r, s, t)

\* The database answers a call of r and its handler runs on.
Proceed(r) ==
    \/ CreateFindProperty(r) \/ CreateFindTenant(r)
    \/ CreateCount(r) \/ CreateCode(r)
    \/ CreateRejected(r) \/ CreateInsert(r)
    \/ PatchFindProperty(r) \/ PatchFindTenant(r) \/ PatchWrite(r)
    \/ CancelBegin(r) \/ CancelCommit(r)
    \/ PropertyWrite(r) \/ PropertyRemove(r) \/ TenantRemove(r)

Init ==
    /\ properties = [p \in Properties |-> Null]
    /\ tenants = [t \in Tenants |-> Null]
    /\ contracts = [c \in Contracts |-> Null]
    /\ req = [r \in Requests |-> Idle]

Next == Insert \/ \E r \in Requests : Arrive(r) \/ Proceed(r) \/ Fail(r)

Spec == Init /\ [][Next]_vars

(***************************************************************************)
(* The database answers every call (nothing forces it to fail one), and    *)
(* generateUniqueCode draws a free code sooner or later: there are 32^5 of *)
(* them a year.                                                            *)
(***************************************************************************)
Fairness == \A r \in Requests : WF_vars(Proceed(r))

LiveSpec == Spec /\ Fairness

(***************************************************************************)
(* The clients never send two overlapping POST /contracts for the same     *)
(* property (the code does not prevent it).                                *)
(***************************************************************************)
NoOverlappingCreates ==
    \A r1, r2 \in Requests :
        /\ r1 # r2
        /\ req[r1].pc \in CreateSteps
        /\ req[r2].pc \in CreateSteps
        => req[r1].dto.propertyId # req[r2].dto.propertyId

NoOverlapNext == Next /\ NoOverlappingCreates'

NoOverlapSpec == Init /\ [][NoOverlapNext]_vars

\* The clients never set PROXIMO_A_VENCER on a new contract, nor bring an
\* ended one back to ACTIVO or PROXIMO_A_VENCER: neither is checked.
EndingPatchesOnly ==
    /\ \A dto \in CreateDtos : dto.estado # "PROXIMO_A_VENCER"
    /\ \A dto \in PatchDtos : dto.estado \notin OccupyingStatus

-----------------------------------------------------------------------------
(***************************************************************************)
(* Properties.                                                             *)
(***************************************************************************)

\* Every table holds well-formed rows, every handler well-formed locals.
TypeOK ==
    /\ properties \in [Properties -> PropertyRow \cup {Null}]
    /\ tenants \in [Tenants -> TenantRow \cup {Null}]
    /\ contracts \in [Contracts -> ContractRow \cup {Null}]
    /\ req \in [Requests -> Request]

\* Accounts never mix: a contract, its property and its tenant belong to one
\* owner, however the lookups of POST /contracts and PATCH /contracts/:id
\* interleave with writes of other requests.
OwnersAgree ==
    \A c \in Contracts : Present(contracts, c) =>
        LET row == contracts[c]
        IN  /\ Present(properties, row.propertyId)
            /\ properties[row.propertyId].ownerId = row.ownerId
            /\ Present(tenants, row.tenantId)
            /\ tenants[row.tenantId].ownerId = row.ownerId

\* Payments, tickets and notifications refer to a contract and copy its
\* tenant and property: no handler ever moves a contract to another code,
\* owner, property or tenant, and a soft-deleted contract never comes back,
\* not even by a PATCH that read it before the DELETE.
ContractsKeepIdentity ==
    [][\A c \in Contracts : Present(contracts, c) =>
          LET old == contracts[c]
              new == contracts'[c]
          IN  /\ new # Null
              /\ new.codigoContrato = old.codigoContrato
              /\ new.ownerId = old.ownerId
              /\ new.propertyId = old.propertyId
              /\ new.tenantId = old.tenantId
              /\ new.isActive => old.isActive]_vars

\* A property has at most one active contract at a time, which is what the
\* 409 of POST /contracts is for.
AtMostOneActive ==
    \A p \in Properties : \A c, d \in Contracts :
        Occupies(c, p) /\ Occupies(d, p) => c = d

\* A cancelled contract never changes ("No se puede modificar un contrato
\* cancelado").  The code does not keep this: a PATCH that read the contract
\* before it was cancelled still writes its estado and dates.
CancelledIsFrozen ==
    [][\A c \in Contracts :
          Present(contracts, c) /\ contracts[c].estado = "CANCELADO"
              => contracts'[c] = contracts[c]]_vars

\* c is cancelled, and no PATCH or DELETE that read it earlier is still to write.
Settled(c) ==
    /\ Present(contracts, c)
    /\ contracts[c].estado = "CANCELADO"
    /\ \A r \in Requests : req[r].pc \in WritingSteps => req[r].id # c

\* What the code does keep: once the handlers that read a contract before it
\* was cancelled have ended, it is final, whatever else is in flight.
CancelledStaysSettled ==
    [][\A c \in Contracts : Settled(c) => Settled(c)' /\ contracts'[c] = contracts[c]]_vars

\* The contract a property is let under.
Holder(p) ==
    IF HasActiveContract(p) THEN CHOOSE c \in Contracts : Occupies(c, p) ELSE Null

Holders == [p \in Properties |-> Holder(p)]

Signed == {c \in Contracts : Present(contracts, c)}

Tenancy == INSTANCE Tenancies WITH Vacant <- Null, holder <- Holders, signed <- Signed

\* What the handlers do to the rows is, seen from the property, that it is let
\* to one contract at a time and that no contract lets it twice.
ImplementsTenancies == Tenancy!Spec

\* A tenancy that a PATCH or a DELETE has ended is never resumed, by no PATCH
\* that was in flight meanwhile: the payments and tickets of a contract that is
\* over belong to the past.
TenanciesStayOver == Tenancy!OverIsOver

\* No handler waits for ever: every request is answered.
EveryRequestAnswered == \A r \in Requests : ~At(r, "idle") ~> At(r, "idle")
=============================================================================
