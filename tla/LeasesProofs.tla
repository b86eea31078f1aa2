--------------------------- MODULE LeasesProofs ---------------------------
(***************************************************************************)
(* Proofs about Leases, for every set of users, rows, codes, requests and  *)
(* bodies.                                                                 *)
(*                                                                         *)
(* The inductive invariant joins the types of the tables with what a       *)
(* handler has learnt at its earlier awaits and still relies on: the rows  *)
(* it found are still there and still belong to the same owner, although   *)
(* they may have been soft-deleted since.                                  *)
(***************************************************************************)
EXTENDS Leases, TLAPS

Owned(table, id, owner) == Present(table, id) /\ table[id].ownerId = owner

\* What the handler with locals q relies on.
LocalOK(q) ==
    /\ q.pc \in CreateSteps =>
         /\ q.pc # "createFind" => q.pending = {}
         /\ "property" \notin q.pending => Owned(properties, q.dto.propertyId, q.ownerId)
         /\ "tenant" \notin q.pending => Owned(tenants, q.dto.tenantId, q.ownerId)
         /\ q.pc = "createInsert" => q.codigo \in Codes
    /\ q.pc \in {"patchFind", "patchWrite"} => Present(contracts, q.id)
    /\ q.pc \in {"cancelBegin", "cancelCommit"} =>
         Present(contracts, q.id) /\ Present(properties, q.propertyId)
    /\ q.pc \in {"propertyWrite", "propertyRemove"} => Present(properties, q.id)
    /\ q.pc = "tenantRemove" => Present(tenants, q.id)

LocalsOK == \A r \in Requests : LocalOK(req[r])

IInv == TypeOK /\ LocalsOK /\ OwnersAgree

TablesOK ==
    /\ properties \in [Properties -> PropertyRow \cup {Null}]
    /\ tenants \in [Tenants -> TenantRow \cup {Null}]
    /\ contracts \in [Contracts -> ContractRow \cup {Null}]

\* No step deletes a row or gives it to another owner.
KeepsOwners ==
    /\ \A p \in Properties : Present(properties, p) =>
         Owned(properties', p, properties[p].ownerId)
    /\ \A t \in Tenants : Present(tenants, t) =>
         Owned(tenants', t, tenants[t].ownerId)

KeepsIdentity(c) ==
    LET old == contracts[c]
        new == contracts'[c]
    IN  /\ new # Null
        /\ new.codigoContrato = old.codigoContrato
        /\ new.ownerId = old.ownerId
        /\ new.propertyId = old.propertyId
        /\ new.tenantId = old.tenantId
        /\ new.isActive => old.isActive

KeepsContracts == \A c \in Contracts : Present(contracts, c) => KeepsIdentity(c)

-----------------------------------------------------------------------------
(***************************************************************************)
(* What the locals are at each step of a handler.                          *)
(***************************************************************************)
LEMMA RequestShape ==
    ASSUME NEW q \in Request
    PROVE  /\ q.pc \in CreateSteps => q \in CreateRequest
           /\ q.pc \in {"patchFind", "patchWrite"} => q \in PatchRequest
           /\ q.pc \in {"cancelBegin", "cancelCommit"} => q \in CancelRequest
           /\ q.pc = "propertyWrite" => q \in PropertyPatchRequest
           /\ q.pc = "propertyRemove" => q \in PropertyRemoveRequest
           /\ q.pc = "tenantRemove" => q \in TenantRemoveRequest
  BY DEF Request, IdleRequest, CreateRequest, PatchRequest, CancelRequest, CreateSteps, PatchSteps,
         CancelSteps, PropertyPatchRequest, PropertyRemoveRequest, TenantRemoveRequest

LEMMA IdleOK == Idle \in Request /\ LocalOK(Idle)
  BY DEF Idle, Request, IdleRequest, LocalOK, CreateSteps

\* What a handler relies on survives every step that keeps the rows.
LEMMA LocalStays ==
    ASSUME NEW q \in Request, LocalOK(q), KeepsOwners, KeepsContracts
    PROVE  LocalOK(q)'
  <1>1. CASE q.pc \in CreateSteps
    <2>1. q \in CreateRequest BY <1>1, RequestShape
    <2>2. q.dto.propertyId \in Properties /\ q.dto.tenantId \in Tenants
      BY <2>1, DtosAssumption DEF CreateRequest, CreateDto
    <2>3. QED
      BY <1>1, <2>2 DEF LocalOK, KeepsOwners, Owned, Present, CreateSteps
  <1>2. CASE q.pc \in {"patchFind", "patchWrite"}
    <2>1. q.id \in Contracts BY <1>2, RequestShape DEF PatchRequest
    <2>2. QED BY <1>2, <2>1 DEF LocalOK, KeepsContracts, KeepsIdentity, Present, CreateSteps
  <1>3. CASE q.pc \in {"cancelBegin", "cancelCommit"}
    <2>1. q.id \in Contracts /\ q.propertyId \in Properties
      BY <1>3, RequestShape DEF CancelRequest
    <2>2. QED
      BY <1>3, <2>1
         DEF LocalOK, KeepsOwners, KeepsContracts, KeepsIdentity, Owned, Present, CreateSteps
  <1>4. CASE q.pc \in {"propertyWrite", "propertyRemove"}
    <2>1. q.id \in Properties
      BY <1>4, RequestShape DEF PropertyPatchRequest, PropertyRemoveRequest
    <2>2. QED BY <1>4, <2>1 DEF LocalOK, KeepsOwners, Owned, Present, CreateSteps
  <1>5. CASE q.pc = "tenantRemove"
    <2>1. q.id \in Tenants BY <1>5, RequestShape DEF TenantRemoveRequest
    <2>2. QED BY <1>5, <2>1 DEF LocalOK, KeepsOwners, Owned, Present, CreateSteps
  <1>6. CASE q.pc \notin CreateSteps \cup {"patchFind", "patchWrite", "cancelBegin",
                 "cancelCommit", "propertyWrite", "propertyRemove", "tenantRemove"}
    BY <1>6 DEF LocalOK
  <1>7. QED BY <1>1, <1>2, <1>3, <1>4, <1>5, <1>6

\* A step that only moves one handler.
LEMMA ReqStep ==
    ASSUME IInv, NEW r \in Requests, NEW q \in Request, LocalOK(q),
           req' = [req EXCEPT ![r] = q], UNCHANGED tables
    PROVE  IInv' /\ KeepsOwners /\ KeepsContracts
  <1>1. TypeOK' BY DEF IInv, TypeOK, tables
  <1>2. LocalsOK'
    BY DEF IInv, LocalsOK, LocalOK, tables, Owned, Present, TypeOK
  <1>3. OwnersAgree'
    BY DEF IInv, OwnersAgree, tables, Present
  <1>4. KeepsOwners /\ KeepsContracts
    BY DEF KeepsOwners, KeepsContracts, KeepsIdentity, tables, Owned, Present
  <1>5. QED BY <1>1, <1>2, <1>3, <1>4 DEF IInv

\* A step that keeps all rows and adds no contract.
LEMMA RowStep ==
    ASSUME IInv, TablesOK', KeepsOwners, KeepsContracts,
           \A c \in Contracts : Present(contracts', c) => Present(contracts, c),
           \/ UNCHANGED req
           \/ \E r \in Requests : Answer(r)
    PROVE  IInv'
  <1>1. TypeOK' BY IdleOK DEF IInv, TypeOK, TablesOK, Answer
  <1>2. LocalsOK'
    <2> SUFFICES ASSUME NEW s \in Requests PROVE LocalOK(req[s])'
      BY DEF LocalsOK
    <2>1. PICK q \in Request : q = req'[s] /\ LocalOK(q)
      BY IdleOK DEF IInv, TypeOK, LocalsOK, Answer
    <2>2. LocalOK(q)' BY <2>1, LocalStays
    <2>3. QED BY <2>1, <2>2 DEF LocalOK
  <1>3. OwnersAgree'
    <2> SUFFICES ASSUME NEW c \in Contracts, Present(contracts', c)
                 PROVE  LET row == contracts'[c]
                        IN  Owned(properties', row.propertyId, row.ownerId)
                              /\ Owned(tenants', row.tenantId, row.ownerId)
      BY DEF OwnersAgree, Owned, Present
    <2>1. Present(contracts, c) /\ contracts[c] \in ContractRow
      BY DEF IInv, TypeOK, Present
    <2>2. /\ contracts[c].propertyId \in Properties /\ contracts[c].tenantId \in Tenants
      BY <2>1 DEF ContractRow
    <2>3. QED
      BY <2>1, <2>2 DEF IInv, OwnersAgree, KeepsOwners, KeepsContracts, KeepsIdentity, Owned, Present
  <1>4. QED BY <1>1, <1>2, <1>3 DEF IInv

-----------------------------------------------------------------------------
(***************************************************************************)
(* The initial state, and one lemma per action.                            *)
(***************************************************************************)
LEMMA InitIInv == Init => IInv
  BY IdleOK DEF Init, IInv, TypeOK, LocalsOK, OwnersAgree, Present

Good == IInv' /\ KeepsOwners /\ KeepsContracts

LEMMA AnswerStep ==
    ASSUME IInv, NEW r \in Requests, Answer(r), UNCHANGED tables
    PROVE  Good
  BY IdleOK, ReqStep DEF Answer, Good

LEMMA CreatePropertyStep ==
    ASSUME IInv, NEW p \in Properties, NEW u \in Users, CreateProperty(p, u)
    PROVE  Good
  <1>1. TablesOK'
    BY DEF IInv, TypeOK, TablesOK, CreateProperty, PropertyRow, PropertyStatus
  <1>2. KeepsOwners /\ KeepsContracts
    BY DEF IInv, TypeOK, CreateProperty, KeepsOwners, KeepsContracts, KeepsIdentity, Owned, Present
  <1>3. QED BY <1>1, <1>2, RowStep DEF CreateProperty, Good

LEMMA CreateTenantStep ==
    ASSUME IInv, NEW t \in Tenants, NEW u \in Users, CreateTenant(t, u)
    PROVE  Good
  <1>1. TablesOK' BY DEF IInv, TypeOK, TablesOK, CreateTenant, TenantRow
  <1>2. KeepsOwners /\ KeepsContracts
    BY DEF IInv, TypeOK, CreateTenant, KeepsOwners, KeepsContracts, KeepsIdentity, Owned, Present
  <1>3. QED BY <1>1, <1>2, RowStep DEF CreateTenant, Good

LEMMA CreateStartStep ==
    ASSUME IInv, NEW r \in Requests, NEW u \in Users, NEW dto \in CreateDtos,
           CreateStart(r, u, dto)
    PROVE  Good
  <1> DEFINE q == [pc |-> "createFind", ownerId |-> u, dto |-> dto,
                   pending |-> Lookup, codigo |-> Undefined]
  <1>1. q \in Request BY DEF Request, CreateRequest, CreateSteps
  <1>2. LocalOK(q) BY DEF LocalOK, CreateSteps, Lookup
  <1>3. req' = [req EXCEPT ![r] = q] /\ UNCHANGED tables
    BY DEF CreateStart, Resume
  <1> HIDE DEF q
  <1>4. QED BY <1>1, <1>2, <1>3, ReqStep DEF Good

LEMMA CreateFindPropertyStep ==
    ASSUME IInv, NEW r \in Requests, CreateFindProperty(r)
    PROVE  Good
  <1> DEFINE w == [req[r] EXCEPT !.pending = @ \ {"property"}]
  <1>1. req[r] \in CreateRequest /\ LocalOK(req[r]) /\ req[r].pc = "createFind"
    BY RequestShape DEF IInv, TypeOK, LocalsOK, CreateFindProperty, At, CreateSteps
  <1>2. CASE FoundByOwner(properties, req[r].dto.propertyId, req[r].ownerId)
    <2>1. req' = [req EXCEPT ![r] = AfterFind(w)] /\ UNCHANGED tables
      BY <1>2 DEF CreateFindProperty, Resume
    <2>2. AfterFind(w) \in CreateRequest
      BY <1>1 DEF AfterFind, CreateRequest, CreateSteps
    <2>3. LocalOK(AfterFind(w))
      BY <1>1, <1>2 DEF AfterFind, LocalOK, CreateRequest, CreateSteps, FoundByOwner, Owned
    <2>4. QED BY <2>1, <2>2, <2>3, ReqStep DEF Request, Good
  <1>3. CASE ~FoundByOwner(properties, req[r].dto.propertyId, req[r].ownerId)
    BY <1>3, AnswerStep DEF CreateFindProperty
  <1>4. QED BY <1>2, <1>3

LEMMA CreateFindTenantStep ==
    ASSUME IInv, NEW r \in Requests, CreateFindTenant(r)
    PROVE  Good
  <1> DEFINE w == [req[r] EXCEPT !.pending = @ \ {"tenant"}]
  <1>1. req[r] \in CreateRequest /\ LocalOK(req[r]) /\ req[r].pc = "createFind"
    BY RequestShape DEF IInv, TypeOK, LocalsOK, CreateFindTenant, At, CreateSteps
  <1>2. CASE FoundByOwner(tenants, req[r].dto.tenantId, req[r].ownerId)
    <2>1. req' = [req EXCEPT ![r] = AfterFind(w)] /\ UNCHANGED tables
      BY <1>2 DEF CreateFindTenant, Resume
    <2>2. AfterFind(w) \in CreateRequest
      BY <1>1 DEF AfterFind, CreateRequest, CreateSteps
    <2>3. LocalOK(AfterFind(w))
      BY <1>1, <1>2 DEF AfterFind, LocalOK, CreateRequest, CreateSteps, FoundByOwner, Owned
    <2>4. QED BY <2>1, <2>2, <2>3, ReqStep DEF Request, Good
  <1>3. CASE ~FoundByOwner(tenants, req[r].dto.tenantId, req[r].ownerId)
    BY <1>3, AnswerStep DEF CreateFindTenant
  <1>4. QED BY <1>2, <1>3

LEMMA CreateCountStep ==
    ASSUME IInv, NEW r \in Requests, CreateCount(r)
    PROVE  Good
  <1> DEFINE w == [req[r] EXCEPT !.pc = "createCode"]
  <1>1. req[r] \in CreateRequest /\ LocalOK(req[r]) /\ req[r].pc = "createCount"
    BY RequestShape DEF IInv, TypeOK, LocalsOK, CreateCount, At, CreateSteps
  <1>2. w \in CreateRequest /\ LocalOK(w)
    BY <1>1 DEF LocalOK, CreateRequest, CreateSteps
  <1>3. CASE Answer(r) BY <1>3, AnswerStep DEF CreateCount
  <1>4. CASE Resume(r, w)
    BY <1>2, <1>4, ReqStep DEF CreateCount, Resume, Request, Good
  <1>5. QED BY <1>3, <1>4 DEF CreateCount

LEMMA CreateCodeStep ==
    ASSUME IInv, NEW r \in Requests, CreateCode(r)
    PROVE  Good
  <1>1. req[r] \in CreateRequest /\ LocalOK(req[r]) /\ req[r].pc = "createCode"
    BY RequestShape DEF IInv, TypeOK, LocalsOK, CreateCode, At, CreateSteps
  <1>2. PICK codigo \in Codes :
          Resume(r, [req[r] EXCEPT !.pc = "createInsert", !.codigo = codigo])
    BY DEF CreateCode
  <1> DEFINE w == [req[r] EXCEPT !.pc = "createInsert", !.codigo = codigo]
  <1>3. w \in CreateRequest /\ LocalOK(w)
    BY <1>1 DEF LocalOK, CreateRequest, CreateSteps
  <1>4. QED BY <1>2, <1>3, ReqStep DEF CreateCode, Resume, Request, Good

\* The insert writes the row of the property once more; its owner stays.
LEMMA CreateRejectedStep ==
    ASSUME IInv, NEW r \in Requests, CreateRejected(r)
    PROVE  Good
  BY AnswerStep DEF CreateRejected

LEMMA CreateInsertStep ==
    ASSUME IInv, NEW r \in Requests, CreateInsert(r)
    PROVE  Good
  <1> DEFINE q == req[r]
             new == NewContract(q)
  <1>1. /\ q \in CreateRequest /\ q.codigo \in Codes /\ q.pending = {}
        /\ Owned(properties, q.dto.propertyId, q.ownerId)
        /\ Owned(tenants, q.dto.tenantId, q.ownerId)
    BY RequestShape DEF IInv, TypeOK, LocalsOK, LocalOK, CreateInsert, At, CreateSteps
  <1>2. q.dto \in CreateDto /\ q.dto.propertyId \in Properties /\ q.dto.tenantId \in Tenants
    BY <1>1, DtosAssumption DEF CreateRequest, CreateDto
  <1>3. /\ new \in ContractRow
        /\ new.codigoContrato = q.codigo /\ new.ownerId = q.ownerId
        /\ new.propertyId = q.dto.propertyId /\ new.tenantId = q.dto.tenantId
    BY <1>1, <1>2 DEF NewContract, ContractRow, CreateRequest, CreateDto, ContractStatus
  <1>4. PICK c \in Contracts :
          ~Present(contracts, c) /\ contracts' = [contracts EXCEPT ![c] = new]
    BY DEF CreateInsert
  <1>5. properties[q.dto.propertyId] \in PropertyRow
    BY <1>1, <1>2 DEF IInv, TypeOK, Owned, Present
  <1> HIDE DEF new
  <1>6. TablesOK'
    <2>1. properties' \in [Properties -> PropertyRow \cup {Null}]
      BY <1>2, <1>5 DEF IInv, TypeOK, CreateInsert, PropertyRow, PropertyStatus
    <2>2. QED BY <2>1, <1>3, <1>4 DEF IInv, TypeOK, TablesOK, CreateInsert
  <1>7. KeepsOwners
    <2>1. ASSUME NEW p \in Properties, Present(properties, p)
          PROVE  Owned(properties', p, properties[p].ownerId)
      <3>1. properties[p] \in PropertyRow BY <2>1 DEF IInv, TypeOK, Present
      <3>2. CASE p = q.dto.propertyId /\ IsActivo(q.dto)
        <4>1. properties'[p] = [properties[p] EXCEPT !.estado = "OCUPADA"]
          BY <3>2, <1>2 DEF CreateInsert, IInv, TypeOK
        <4>2. properties'[p].ownerId = properties[p].ownerId
          BY <3>1, <4>1 DEF PropertyRow
        <4>3. properties'[p] # Null
          BY <3>1, <4>1, NullAssumption DEF PropertyRow, PropertyStatus
        <4>4. QED BY <4>2, <4>3 DEF Owned, Present
      <3>3. CASE ~(p = q.dto.propertyId /\ IsActivo(q.dto))
        BY <2>1, <3>3 DEF CreateInsert, IInv, TypeOK, Owned, Present
      <3>4. QED BY <3>2, <3>3
    <2>2. QED BY <2>1 DEF KeepsOwners, CreateInsert, Owned, Present
  <1>8. KeepsContracts
    BY <1>4 DEF KeepsContracts, KeepsIdentity, Present, IInv, TypeOK
  <1>9. LocalsOK'
    <2> SUFFICES ASSUME NEW s \in Requests PROVE LocalOK(req[s])'
      BY DEF LocalsOK
    <2>1. PICK w \in Request : w = req'[s] /\ LocalOK(w)
      BY IdleOK DEF IInv, TypeOK, LocalsOK, Answer, CreateInsert
    <2>2. LocalOK(w)' BY <2>1, <1>7, <1>8, LocalStays
    <2>3. QED BY <2>1, <2>2 DEF LocalOK
  <1>10. OwnersAgree'
    <2> SUFFICES ASSUME NEW d \in Contracts, Present(contracts', d)
                 PROVE  /\ Owned(properties', contracts'[d].propertyId, contracts'[d].ownerId)
                        /\ Owned(tenants', contracts'[d].tenantId, contracts'[d].ownerId)
      BY DEF OwnersAgree, Owned, Present
    <2>1. CASE d = c
      <3>1. contracts'[d] = new BY <2>1, <1>4 DEF IInv, TypeOK
      <3>2. QED BY <3>1, <1>1, <1>2, <1>3, <1>7 DEF KeepsOwners, Owned, Present
    <2>2. CASE d # c
      <3>1. contracts'[d] = contracts[d] BY <2>2, <1>4 DEF IInv, TypeOK
      <3>2. /\ Present(contracts, d) /\ contracts[d].propertyId \in Properties
            /\ contracts[d].tenantId \in Tenants
        BY <3>1 DEF IInv, TypeOK, ContractRow, Present
      <3>3. QED BY <3>1, <3>2, <1>7 DEF IInv, OwnersAgree, KeepsOwners, Owned, Present
    <2>3. QED BY <2>1, <2>2
  <1>11. TypeOK' BY <1>6, IdleOK DEF TablesOK, TypeOK, IInv, CreateInsert, Answer
  <1>13. QED BY <1>7, <1>8, <1>9, <1>10, <1>11 DEF IInv, Good

-----------------------------------------------------------------------------
LEMMA PatchReadStep ==
    ASSUME IInv, NEW r \in Requests, NEW u \in Users, NEW c \in Contracts,
           NEW dto \in PatchDtos, PatchRead(r, u, c, dto)
    PROVE  Good
  <1> DEFINE w == [pc |-> "patchFind", ownerId |-> u, id |-> c, dto |-> dto,
                   pending |-> ToFind(contracts[c], dto)]
  <1>1. AfterPatchFind(w) \in PatchRequest
    BY DEF AfterPatchFind, PatchRequest, PatchSteps, ToFind
  <1>2. LocalOK(AfterPatchFind(w))
    BY DEF AfterPatchFind, LocalOK, PatchRead, FoundByOwner, CreateSteps
  <1>3. req' = [req EXCEPT ![r] = AfterPatchFind(w)] /\ UNCHANGED tables
    BY DEF PatchRead, Resume
  <1> HIDE DEF w
  <1>4. QED BY <1>1, <1>2, <1>3, ReqStep DEF Request, Good

LEMMA PatchFindPropertyStep ==
    ASSUME IInv, NEW r \in Requests, PatchFindProperty(r)
    PROVE  Good
  <1> DEFINE w == [req[r] EXCEPT !.pending = @ \ {"property"}]
  <1>1. req[r] \in PatchRequest /\ LocalOK(req[r]) /\ req[r].pc = "patchFind"
    BY RequestShape DEF IInv, TypeOK, LocalsOK, PatchFindProperty, At
  <1>2. AfterPatchFind(w) \in PatchRequest BY <1>1 DEF AfterPatchFind, PatchRequest, PatchSteps
  <1>3. LocalOK(AfterPatchFind(w))
    BY <1>1 DEF AfterPatchFind, LocalOK, PatchRequest, CreateSteps
  <1>4. CASE Answer(r) BY <1>4, AnswerStep DEF PatchFindProperty
  <1>5. CASE Resume(r, AfterPatchFind(w))
    BY <1>2, <1>3, <1>5, ReqStep DEF PatchFindProperty, Resume, Request, Good
  <1>6. QED BY <1>4, <1>5 DEF PatchFindProperty

LEMMA PatchFindTenantStep ==
    ASSUME IInv, NEW r \in Requests, PatchFindTenant(r)
    PROVE  Good
  <1> DEFINE w == [req[r] EXCEPT !.pending = {}]
  <1>1. req[r] \in PatchRequest /\ LocalOK(req[r]) /\ req[r].pc = "patchFind"
    BY RequestShape DEF IInv, TypeOK, LocalsOK, PatchFindTenant, At
  <1>2. AfterPatchFind(w) \in PatchRequest BY <1>1 DEF AfterPatchFind, PatchRequest, PatchSteps
  <1>3. LocalOK(AfterPatchFind(w))
    BY <1>1 DEF AfterPatchFind, LocalOK, PatchRequest, CreateSteps
  <1>4. CASE Answer(r) BY <1>4, AnswerStep DEF PatchFindTenant
  <1>5. CASE Resume(r, AfterPatchFind(w))
    BY <1>2, <1>3, <1>5, ReqStep DEF PatchFindTenant, Resume, Request, Good
  <1>6. QED BY <1>4, <1>5 DEF PatchFindTenant

\* Whatever the body holds, a patched row keeps its type and its identity.
LEMMA PatchedRow ==
    ASSUME NEW row \in ContractRow, NEW dto \in PatchDtos
    PROVE  /\ Patched(row, dto) \in ContractRow
           /\ Patched(row, dto).codigoContrato = row.codigoContrato
           /\ Patched(row, dto).ownerId = row.ownerId
           /\ Patched(row, dto).propertyId = row.propertyId
           /\ Patched(row, dto).tenantId = row.tenantId
           /\ Patched(row, dto).isActive = row.isActive
  <1>1. dto \in PatchDto BY DtosAssumption
  <1>2. /\ Written(row.fechaInicio, dto.fechaInicio) \in Int
        /\ Written(row.fechaFin, dto.fechaFin) \in Int
    BY <1>1, MarkersAssumption DEF Written, PatchDto, ContractRow, Epoch
  <1>3. Written(row.estado, dto.estado) \in ContractStatus
    BY <1>1, MarkersAssumption DEF Written, PatchDto, ContractRow
  <1>4. QED BY <1>2, <1>3 DEF Patched, ContractRow

LEMMA PatchWriteStep ==
    ASSUME IInv, NEW r \in Requests, PatchWrite(r)
    PROVE  Good
  <1> DEFINE c == req[r].id
  <1>1. /\ c \in Contracts /\ req[r].dto \in PatchDtos
        /\ contracts[c] \in ContractRow
    BY RequestShape DEF IInv, TypeOK, LocalsOK, LocalOK, PatchWrite, At, PatchRequest, Present
  <1>2. contracts' = [contracts EXCEPT ![c] = Patched(contracts[c], req[r].dto)]
    BY <1>1 DEF PatchWrite, IInv, TypeOK
  <1> HIDE DEF c
  <1>3. TablesOK'
    <2>1. Patched(contracts[c], req[r].dto) \in ContractRow BY <1>1, PatchedRow
    <2>2. QED BY <1>1, <1>2, <2>1 DEF PatchWrite, TablesOK, IInv, TypeOK
  <1>4. KeepsOwners BY DEF PatchWrite, KeepsOwners, Owned, Present
  <1>5. KeepsContracts
    BY <1>1, <1>2, PatchedRow, NullAssumption DEF KeepsContracts, KeepsIdentity, IInv, TypeOK, Present
  <1>6. \A d \in Contracts : Present(contracts', d) => Present(contracts, d)
    BY <1>1, <1>2, NullAssumption DEF IInv, TypeOK, Present
  <1>7. QED BY <1>3, <1>4, <1>5, <1>6, RowStep DEF PatchWrite, Good

LEMMA CancelReadStep ==
    ASSUME IInv, NEW r \in Requests, NEW u \in Users, NEW c \in Contracts,
           CancelRead(r, u, c)
    PROVE  Good
  <1> DEFINE w == [pc |-> "cancelBegin", id |-> c,
                   propertyId |-> contracts[c].propertyId, estado |-> Undefined]
  <1>1. contracts[c] \in ContractRow
    BY DEF IInv, TypeOK, CancelRead, FoundByOwner, Present
  <1>2. Present(properties, contracts[c].propertyId)
    BY DEF IInv, OwnersAgree, CancelRead, FoundByOwner
  <1>3. w \in CancelRequest BY <1>1 DEF CancelRequest, CancelSteps, ContractRow
  <1>4. LocalOK(w) BY <1>2 DEF LocalOK, CancelRead, FoundByOwner, CreateSteps
  <1>5. req' = [req EXCEPT ![r] = w] /\ UNCHANGED tables BY DEF CancelRead, Resume
  <1> HIDE DEF w
  <1>6. QED BY <1>3, <1>4, <1>5, ReqStep DEF Request, Good

LEMMA CancelBeginStep ==
    ASSUME IInv, NEW r \in Requests, CancelBegin(r)
    PROVE  Good
  <1> DEFINE w == [req[r] EXCEPT !.pc = "cancelCommit",
                                 !.estado = properties[req[r].propertyId].estado]
  <1>1. req[r] \in CancelRequest /\ LocalOK(req[r]) /\ req[r].pc = "cancelBegin"
    BY RequestShape DEF IInv, TypeOK, LocalsOK, CancelBegin, At
  <1>2. properties[req[r].propertyId].estado \in PropertyStatus
    BY <1>1 DEF IInv, TypeOK, LocalOK, Present, PropertyRow, CancelRequest, CreateSteps
  <1>3. w \in CancelRequest BY <1>1, <1>2 DEF CancelRequest, CancelSteps
  <1>4. LocalOK(w) BY <1>1 DEF LocalOK, CancelRequest, CreateSteps
  <1>5. QED BY <1>3, <1>4, ReqStep DEF CancelBegin, Resume, Request, Good

\* Changing the estado or isActive of a property keeps the row's owner.
LEMMA PropertyUpdate ==
    ASSUME IInv, NEW p \in Properties, Present(properties, p),
           NEW row \in PropertyRow, row.ownerId = properties[p].ownerId,
           properties' = [properties EXCEPT ![p] = row]
    PROVE  /\ properties' \in [Properties -> PropertyRow \cup {Null}]
           /\ \A x \in Properties : Present(properties, x) =>
                Owned(properties', x, properties[x].ownerId)
  BY NullAssumption DEF IInv, TypeOK, Owned, Present

LEMMA CancelCommitStep ==
    ASSUME IInv, NEW r \in Requests, CancelCommit(r)
    PROVE  Good
  <1> DEFINE c == req[r].id
             p == req[r].propertyId
  <1>1. /\ c \in Contracts /\ p \in Properties
        /\ contracts[c] \in ContractRow /\ properties[p] \in PropertyRow
    BY RequestShape DEF IInv, TypeOK, LocalsOK, LocalOK, CancelCommit, At, CancelRequest, Present
  <1>2. contracts' = [contracts EXCEPT ![c] = Cancelled(contracts[c])]
    BY <1>1 DEF CancelCommit, IInv, TypeOK
  <1>3. /\ Cancelled(contracts[c]) \in ContractRow
        /\ Cancelled(contracts[c]).codigoContrato = contracts[c].codigoContrato
        /\ Cancelled(contracts[c]).ownerId = contracts[c].ownerId
        /\ Cancelled(contracts[c]).propertyId = contracts[c].propertyId
        /\ Cancelled(contracts[c]).tenantId = contracts[c].tenantId
        /\ ~Cancelled(contracts[c]).isActive
    BY <1>1 DEF Cancelled, ContractRow, ContractStatus
  <1>4. /\ properties' \in [Properties -> PropertyRow \cup {Null}]
        /\ \A x \in Properties : Present(properties, x) =>
             Owned(properties', x, properties[x].ownerId)
    <2> DEFINE row == [properties[p] EXCEPT !.estado = "DISPONIBLE"]
    <2>1. row \in PropertyRow /\ row.ownerId = properties[p].ownerId
      BY <1>1 DEF PropertyRow, PropertyStatus
    <2>2. Present(properties, p) BY <1>1, NullAssumption DEF Present
    <2>3. CASE properties' = [properties EXCEPT ![p] = row]
      BY <1>1, <2>1, <2>2, <2>3, PropertyUpdate
    <2>4. CASE properties' = properties
      BY <2>4 DEF IInv, TypeOK, Owned, Present
    <2>5. QED BY <2>3, <2>4 DEF CancelCommit
  <1> HIDE DEF c, p
  <1>5. TablesOK' BY <1>1, <1>2, <1>3, <1>4 DEF CancelCommit, TablesOK, IInv, TypeOK
  <1>6. KeepsOwners BY <1>4 DEF CancelCommit, KeepsOwners, Owned, Present
  <1>7. KeepsContracts
    BY <1>1, <1>2, <1>3, NullAssumption DEF KeepsContracts, KeepsIdentity, IInv, TypeOK, Present
  <1>8. \A d \in Contracts : Present(contracts', d) => Present(contracts, d)
    BY <1>1, <1>2, NullAssumption DEF IInv, TypeOK, Present
  <1>9. QED BY <1>5, <1>6, <1>7, <1>8, RowStep DEF CancelCommit, Good

-----------------------------------------------------------------------------
LEMMA PropertyReadStep ==
    ASSUME IInv, NEW r \in Requests, NEW s \in Scopes, NEW p \in Properties,
           PropertyRead(r, s, p)
    PROVE  Good
  <1>1. Present(properties, p) BY DEF PropertyRead, FoundInScope, FoundByOwner
  <1>2. CASE Resume(r, [pc |-> "propertyRemove", id |-> p])
    <2> DEFINE w == [pc |-> "propertyRemove", id |-> p]
    <2>1. w \in PropertyRemoveRequest BY DEF PropertyRemoveRequest
    <2>2. LocalOK(w) BY <1>1 DEF LocalOK, CreateSteps
    <2>3. QED BY <1>2, <2>1, <2>2, ReqStep DEF PropertyRead, Resume, Request, Good
  <1>3. ASSUME NEW e \in PropertyPatches,
               Resume(r, [pc |-> "propertyWrite", id |-> p, estado |-> e])
        PROVE  Good
    <2> DEFINE w == [pc |-> "propertyWrite", id |-> p, estado |-> e]
    <2>1. w \in PropertyPatchRequest BY DEF PropertyPatchRequest
    <2>2. LocalOK(w) BY <1>1 DEF LocalOK, CreateSteps
    <2>3. QED BY <1>3, <2>1, <2>2, ReqStep DEF PropertyRead, Resume, Request, Good
  <1>4. QED BY <1>2, <1>3 DEF PropertyRead

LEMMA PropertyWriteStep ==
    ASSUME IInv, NEW r \in Requests, PropertyWrite(r) \/ PropertyRemove(r)
    PROVE  Good
  <1> DEFINE p == req[r].id
  <1>1. p \in Properties /\ Present(properties, p) /\ properties[p] \in PropertyRow
    BY RequestShape
       DEF IInv, TypeOK, LocalsOK, LocalOK, PropertyWrite, PropertyRemove, At, CreateSteps,
           PropertyPatchRequest, PropertyRemoveRequest, Present
  <1>2. PICK row \in PropertyRow :
          /\ row.ownerId = properties[p].ownerId
          /\ properties' = [properties EXCEPT ![p] = row]
    <2>1. CASE PropertyWrite(r)
      <3>1. req[r].estado \in PropertyStatus
        BY <2>1, RequestShape, DtosAssumption DEF PropertyWrite, At, IInv, TypeOK, PropertyPatchRequest
      <3>2. /\ [properties[p] EXCEPT !.estado = req[r].estado] \in PropertyRow
            /\ [properties[p] EXCEPT !.estado = req[r].estado].ownerId = properties[p].ownerId
        BY <1>1, <3>1 DEF PropertyRow
      <3>3. QED BY <2>1, <1>1, <3>2 DEF PropertyWrite
    <2>2. CASE PropertyRemove(r)
      <3>1. /\ [properties[p] EXCEPT !.isActive = FALSE] \in PropertyRow
            /\ [properties[p] EXCEPT !.isActive = FALSE].ownerId = properties[p].ownerId
        BY <1>1 DEF PropertyRow
      <3>2. QED BY <2>2, <1>1, <3>1 DEF PropertyRemove
    <2>3. QED BY <2>1, <2>2
  <1>3. /\ properties' \in [Properties -> PropertyRow \cup {Null}]
        /\ \A x \in Properties : Present(properties, x) =>
             Owned(properties', x, properties[x].ownerId)
    BY <1>1, <1>2, PropertyUpdate
  <1>4. UNCHANGED <<tenants, contracts>> /\ Answer(r) BY DEF PropertyWrite, PropertyRemove
  <1>5. TablesOK' /\ KeepsOwners
    BY <1>3, <1>4 DEF TablesOK, KeepsOwners, IInv, TypeOK, Owned, Present
  <1>6. KeepsContracts BY <1>4 DEF KeepsContracts, KeepsIdentity, Present
  <1>7. QED BY <1>4, <1>5, <1>6, RowStep DEF Good, Present

LEMMA TenantReadStep ==
    ASSUME IInv, NEW r \in Requests, NEW s \in Scopes, NEW t \in Tenants,
           TenantRead(r, s, t)
    PROVE  Good
  <1> DEFINE w == [pc |-> "tenantRemove", id |-> t]
  <1>1. Present(tenants, t) BY DEF TenantRead, FoundInScope, FoundByOwner
  <1>2. w \in TenantRemoveRequest BY DEF TenantRemoveRequest
  <1>3. LocalOK(w) BY <1>1 DEF LocalOK, CreateSteps
  <1>4. QED BY <1>2, <1>3, ReqStep DEF TenantRead, Resume, Request, Good

LEMMA TenantRemoveStep ==
    ASSUME IInv, NEW r \in Requests, TenantRemove(r)
    PROVE  Good
  <1> DEFINE t == req[r].id
  <1>1. t \in Tenants /\ tenants[t] \in TenantRow
    BY RequestShape
       DEF IInv, TypeOK, LocalsOK, LocalOK, TenantRemove, At, TenantRemoveRequest, Present
  <1>2. /\ [tenants[t] EXCEPT !.isActive = FALSE] \in TenantRow
        /\ [tenants[t] EXCEPT !.isActive = FALSE].ownerId = tenants[t].ownerId
    BY <1>1 DEF TenantRow
  <1>3. TablesOK' /\ KeepsOwners
    BY <1>1, <1>2, NullAssumption
       DEF TenantRemove, TablesOK, KeepsOwners, IInv, TypeOK, Owned, Present
  <1>4. KeepsContracts BY DEF TenantRemove, KeepsContracts, KeepsIdentity, Present
  <1>5. QED BY <1>3, <1>4, RowStep DEF TenantRemove, Good, Present

-----------------------------------------------------------------------------
(***************************************************************************)
(* The invariant is inductive.                                             *)
(***************************************************************************)
LEMMA NextStep == IInv /\ [Next]_vars => IInv' /\ (KeepsContracts \/ UNCHANGED vars)
  <1> SUFFICES ASSUME IInv, [Next]_vars
               PROVE  IInv' /\ (KeepsContracts \/ UNCHANGED vars)
    OBVIOUS
  <1>1. CASE Insert
    BY <1>1, CreatePropertyStep, CreateTenantStep DEF Insert, Good
  <1>2. ASSUME NEW r \in Requests, Arrive(r) PROVE Good
    BY <1>2, CreateStartStep, PatchReadStep, CancelReadStep, PropertyReadStep, TenantReadStep
       DEF Arrive
  <1>3. ASSUME NEW r \in Requests, Proceed(r) PROVE Good
    BY <1>3, CreateFindPropertyStep, CreateFindTenantStep, CreateCountStep, CreateCodeStep,
       CreateRejectedStep, CreateInsertStep, PatchFindPropertyStep, PatchFindTenantStep, PatchWriteStep,
       CancelBeginStep, CancelCommitStep, PropertyWriteStep, TenantRemoveStep
       DEF Proceed
  <1>4. ASSUME NEW r \in Requests, Fail(r) PROVE Good
    BY <1>4, AnswerStep DEF Fail
  <1>5. CASE UNCHANGED vars
    BY <1>5 DEF vars, IInv, TypeOK, LocalsOK, LocalOK, OwnersAgree, Present, Owned
  <1>6. QED BY <1>1, <1>2, <1>3, <1>4, <1>5 DEF Next, Good

LEMMA Inductive == Spec => []IInv
  <1>1. Init => IInv BY InitIInv
  <1>2. IInv /\ [Next]_vars => IInv' BY NextStep
  <1>3. QED BY <1>1, <1>2, PTL DEF Spec

\* Tables and handlers stay well-formed: in particular no write of a handler
\* (ContractRepository.update, cancel, PropertyRepository.update, ...) ever
\* hits an id without a row.
THEOREM TypeCorrect == Spec => []TypeOK
  BY Inductive, PTL DEF IInv

\* A contract, its property and its tenant belong to one account, for any
\* number of accounts and of interleaved requests.
THEOREM AccountsSeparated == Spec => []OwnersAgree
  BY Inductive, PTL DEF IInv

\* No handler moves a contract or brings a deleted one back.
THEOREM IdentityKept == Spec => ContractsKeepIdentity
  <1> DEFINE Kept == \A c \in Contracts : Present(contracts, c) =>
          LET old == contracts[c]
              new == contracts'[c]
          IN  /\ new # Null
              /\ new.codigoContrato = old.codigoContrato
              /\ new.ownerId = old.ownerId
              /\ new.propertyId = old.propertyId
              /\ new.tenantId = old.tenantId
              /\ new.isActive => old.isActive
  <1>1. IInv /\ [Next]_vars => [Kept]_vars
    BY NextStep DEF KeepsContracts, KeepsIdentity
  <1>2. QED BY <1>1, Inductive, PTL DEF Spec, ContractsKeepIdentity

\* A step of one handler leaves the locals of the others alone.
LEMMA OthersStay ==
    ASSUME IInv, NEW r \in Requests, NEW s \in Requests, r # s,
           Arrive(r) \/ Proceed(r) \/ Fail(r)
    PROVE  req'[s] = req[s]
  BY DEF Arrive, CreateStart, PatchRead, CancelRead, PropertyRead, TenantRead, Resume, Answer,
         Proceed, CreateFindProperty, CreateFindTenant, CreateCount, CreateCode, CreateRejected,
         CreateInsert, PatchFindProperty, PatchFindTenant, PatchWrite, CancelBegin, CancelCommit,
         PropertyWrite, PropertyRemove, TenantRemove, Fail, IInv, TypeOK

\* New properties and tenants concern no contract and no handler.
LEMMA InsertKeeps == Insert => contracts' = contracts /\ req' = req
  BY DEF Insert, CreateProperty, CreateTenant

-----------------------------------------------------------------------------
(***************************************************************************)
(* What a handler that is not answered yet has done in its step: nothing   *)
(* to the tables, and one of the following to its locals.                  *)
(***************************************************************************)
Checked == {"createCode", "createInsert"}

CreateMove(r) ==
    /\ req'[r] \in CreateRequest
    /\ \/ /\ req'[r].pc = "createFind"
          /\ req'[r].dto.fechaInicio < req'[r].dto.fechaFin
       \/ /\ req[r] \in CreateRequest
          /\ req'[r].dto = req[r].dto
          /\ req'[r].pc \in Checked /\ IsActivo(req[r].dto) =>
               req[r].pc \in Checked \/ ~HasActiveContract(req[r].dto.propertyId)

PatchMove(r) ==
    /\ req'[r] \in PatchRequest
    /\ \/ LET row == contracts[req'[r].id]
          IN  row # Null /\ row.estado # "CANCELADO" /\ DatesAccepted(row, req'[r].dto)
       \/ /\ req[r] \in PatchRequest
          /\ req'[r].id = req[r].id /\ req'[r].dto = req[r].dto

CancelMove(r) ==
    /\ req'[r] \in CancelRequest
    /\ \/ LET row == contracts[req'[r].id]
          IN  /\ row # Null /\ row.isActive /\ row.estado # "CANCELADO"
              /\ req'[r].pc = "cancelBegin" /\ req'[r].propertyId = row.propertyId
       \/ /\ req[r] \in CancelRequest
          /\ req'[r].id = req[r].id /\ req'[r].propertyId = req[r].propertyId
          /\ req'[r].estado = properties[req[r].propertyId].estado

OtherMove(r) ==
    req'[r] \in PropertyPatchRequest \cup PropertyRemoveRequest \cup TenantRemoveRequest

Moves(r) == CreateMove(r) \/ PatchMove(r) \/ CancelMove(r) \/ OtherMove(r)

LEMMA ArriveMoves ==
    ASSUME IInv, NEW r \in Requests, Arrive(r)
    PROVE  Moves(r) /\ UNCHANGED tables
  <1>1. ASSUME NEW u \in Users, NEW dto \in CreateDtos, CreateStart(r, u, dto)
        PROVE  CreateMove(r) /\ UNCHANGED tables
    <2> DEFINE w == [pc |-> "createFind", ownerId |-> u, dto |-> dto,
                     pending |-> Lookup, codigo |-> Undefined]
    <2>1. w \in CreateRequest /\ w.pc = "createFind" /\ w.dto = dto
      BY DEF CreateRequest, CreateSteps
    <2>2. req'[r] = w BY <1>1 DEF CreateStart, Resume, IInv, TypeOK
    <2> HIDE DEF w
    <2>3. dto.fechaInicio \in Int /\ dto.fechaFin \in Int BY DtosAssumption DEF CreateDto
    <2>4. dto.fechaInicio < dto.fechaFin BY <1>1, <2>3 DEF CreateStart
    <2>5. QED BY <1>1, <2>1, <2>2, <2>4 DEF CreateStart, CreateMove
  <1>2. ASSUME NEW u \in Users, NEW c \in Contracts, NEW dto \in PatchDtos, PatchRead(r, u, c, dto)
        PROVE  PatchMove(r) /\ UNCHANGED tables
    <2> DEFINE w == [pc |-> "patchFind", ownerId |-> u, id |-> c, dto |-> dto,
                     pending |-> ToFind(contracts[c], dto)]
    <2>1. w \in PatchRequest /\ w.id = c /\ w.dto = dto
      BY DEF PatchRequest, PatchSteps, ToFind
    <2>2. req'[r] = AfterPatchFind(w) BY <1>2 DEF PatchRead, Resume, IInv, TypeOK
    <2> HIDE DEF w
    <2>3. req'[r] \in PatchRequest /\ req'[r].id = c /\ req'[r].dto = dto
      BY <2>1, <2>2 DEF AfterPatchFind, PatchRequest, PatchSteps
    <2>4. QED BY <1>2, <2>3 DEF PatchRead, FoundByOwner, Present, PatchMove
  <1>3. ASSUME NEW u \in Users, NEW c \in Contracts, CancelRead(r, u, c)
        PROVE  CancelMove(r) /\ UNCHANGED tables
    <2> DEFINE w == [pc |-> "cancelBegin", id |-> c,
                     propertyId |-> contracts[c].propertyId, estado |-> Undefined]
    <2>1. contracts[c] \in ContractRow
      BY <1>3 DEF CancelRead, FoundByOwner, Present, IInv, TypeOK
    <2>2. w \in CancelRequest BY <2>1 DEF CancelRequest, CancelSteps, ContractRow
    <2>3. req'[r] = w BY <1>3 DEF CancelRead, Resume, IInv, TypeOK
    <2>4. QED BY <1>3, <2>2, <2>3 DEF CancelRead, FoundByOwner, Present, CancelMove
  <1>4. ASSUME NEW scope \in Scopes, NEW p \in Properties, PropertyRead(r, scope, p)
        PROVE  OtherMove(r) /\ UNCHANGED tables
    BY <1>4 DEF PropertyRead, Resume, OtherMove, PropertyPatchRequest, PropertyRemoveRequest,
                IInv, TypeOK
  <1>5. ASSUME NEW scope \in Scopes, NEW t \in Tenants, TenantRead(r, scope, t)
        PROVE  OtherMove(r) /\ UNCHANGED tables
    BY <1>5 DEF TenantRead, Resume, OtherMove, TenantRemoveRequest, IInv, TypeOK
  <1>6. QED BY <1>1, <1>2, <1>3, <1>4, <1>5 DEF Arrive, Moves

LEMMA CreateMoves ==
    ASSUME IInv, NEW r \in Requests, ~Answer(r),
           CreateFindProperty(r) \/ CreateFindTenant(r) \/ CreateCount(r) \/ CreateCode(r)
    PROVE  CreateMove(r)
  <1>1. req[r] \in CreateRequest
    BY RequestShape
       DEF IInv, TypeOK, CreateFindProperty, CreateFindTenant, CreateCount, CreateCode, At,
           CreateSteps
  <1>2. r \in DOMAIN req BY DEF IInv, TypeOK
  <1>3. ASSUME NEW k \in Lookup, Resume(r, AfterFind([req[r] EXCEPT !.pending = @ \ {k}])),
               req[r].pc = "createFind"
        PROVE  CreateMove(r)
    <2> DEFINE w == [req[r] EXCEPT !.pending = @ \ {k}]
    <2>1. w \in CreateRequest /\ w.dto = req[r].dto /\ w.pc = "createFind"
      BY <1>1, <1>3 DEF CreateRequest
    <2>2. req'[r] = AfterFind(w) BY <1>2, <1>3 DEF Resume
    <2> HIDE DEF w
    <2>3. /\ AfterFind(w) \in CreateRequest /\ AfterFind(w).dto = w.dto
          /\ AfterFind(w).pc \in Checked => ~IsActivo(w.dto)
      BY <2>1 DEF AfterFind, CreateRequest, CreateSteps, Checked
    <2>4. QED BY <1>1, <2>1, <2>2, <2>3 DEF CreateMove
  <1>4. CASE CreateFindProperty(r) \/ CreateFindTenant(r)
    BY <1>3, <1>4 DEF CreateFindProperty, CreateFindTenant, Lookup, At
  <1>5. CASE CreateCount(r)
    <2> DEFINE w == [req[r] EXCEPT !.pc = "createCode"]
    <2>1. w \in CreateRequest /\ w.dto = req[r].dto BY <1>1 DEF CreateRequest, CreateSteps
    <2>2. req'[r] = w BY <1>2, <1>5 DEF CreateCount, Resume
    <2>3. ~HasActiveContract(req[r].dto.propertyId) BY <1>5 DEF CreateCount
    <2> HIDE DEF w
    <2>4. QED BY <1>1, <2>1, <2>2, <2>3 DEF CreateMove
  <1>6. CASE CreateCode(r)
    <2>1. PICK codigo \in Codes :
            Resume(r, [req[r] EXCEPT !.pc = "createInsert", !.codigo = codigo])
      BY <1>6 DEF CreateCode
    <2> DEFINE w == [req[r] EXCEPT !.pc = "createInsert", !.codigo = codigo]
    <2>2. w \in CreateRequest /\ w.dto = req[r].dto BY <1>1 DEF CreateRequest, CreateSteps
    <2>3. req'[r] = w BY <1>2, <2>1 DEF Resume
    <2>4. req[r].pc \in Checked BY <1>6 DEF CreateCode, At, Checked
    <2> HIDE DEF w
    <2>5. QED BY <1>1, <2>2, <2>3, <2>4 DEF CreateMove
  <1>7. QED BY <1>4, <1>5, <1>6

LEMMA ProceedMoves ==
    ASSUME IInv, NEW r \in Requests, Proceed(r), ~Answer(r)
    PROVE  Moves(r) /\ UNCHANGED tables
  <1>1. CASE CreateFindProperty(r) \/ CreateFindTenant(r) \/ CreateCount(r) \/ CreateCode(r)
    BY <1>1, CreateMoves
       DEF CreateFindProperty, CreateFindTenant, CreateCount, CreateCode, Moves
  <1>2. CASE PatchFindProperty(r) \/ PatchFindTenant(r)
    <2>1. req[r] \in PatchRequest
      BY <1>2, RequestShape DEF IInv, TypeOK, PatchFindProperty, PatchFindTenant, At
    <2>2. PICK w \in PatchRequest :
            w.id = req[r].id /\ w.dto = req[r].dto /\ req'[r] = AfterPatchFind(w)
      BY <1>2, <2>1
         DEF PatchFindProperty, PatchFindTenant, Resume, IInv, TypeOK, PatchRequest, At
    <2>3. /\ AfterPatchFind(w) \in PatchRequest
          /\ AfterPatchFind(w).id = w.id /\ AfterPatchFind(w).dto = w.dto
      BY DEF AfterPatchFind, PatchRequest, PatchSteps
    <2>4. PatchMove(r) BY <2>1, <2>2, <2>3 DEF PatchMove
    <2>5. QED BY <1>2, <2>4 DEF PatchFindProperty, PatchFindTenant, Moves
  <1>3. CASE CancelBegin(r)
    <2>1. req[r] \in CancelRequest BY <1>3, RequestShape DEF IInv, TypeOK, CancelBegin, At
    <2>2. properties[req[r].propertyId] \in PropertyRow
      BY <1>3, <2>1
         DEF IInv, TypeOK, LocalsOK, LocalOK, CancelBegin, At, CancelRequest, Present
    <2> DEFINE w == [req[r] EXCEPT !.pc = "cancelCommit",
                                   !.estado = properties[req[r].propertyId].estado]
    <2>3. /\ w \in CancelRequest /\ w.id = req[r].id /\ w.propertyId = req[r].propertyId
          /\ w.estado = properties[req[r].propertyId].estado
      BY <2>1, <2>2 DEF CancelRequest, CancelSteps, PropertyRow
    <2>4. req'[r] = w BY <1>3 DEF CancelBegin, Resume, IInv, TypeOK
    <2> HIDE DEF w
    <2>5. CancelMove(r) BY <2>1, <2>3, <2>4 DEF CancelMove
    <2>6. QED BY <1>3, <2>5 DEF CancelBegin, Moves
  <1>4. QED
    BY <1>1, <1>2, <1>3
       DEF Proceed, CreateRejected, CreateInsert, PatchWrite, CancelCommit, PropertyWrite,
           PropertyRemove, TenantRemove

LEMMA AnswerIsIdle ==
    ASSUME IInv, NEW r \in Requests, Answer(r)
    PROVE  req' = [req EXCEPT ![r] = Idle] /\ req'[r] = Idle
  BY DEF Answer, IInv, TypeOK

\* Whoever takes the step: the others keep their locals, the handler that takes
\* it is answered or moves on without writing.
LEMMA WhoMoves ==
    ASSUME IInv, Next
    PROVE  \/ Insert /\ req' = req
           \/ \E r \in Requests :
                /\ \A s \in Requests : s # r => req'[s] = req[s]
                /\ req'[r] = Idle \/ (Moves(r) /\ UNCHANGED tables)
  <1>1. CASE Insert BY <1>1, InsertKeeps
  <1>2. ASSUME NEW r \in Requests, Arrive(r) \/ Proceed(r) \/ Fail(r)
        PROVE  req'[r] = Idle \/ (Moves(r) /\ UNCHANGED tables)
    <2>1. CASE Answer(r) BY <2>1, AnswerIsIdle
    <2>2. CASE ~Answer(r) BY <1>2, <2>2, ArriveMoves, ProceedMoves DEF Fail
    <2>3. QED BY <2>1, <2>2
  <1>3. QED BY <1>1, <1>2, OthersStay DEF Next

\* Who writes contracts: PATCH and DELETE at the id they have read, and POST.
LEMMA WhoWrites ==
    ASSUME Next
    PROVE  \/ UNCHANGED contracts
           \/ \E r \in Requests : PatchWrite(r) \/ CancelCommit(r) \/ CreateInsert(r)
  BY DEF Next, Insert, CreateProperty, CreateTenant, Fail, tables, Arrive, CreateStart, PatchRead,
         CancelRead, PropertyRead, TenantRead, Proceed, CreateFindProperty, CreateFindTenant,
         CreateCount, CreateCode, CreateRejected, PatchFindProperty, PatchFindTenant, CancelBegin,
         PropertyWrite, PropertyRemove, TenantRemove

-----------------------------------------------------------------------------
(***************************************************************************)
(* Cancelled contracts.                                                    *)
(***************************************************************************)
\* Once no handler is about to write a cancelled contract, none will be.
LEMMA SettledStep ==
    ASSUME IInv, Next, NEW c \in Contracts, Settled(c)
    PROVE  Settled(c)' /\ contracts'[c] = contracts[c]
  <1>1. contracts'[c] = contracts[c]
    <2>1. ASSUME NEW r \in Requests, PatchWrite(r) \/ CancelCommit(r)
          PROVE  contracts'[c] = contracts[c]
      <3>1. req[r].id # c
        BY <2>1 DEF Settled, PatchWrite, CancelCommit, At, WritingSteps, PatchSteps, CancelSteps
      <3>2. QED BY <2>1, <3>1 DEF PatchWrite, CancelCommit, IInv, TypeOK
    <2>2. ASSUME NEW r \in Requests, CreateInsert(r)
          PROVE  contracts'[c] = contracts[c]
      BY <2>2 DEF CreateInsert, Present, Settled, IInv, TypeOK
    <2>3. QED BY <2>1, <2>2, WhoWrites
  <1>2. ASSUME NEW r \in Requests, Moves(r), req'[r].pc \in WritingSteps PROVE req'[r].id # c
    <2> USE DEF WritingSteps, PatchSteps, CancelSteps
    <2>1. CASE CreateMove(r) BY <1>2, <2>1 DEF CreateMove, CreateRequest, CreateSteps
    <2>2. CASE PatchMove(r) BY <2>2 DEF PatchMove, Settled, PatchRequest
    <2>3. CASE CancelMove(r) BY <2>3 DEF CancelMove, Settled, CancelRequest
    <2>4. CASE OtherMove(r)
      BY <1>2, <2>4 DEF OtherMove, PropertyPatchRequest, PropertyRemoveRequest, TenantRemoveRequest
    <2>5. QED BY <1>2, <2>1, <2>2, <2>3, <2>4 DEF Moves
  <1>3. ASSUME NEW s \in Requests, req'[s].pc \in WritingSteps PROVE req'[s].id # c
    <2>1. CASE req'[s] = req[s] BY <1>3, <2>1 DEF Settled
    <2>2. CASE req'[s] = Idle
      BY <1>3, <2>2 DEF Idle, WritingSteps, PatchSteps, CancelSteps
    <2>3. QED BY <1>2, <1>3, <2>1, <2>2, WhoMoves
  <1>4. QED BY <1>1, <1>3 DEF Settled, Present

\* A cancelled contract is final once the PATCHes and DELETEs that read it
\* before the cancellation have ended, with any number of requests in flight:
\* later ones are turned away at the read, and their own write is to no other id.
THEOREM CancelledContractsStay == Spec => CancelledStaysSettled
  <1> DEFINE Final == \A c \in Contracts : Settled(c) => Settled(c)' /\ contracts'[c] = contracts[c]
  <1>1. IInv /\ [Next]_vars => [Final]_vars BY SettledStep
  <1>2. QED BY <1>1, Inductive, PTL DEF Spec, CancelledStaysSettled

-----------------------------------------------------------------------------
(***************************************************************************)
(* At most one active contract per property, and the refinement of         *)
(* Tenancies, under the two assumptions on the clients that Leases states  *)
(* (NoOverlapSpec, EndingPatchesOnly).  The check of POST /contracts stays *)
(* true until the insert because creations do not overlap.                 *)
(***************************************************************************)
CheckedFree ==
    \A r \in Requests :
        req[r].pc \in Checked /\ IsActivo(req[r].dto)
            => ~HasActiveContract(req[r].dto.propertyId)

OneInv == AtMostOneActive /\ NoOverlappingCreates /\ CheckedFree

\* A handler gets past the check only if it found no active contract.
LEMMA CheckStep ==
    ASSUME IInv, CheckedFree, Next, NEW s \in Requests,
           req'[s].pc \in Checked, IsActivo(req'[s].dto)
    PROVE  ~HasActiveContract(req'[s].dto.propertyId)
  <1>1. CASE req'[s] = req[s] BY <1>1 DEF CheckedFree
  <1>2. CASE req'[s] = Idle BY <1>2 DEF Idle, Checked
  <1>3. CASE Moves(s)
    <2>1. CreateMove(s)
      BY <1>3 DEF Moves, PatchMove, CancelMove, OtherMove, PatchRequest, CancelRequest, PatchSteps,
                  CancelSteps, PropertyPatchRequest, PropertyRemoveRequest, TenantRemoveRequest,
                  Checked
    <2>2. QED BY <2>1 DEF CreateMove, CheckedFree, Checked
  <1>4. QED BY <1>1, <1>2, <1>3, WhoMoves

\* Only an insert makes a contract active on a property.
LEMMA OccupantStep ==
    ASSUME IInv, EndingPatchesOnly, Next, NEW c \in Contracts, NEW p \in Properties,
           Occupies(c, p)', ~Occupies(c, p)
    PROVE  \E r \in Requests :
             /\ CreateInsert(r)
             /\ IsActivo(req[r].dto)
             /\ req[r].dto.propertyId = p
             /\ ~Present(contracts, c)
             /\ \A d \in Contracts : d # c => contracts'[d] = contracts[d]
  <1>1. CASE UNCHANGED contracts BY <1>1 DEF Occupies, Present
  <1>2. ASSUME NEW r \in Requests, PatchWrite(r) PROVE FALSE
    <2>1. /\ req[r].id \in Contracts /\ req[r].dto \in PatchDtos
          /\ contracts[req[r].id] \in ContractRow
      BY <1>2, RequestShape
         DEF IInv, TypeOK, LocalsOK, LocalOK, PatchWrite, At, PatchRequest, Present
    <2>2. contracts'[c] = IF c = req[r].id THEN Patched(contracts[c], req[r].dto) ELSE contracts[c]
      BY <1>2, <2>1 DEF PatchWrite, IInv, TypeOK
    <2>3. CASE c = req[r].id
      <3>1. /\ Patched(contracts[c], req[r].dto).propertyId = contracts[c].propertyId
            /\ Patched(contracts[c], req[r].dto).isActive = contracts[c].isActive
        BY <2>1, <2>3, PatchedRow
      <3>2. \/ Patched(contracts[c], req[r].dto).estado = contracts[c].estado
            \/ Patched(contracts[c], req[r].dto).estado \notin OccupyingStatus
        <4>1. Patched(contracts[c], req[r].dto).estado
                = Written(contracts[c].estado, req[r].dto.estado)
          BY <2>1, <2>3 DEF Patched, ContractRow
        <4>2. req[r].dto.estado \notin OccupyingStatus
                /\ req[r].dto.estado \in ContractStatus \cup {Undefined}
          BY <2>1, DtosAssumption DEF EndingPatchesOnly, PatchDto
        <4>3. QED BY <4>1, <4>2, MarkersAssumption DEF Written
      <3>3. Present(contracts, c) BY <2>1, <2>3, NullAssumption DEF Present
      <3>4. QED BY <2>2, <2>3, <3>1, <3>2, <3>3 DEF Occupies
    <2>4. QED BY <2>2, <2>3 DEF Occupies, Present
  <1>3. ASSUME NEW r \in Requests, CancelCommit(r) PROVE FALSE
    <2>1. /\ req[r].id \in Contracts /\ contracts[req[r].id] \in ContractRow
      BY <1>3, RequestShape
         DEF IInv, TypeOK, LocalsOK, LocalOK, CancelCommit, At, CancelRequest, Present
    <2>2. contracts'[c] = IF c = req[r].id THEN Cancelled(contracts[c]) ELSE contracts[c]
      BY <1>3, <2>1 DEF CancelCommit, IInv, TypeOK
    <2>3. ~Cancelled(contracts[req[r].id]).isActive BY <2>1 DEF Cancelled, ContractRow
    <2>4. QED BY <2>2, <2>3 DEF Occupies, Present
  <1>4. ASSUME NEW r \in Requests, CreateInsert(r)
        PROVE  /\ IsActivo(req[r].dto)
               /\ req[r].dto.propertyId = p
               /\ ~Present(contracts, c)
               /\ \A d \in Contracts : d # c => contracts'[d] = contracts[d]
    <2>1. PICK e \in Contracts :
            /\ ~Present(contracts, e)
            /\ contracts' = [contracts EXCEPT ![e] = NewContract(req[r])]
      BY <1>4 DEF CreateInsert
    <2>2. c = e /\ contracts'[c] = NewContract(req[r])
      BY <2>1 DEF Occupies, Present, IInv, TypeOK
    <2>3. req[r].dto \in CreateDtos
      BY <1>4, RequestShape DEF IInv, TypeOK, CreateInsert, At, CreateSteps, CreateRequest
    <2>4. QED
      BY <2>1, <2>2, <2>3, DtosAssumption
         DEF Occupies, NewContract, OccupyingStatus, IsActivo, EndingPatchesOnly, IInv, TypeOK
  <1>5. QED
    BY <1>1, <1>2, <1>3, <1>4
       DEF Next, Insert, CreateProperty, CreateTenant, Fail, tables, Arrive, CreateStart, PatchRead,
           CancelRead, PropertyRead, TenantRead, Proceed, CreateFindProperty, CreateFindTenant,
           CreateCount, CreateCode, CreateRejected,
           PatchFindProperty, PatchFindTenant, CancelBegin,
           PropertyWrite, PropertyRemove, TenantRemove

LEMMA OneStep ==
    ASSUME IInv, EndingPatchesOnly, OneInv, NoOverlapNext
    PROVE  OneInv'
  <1>1. Next BY DEF NoOverlapNext
  <1>2. IInv' BY <1>1, NextStep
  <1>3. AtMostOneActive'
    <2> SUFFICES ASSUME NEW p \in Properties, NEW c \in Contracts, NEW d \in Contracts,
                        Occupies(c, p)', Occupies(d, p)', c # d
                 PROVE  FALSE
      BY DEF AtMostOneActive
    <2>1. ASSUME NEW e \in Contracts, NEW f \in Contracts, e # f,
                 ~Occupies(e, p), Occupies(e, p)', Occupies(f, p)'
          PROVE  FALSE
      <3>1. PICK r \in Requests :
              /\ CreateInsert(r)
              /\ IsActivo(req[r].dto)
              /\ req[r].dto.propertyId = p
              /\ \A g \in Contracts : g # e => contracts'[g] = contracts[g]
        BY <1>1, <2>1, OccupantStep
      <3>2. Occupies(f, p) BY <2>1, <3>1 DEF Occupies, Present
      <3>3. ~HasActiveContract(p)
        BY <3>1 DEF OneInv, CheckedFree, Checked, CreateInsert, At
      <3>4. QED BY <3>2, <3>3 DEF HasActiveContract
    <2>2. QED BY <2>1 DEF OneInv, AtMostOneActive
  <1>4. NoOverlappingCreates' BY DEF NoOverlapNext
  <1>5. CheckedFree'
    <2>0. ASSUME NEW s \in Requests, req'[s].pc \in Checked
          PROVE  req'[s].dto.propertyId \in Properties
      <3>1. PICK q \in Request : q = req'[s] BY <1>2 DEF IInv, TypeOK
      <3>2. q \in CreateRequest BY <2>0, <3>1, RequestShape DEF Checked, CreateSteps
      <3>3. QED BY <3>1, <3>2, DtosAssumption DEF CreateRequest, CreateDto
    <2>1. SUFFICES ASSUME NEW s \in Requests, req'[s].pc \in Checked, IsActivo(req'[s].dto),
                          NEW p \in Properties, p = req'[s].dto.propertyId,
                          NEW c \in Contracts, Occupies(c, p)'
                   PROVE  FALSE
      BY <2>0 DEF CheckedFree, HasActiveContract, IsActivo, Occupies, Present
    <2>2. ~Occupies(c, p)
      BY <1>1, <2>1, CheckStep DEF OneInv, HasActiveContract
    <2>3. PICK r \in Requests : CreateInsert(r) /\ req[r].dto.propertyId = p
      BY <1>1, <2>1, <2>2, OccupantStep
    <2>4. req'[r] = Idle BY <2>3 DEF CreateInsert, Answer, IInv, TypeOK
    <2>5. r # s BY <2>1, <2>4 DEF Checked, Idle
    <2>6. req'[s] = req[s] BY <2>3, <2>5 DEF CreateInsert, Answer, IInv, TypeOK
    <2>7. QED
      BY <2>1, <2>3, <2>5, <2>6
         DEF OneInv, NoOverlappingCreates, CreateInsert, At, Checked, CreateSteps
  <1>6. QED BY <1>3, <1>4, <1>5 DEF OneInv

LEMMA UnderNoOverlap ==
    ASSUME EndingPatchesOnly
    PROVE  /\ Init => IInv /\ OneInv
           /\ IInv /\ OneInv /\ [NoOverlapNext]_vars => IInv' /\ OneInv'
  <1>1. Init => IInv /\ OneInv
    BY InitIInv
       DEF Init, OneInv, AtMostOneActive, NoOverlappingCreates, CheckedFree, Checked, Occupies,
           Present, Idle, CreateSteps
  <1>2. IInv /\ OneInv /\ [NoOverlapNext]_vars => IInv' /\ OneInv'
    <2> SUFFICES ASSUME IInv, OneInv, [NoOverlapNext]_vars PROVE IInv' /\ OneInv'
      OBVIOUS
    <2>1. IInv' BY NextStep DEF NoOverlapNext
    <2>2. CASE NoOverlapNext BY <2>1, <2>2, OneStep
    <2>3. CASE UNCHANGED vars
      BY <2>1, <2>3 DEF vars, OneInv, AtMostOneActive, NoOverlappingCreates, CheckedFree,
                        HasActiveContract, Occupies, Present
    <2>4. QED BY <2>1, <2>2, <2>3
  <1>3. QED BY <1>1, <1>2

\* A property never has two active contracts, if no two creations for it
\* overlap and no body brings an ended contract back or starts one as
\* PROXIMO_A_VENCER: the check of POST /contracts is then enough, whatever
\* else runs in between.
THEOREM OneActive ==
    ASSUME EndingPatchesOnly
    PROVE  NoOverlapSpec => []AtMostOneActive
  <1>1. IInv /\ OneInv => AtMostOneActive BY DEF OneInv
  <1>2. QED BY <1>1, UnderNoOverlap, PTL DEF NoOverlapSpec

-----------------------------------------------------------------------------
(***************************************************************************)
(* Refinement: seen from the properties, the handlers implement Tenancies. *)
(***************************************************************************)
LEMMA HolderIs ==
    ASSUME AtMostOneActive, NEW p \in Properties, NEW c \in Contracts, Occupies(c, p)
    PROVE  Holder(p) = c
  BY DEF AtMostOneActive, Holder, HasActiveContract

LEMMA HolderIsNext ==
    ASSUME AtMostOneActive', NEW p \in Properties, NEW c \in Contracts, Occupies(c, p)'
    PROVE  Holder(p)' = c
  BY DEF AtMostOneActive, Holder, HasActiveContract

LEMMA HolderKept ==
    ASSUME AtMostOneActive, AtMostOneActive', NEW p \in Properties,
           \A c \in Contracts : Occupies(c, p)' <=> Occupies(c, p)
    PROVE  Holder(p)' = Holder(p)
  <1>1. CASE HasActiveContract(p)
    <2>1. PICK c \in Contracts : Occupies(c, p) BY <1>1 DEF HasActiveContract
    <2>2. QED BY <2>1, HolderIs, HolderIsNext
  <1>2. CASE ~HasActiveContract(p)
    <2>1. ~HasActiveContract(p)' BY <1>2, Zenon DEF HasActiveContract
    <2>2. QED BY <1>2, <2>1 DEF Holder
  <1>3. QED BY <1>1, <1>2

\* A step changes one contract at most, and only an insert adds one.
LEMMA ContractStep ==
    ASSUME IInv, Next
    PROVE  \/ UNCHANGED contracts
           \/ \E c \in Contracts :
                /\ \A d \in Contracts : d # c => contracts'[d] = contracts[d]
                /\ Present(contracts', c)
                /\ Present(contracts, c) => contracts'[c].propertyId = contracts[c].propertyId
  <1>1. ASSUME NEW r \in Requests, PatchWrite(r) \/ CancelCommit(r)
        PROVE  /\ req[r].id \in Contracts
               /\ Present(contracts, req[r].id)
               /\ \A d \in Contracts : d # req[r].id => contracts'[d] = contracts[d]
    BY <1>1, RequestShape
       DEF IInv, TypeOK, LocalsOK, LocalOK, PatchWrite, CancelCommit, At, PatchRequest,
           CancelRequest
  <1>2. KeepsContracts \/ UNCHANGED vars BY NextStep
  <1>3. ASSUME NEW r \in Requests, CreateInsert(r)
        PROVE  \E c \in Contracts :
                 /\ \A d \in Contracts : d # c => contracts'[d] = contracts[d]
                 /\ Present(contracts', c) /\ ~Present(contracts, c)
    <2>1. PICK c \in Contracts :
            /\ ~Present(contracts, c)
            /\ contracts' = [contracts EXCEPT ![c] = NewContract(req[r])]
      BY <1>3 DEF CreateInsert
    <2>2. NewContract(req[r]) # Null
      <3>1. req[r] \in CreateRequest /\ req[r].codigo \in Codes
        BY <1>3, RequestShape
           DEF IInv, TypeOK, LocalsOK, LocalOK, CreateInsert, At, CreateSteps
      <3>2. NewContract(req[r]) \in ContractRow
        BY <3>1, DtosAssumption
           DEF NewContract, ContractRow, CreateRequest, CreateDto, ContractStatus
      <3>3. QED BY <3>2, NullAssumption
    <2>3. QED BY <2>1, <2>2 DEF Present, IInv, TypeOK
  <1>4. CASE UNCHANGED contracts BY <1>4
  <1>5. ASSUME NEW r \in Requests, PatchWrite(r) \/ CancelCommit(r), ~UNCHANGED contracts
        PROVE  \E c \in Contracts :
                 /\ \A d \in Contracts : d # c => contracts'[d] = contracts[d]
                 /\ Present(contracts', c)
                 /\ contracts'[c].propertyId = contracts[c].propertyId
    BY <1>1, <1>2, <1>5 DEF KeepsContracts, KeepsIdentity, Present, vars
  <1>6. CASE \E r \in Requests : PatchWrite(r) \/ CancelCommit(r) BY <1>4, <1>5, <1>6
  <1>7. CASE \E r \in Requests : CreateInsert(r) BY <1>3, <1>7
  <1>8. QED
    BY <1>4, <1>6, <1>7
       DEF Next, Insert, CreateProperty, CreateTenant, Fail, tables, Arrive, CreateStart, PatchRead,
           CancelRead, PropertyRead, TenantRead, Proceed, CreateFindProperty, CreateFindTenant,
           CreateCount, CreateCode, CreateRejected,
           PatchFindProperty, PatchFindTenant, CancelBegin,
           PropertyWrite, PropertyRemove, TenantRemove

LEMMA TenancyStep ==
    ASSUME IInv, OneInv, EndingPatchesOnly, NoOverlapNext
    PROVE  Tenancy!Next \/ UNCHANGED <<Holders, Signed>>
  <1>1. /\ Next /\ OneInv' /\ AtMostOneActive /\ AtMostOneActive'
    BY OneStep DEF NoOverlapNext, OneInv
  <1>2. CASE UNCHANGED contracts
    <2>1. \A p \in Properties, c \in Contracts : Occupies(c, p)' <=> Occupies(c, p)
      BY <1>2 DEF Occupies, Present
    <2>2. QED BY <1>1, <1>2, <2>1, HolderKept DEF Holders, Signed, Present
  <1>3. ASSUME NEW c \in Contracts,
               \A d \in Contracts : d # c => contracts'[d] = contracts[d],
               Present(contracts', c),
               Present(contracts, c) => contracts'[c].propertyId = contracts[c].propertyId
        PROVE  Tenancy!Next \/ UNCHANGED <<Holders, Signed>>
    <2>1. Signed' = Signed \cup {c} BY <1>3 DEF Signed, Present
    <2>2. \A d \in Contracts, p \in Properties : d # c => (Occupies(d, p)' <=> Occupies(d, p))
      BY <1>3 DEF Occupies, Present
    <2>3. ASSUME NEW p \in Properties, Occupies(c, p)' <=> Occupies(c, p)
          PROVE  Holder(p)' = Holder(p)
      BY <1>1, <2>2, <2>3, HolderKept
    <2>4. CASE \E p \in Properties : Occupies(c, p)' /\ ~Occupies(c, p)
      <3>1. PICK p \in Properties : Occupies(c, p)' /\ ~Occupies(c, p) BY <2>4
      <3>2. PICK r \in Requests :
              CreateInsert(r) /\ IsActivo(req[r].dto) /\ req[r].dto.propertyId = p
                /\ ~Present(contracts, c)
        BY <1>1, <3>1, OccupantStep
      <3>3. ~HasActiveContract(p)
        BY <3>2 DEF OneInv, CheckedFree, Checked, CreateInsert, At
      <3>4. Holder(p) = Null BY <3>3 DEF Holder
      <3>5. Holder(p)' = c BY <1>1, <3>1, HolderIsNext
      <3>6. ASSUME NEW q \in Properties, q # p PROVE Holder(q)' = Holder(q)
        <4>1. ~Occupies(c, q)' /\ ~Occupies(c, q)
          BY <3>1, <3>2, <3>6 DEF Occupies
        <4>2. QED BY <2>3, <4>1
      <3>7. Tenancy!Let(p, c)
        BY <2>1, <3>2, <3>4, <3>5, <3>6 DEF Tenancy!Let, Holders, Signed
      <3>8. QED BY <3>7 DEF Tenancy!Next
    <2>5. CASE \E p \in Properties : Occupies(c, p) /\ ~Occupies(c, p)'
      <3>1. PICK p \in Properties : Occupies(c, p) /\ ~Occupies(c, p)' BY <2>5
      <3>2. Present(contracts, c) BY <3>1 DEF Occupies
      <3>3. Signed' = Signed BY <2>1, <3>2 DEF Signed
      <3>4. Holder(p) = c BY <1>1, <3>1, HolderIs
      <3>5. ~HasActiveContract(p)'
        BY <1>1, <2>2, <3>1 DEF HasActiveContract, AtMostOneActive
      <3>6. Holder(p)' = Null BY <3>5 DEF Holder
      <3>7. ASSUME NEW q \in Properties, q # p PROVE Holder(q)' = Holder(q)
        <4>1. ~Occupies(c, q)' /\ ~Occupies(c, q)
          BY <1>3, <3>1, <3>2, <3>7 DEF Occupies
        <4>2. QED BY <2>3, <4>1
      <3>8. Tenancy!End(p)
        BY <3>3, <3>4, <3>6, <3>7, NullAssumption DEF Tenancy!End, Holders
      <3>9. QED BY <3>8 DEF Tenancy!Next
    <2>6. CASE \A p \in Properties : Occupies(c, p)' <=> Occupies(c, p)
      <3>1. Holders' = Holders BY <2>3, <2>6 DEF Holders
      <3>2. CASE Present(contracts, c) BY <2>1, <3>1, <3>2 DEF Signed
      <3>3. CASE ~Present(contracts, c)
        BY <2>1, <3>1, <3>3 DEF Signed, Tenancy!Record, Tenancy!Next
      <3>4. QED BY <3>2, <3>3
    <2>7. QED BY <2>4, <2>5, <2>6
  <1>4. QED BY <1>1, <1>2, <1>3, ContractStep

LEMMA OnlyTenancySteps ==
    ASSUME IInv, OneInv, EndingPatchesOnly, [NoOverlapNext]_vars
    PROVE  [Tenancy!Next]_(Tenancy!vars)
  <1>1. CASE NoOverlapNext BY <1>1, TenancyStep DEF Tenancy!vars
  <1>2. CASE UNCHANGED vars
    <2>1. \A p \in Properties, c \in Contracts : Occupies(c, p)' <=> Occupies(c, p)
      BY <1>2 DEF Occupies, Present, vars
    <2>2. AtMostOneActive /\ AtMostOneActive' BY <2>1 DEF OneInv, AtMostOneActive
    <2>3. QED BY <1>2, <2>1, <2>2, HolderKept DEF Holders, Signed, Present, vars, Tenancy!vars
  <1>3. QED BY <1>1, <1>2

\* Under the same assumptions on the clients, the rows and handlers implement
\* the abstract tenancies: what happens to a property is a sequence of
\* lettings, each under a contract of its own and over before the next.
THEOREM TenanciesImplemented ==
    ASSUME EndingPatchesOnly
    PROVE  NoOverlapSpec => ImplementsTenancies
  <1>1. Init => IInv /\ OneInv BY UnderNoOverlap
  <1>2. IInv /\ OneInv /\ [NoOverlapNext]_vars => IInv' /\ OneInv' BY UnderNoOverlap
  <1>3. Init => Tenancy!Init
    BY DEF Init, Tenancy!Init, Holders, Holder, HasActiveContract, Occupies, Signed, Present
  <1>4. IInv /\ OneInv /\ [NoOverlapNext]_vars => [Tenancy!Next]_(Tenancy!vars)
    BY OnlyTenancySteps
  <1>5. QED BY <1>1, <1>2, <1>3, <1>4, PTL DEF NoOverlapSpec, ImplementsTenancies, Tenancy!Spec

\* What is over on the side of the rows stays over: no later write of any
\* handler makes an ended contract occupy its property again.
THEOREM NoTenancyResumes ==
    ASSUME EndingPatchesOnly
    PROVE  NoOverlapSpec => TenanciesStayOver
  <1> DEFINE Stays == \A c \in Contracts : Tenancy!Over(c) => Tenancy!Over(c)'
  <1>1. Init => IInv /\ OneInv BY UnderNoOverlap
  <1>2. IInv /\ OneInv /\ [NoOverlapNext]_vars => IInv' /\ OneInv' BY UnderNoOverlap
  <1>3. IInv /\ OneInv /\ [NoOverlapNext]_vars => [Stays]_(Tenancy!vars)
    <2> SUFFICES ASSUME IInv, OneInv, [NoOverlapNext]_vars, ~UNCHANGED (Tenancy!vars)
                 PROVE  Stays
      OBVIOUS
    <2>1. Tenancy!Next BY OnlyTenancySteps
    <2>2. Null \notin Contracts BY NullAssumption
    <2>3. QED BY <2>1, <2>2, Zenon
          DEF Tenancy!Next, Tenancy!Let, Tenancy!Record, Tenancy!End, Tenancy!Over, Holders
  <1>4. QED BY <1>1, <1>2, <1>3, PTL DEF NoOverlapSpec, TenanciesStayOver, Tenancy!OverIsOver
=============================================================================
