--------------------------- MODULE PaymentsProofs ---------------------------
(***************************************************************************)
(* Proofs about Payments composed with Leases, for every set of users,     *)
(* rows, periods, requests and bodies.                                     *)
(*                                                                         *)
(* The payment handlers rely on what the contract handlers guarantee: a    *)
(* contract keeps owner, tenant and property (KeepsContracts).             *)
(***************************************************************************)
EXTENDS Payments, LeasesProofs

\* The contract c has these owner, tenant and property.
Agrees(c, owner, tenant, property) ==
    /\ Present(contracts, c)
    /\ contracts[c].ownerId = owner
    /\ contracts[c].tenantId = tenant
    /\ contracts[c].propertyId = property

\* What the payment handler with locals q relies on.
PayLocalOK(q) ==
    /\ q.pc \in {"exists", "insert"} =>
         /\ q.tenantId \in Tenants /\ q.propertyId \in Properties
         /\ Agrees(q.dto.contractId, q.ownerId, q.tenantId, q.propertyId)
    /\ q.pc \in {"write", "softDelete"} => Present(payments, q.id)

PayLocalsOK == \A r \in PayRequests : PayLocalOK(pay[r])

PayIInv == PayTypeOK /\ PayLocalsOK /\ CopiesAgree

PayStep == \E r \in PayRequests : PayArrive(r) \/ PayProceed(r) \/ PayFail(r)

-----------------------------------------------------------------------------
LEMMA PayRequestShape ==
    ASSUME NEW q \in PayRequest
    PROVE  /\ q.pc \in {"findContract", "exists", "insert"} => q \in PayCreateRequest
           /\ q.pc = "write" => q \in PayPatchRequest
           /\ q.pc = "softDelete" => q \in PayRemoveRequest
  BY DEF PayRequest, IdleRequest, PayCreateRequest, PayPatchRequest, PayRemoveRequest

LEMMA PayIdleOK == Idle \in PayRequest /\ PayLocalOK(Idle)
  BY DEF Idle, PayRequest, IdleRequest, PayLocalOK

\* A step of a contract handler leaves what payments rely on.
LEMMA LeaseStepKeeps ==
    ASSUME PayIInv, KeepsContracts, UNCHANGED payVars
    PROVE  PayIInv'
  <1>1. PayTypeOK' BY DEF PayIInv, PayTypeOK, payVars
  <1>2. PayLocalsOK'
    <2> SUFFICES ASSUME NEW r \in PayRequests PROVE PayLocalOK(pay[r])'
      BY DEF PayLocalsOK
    <2>1. pay[r] \in PayRequest /\ PayLocalOK(pay[r]) /\ pay'[r] = pay[r] /\ payments' = payments
      BY DEF PayIInv, PayTypeOK, PayLocalsOK, payVars
    <2>2. CASE pay[r].pc \in {"exists", "insert"}
      <3>1. pay[r].dto.contractId \in Contracts
        BY <2>1, <2>2, PayRequestShape, PaymentDtosAssumption
           DEF PayCreateRequest, CreatePaymentDto
      <3>2. QED
        BY <2>1, <2>2, <3>1 DEF PayLocalOK, Agrees, KeepsContracts, KeepsIdentity, Present
    <2>3. CASE pay[r].pc \notin {"exists", "insert"}
      BY <2>1, <2>3 DEF PayLocalOK, Present
    <2>4. QED BY <2>2, <2>3
  <1>4. CopiesAgree'
    <2> SUFFICES ASSUME NEW p \in Payments, Present(payments, p)
                 PROVE  /\ Present(contracts', payments[p].contractId)
                        /\ contracts'[payments[p].contractId].ownerId = payments[p].ownerId
                        /\ contracts'[payments[p].contractId].tenantId = payments[p].tenantId
                        /\ contracts'[payments[p].contractId].propertyId = payments[p].propertyId
      BY DEF CopiesAgree, payVars, Present
    <2>1. payments[p].contractId \in Contracts
      BY DEF PayIInv, PayTypeOK, Present, PaymentRow
    <2>2. QED
      BY <2>1 DEF PayIInv, CopiesAgree, KeepsContracts, KeepsIdentity, Present
  <1>5. QED BY <1>1, <1>2, <1>4 DEF PayIInv

\* A step that only moves one payment handler.
LEMMA PayReqStep ==
    ASSUME PayIInv, NEW r \in PayRequests, NEW q \in PayRequest, PayLocalOK(q),
           pay' = [pay EXCEPT ![r] = q], UNCHANGED <<payments, contracts>>
    PROVE  PayIInv'
  <1>1. PayTypeOK' BY DEF PayIInv, PayTypeOK
  <1>2. PayLocalsOK' BY DEF PayIInv, PayLocalsOK, PayLocalOK, Agrees, Present, PayTypeOK
  <1>3. CopiesAgree' BY DEF PayIInv, CopiesAgree, Present
  <1>4. QED BY <1>1, <1>2, <1>3 DEF PayIInv

\* A step that rewrites one row, keeping what identifies it, and answers.
LEMMA PayRowStep ==
    ASSUME PayIInv, NEW r \in PayRequests, PayAnswer(r), NEW p \in Payments,
           Present(payments, p), NEW row \in PaymentRow,
           row.contractId = payments[p].contractId, row.ownerId = payments[p].ownerId,
           row.tenantId = payments[p].tenantId, row.propertyId = payments[p].propertyId,
           row.periodo = payments[p].periodo,
           payments' = [payments EXCEPT ![p] = row], UNCHANGED contracts
    PROVE  PayIInv'
  <1>1. PayTypeOK' BY PayIdleOK DEF PayIInv, PayTypeOK, PayAnswer
  <1>2. \A q \in Payments : Present(payments', q) <=> Present(payments, q)
    BY PaymentNullAssumption DEF PayIInv, PayTypeOK, Present
  <1>3. PayLocalsOK'
    <2> SUFFICES ASSUME NEW s \in PayRequests PROVE PayLocalOK(pay[s])'
      BY DEF PayLocalsOK
    <2>1. PICK q \in PayRequest : q = pay'[s] /\ PayLocalOK(q)
      BY PayIdleOK DEF PayIInv, PayTypeOK, PayLocalsOK, PayAnswer
    <2>2. q.pc \in {"write", "softDelete"} => q.id \in Payments
      BY PayRequestShape DEF PayPatchRequest, PayRemoveRequest
    <2>3. PayLocalOK(q)' BY <1>2, <2>1, <2>2 DEF PayLocalOK, Agrees, Present
    <2>4. QED BY <2>1, <2>3 DEF PayLocalOK
  <1>5. CopiesAgree'
    <2>1. \A q \in Payments :
            /\ payments'[q].contractId = payments[q].contractId
            /\ payments'[q].ownerId = payments[q].ownerId
            /\ payments'[q].tenantId = payments[q].tenantId
            /\ payments'[q].propertyId = payments[q].propertyId
      BY DEF PayIInv, PayTypeOK
    <2>2. QED BY <1>2, <2>1 DEF PayIInv, CopiesAgree, Present
  <1>6. QED BY <1>1, <1>3, <1>5 DEF PayIInv

-----------------------------------------------------------------------------
(***************************************************************************)
(* One lemma per action.                                                   *)
(***************************************************************************)
LEMMA PayAnswerStep ==
    ASSUME PayIInv, NEW r \in PayRequests, PayAnswer(r), UNCHANGED <<payments, contracts>>
    PROVE  PayIInv'
  BY PayIdleOK, PayReqStep DEF PayAnswer

LEMMA PayCreateStartStep ==
    ASSUME PayIInv, NEW r \in PayRequests, NEW u \in Users, NEW dto \in CreatePaymentDtos,
           PayCreateStart(r, u, dto), UNCHANGED contracts
    PROVE  PayIInv'
  <1> DEFINE q == [pc |-> "findContract", ownerId |-> u, dto |-> dto,
                   tenantId |-> Undefined, propertyId |-> Undefined]
  <1>1. q \in PayRequest /\ PayLocalOK(q) BY DEF PayRequest, PayCreateRequest, PayLocalOK
  <1>2. pay' = [pay EXCEPT ![r] = q] /\ UNCHANGED payments BY DEF PayCreateStart, PayResume
  <1> HIDE DEF q
  <1>3. QED BY <1>1, <1>2, PayReqStep

LEMMA PayFindContractStep ==
    ASSUME IInv, PayIInv, NEW r \in PayRequests, PayFindContract(r), UNCHANGED contracts
    PROVE  PayIInv'
  <1> DEFINE c == pay[r].dto.contractId
             q == [pay[r] EXCEPT !.pc = "exists", !.tenantId = contracts[c].tenantId,
                                 !.propertyId = contracts[c].propertyId]
  <1>1. pay[r] \in PayCreateRequest /\ c \in Contracts
    BY PayRequestShape, PaymentDtosAssumption
       DEF PayIInv, PayTypeOK, PayFindContract, PayAt, PayCreateRequest, CreatePaymentDto
  <1>2. CASE FoundByOwner(contracts, c, pay[r].ownerId)
    <2>1. contracts[c] \in ContractRow BY <1>1, <1>2 DEF IInv, TypeOK, FoundByOwner, Present
    <2>2. q \in PayCreateRequest BY <1>1, <2>1 DEF PayCreateRequest, ContractRow
    <2>3. q \in PayRequest BY <2>2 DEF PayRequest
    <2>4. PayLocalOK(q)
      BY <1>1, <1>2, <2>1 DEF PayLocalOK, Agrees, PayCreateRequest, ContractRow, FoundByOwner
    <2>5. pay' = [pay EXCEPT ![r] = q] /\ UNCHANGED payments
      BY <1>2 DEF PayFindContract, PayResume
    <2> HIDE DEF q
    <2>6. QED BY <2>3, <2>4, <2>5, PayReqStep
  <1>3. CASE ~FoundByOwner(contracts, c, pay[r].ownerId)
    BY <1>3, PayAnswerStep DEF PayFindContract
  <1>4. QED BY <1>2, <1>3

LEMMA PayExistsStep ==
    ASSUME PayIInv, NEW r \in PayRequests, PayExists(r), UNCHANGED contracts
    PROVE  PayIInv'
  <1> DEFINE q == [pay[r] EXCEPT !.pc = "insert"]
  <1>1. pay[r] \in PayCreateRequest /\ PayLocalOK(pay[r]) /\ pay[r].pc = "exists"
    BY PayRequestShape DEF PayIInv, PayTypeOK, PayLocalsOK, PayExists, PayAt
  <1>2. q \in PayRequest /\ PayLocalOK(q)
    BY <1>1 DEF PayRequest, PayCreateRequest, PayLocalOK, Agrees
  <1>3. UNCHANGED payments /\ (PayAnswer(r) \/ pay' = [pay EXCEPT ![r] = q])
    BY DEF PayExists, PayResume
  <1> HIDE DEF q
  <1>4. QED BY <1>2, <1>3, PayReqStep, PayAnswerStep

LEMMA NewPaymentRow ==
    ASSUME PayIInv, NEW r \in PayRequests, PayInsert(r)
    PROVE  NewPayment(pay[r]) \in PaymentRow
  <1>1. /\ pay[r] \in PayCreateRequest
        /\ pay[r].tenantId \in Tenants /\ pay[r].propertyId \in Properties
    BY PayRequestShape DEF PayIInv, PayTypeOK, PayLocalsOK, PayLocalOK, PayInsert, PayAt
  <1>2. pay[r].dto \in CreatePaymentDto BY <1>1, PaymentDtosAssumption DEF PayCreateRequest
  <1>3. QED
    BY <1>1, <1>2, MarkersAssumption
       DEF NewPayment, PaymentRow, PayCreateRequest, CreatePaymentDto, Stored, Amount,
           GivenAmount, PaymentStatus, Given

LEMMA PayInsertStep ==
    ASSUME IInv, PayIInv, NEW r \in PayRequests, PayInsert(r), UNCHANGED contracts
    PROVE  PayIInv'
  <1>1. /\ pay[r] \in PayCreateRequest
        /\ pay[r].tenantId \in Tenants /\ pay[r].propertyId \in Properties
        /\ Agrees(pay[r].dto.contractId, pay[r].ownerId, pay[r].tenantId, pay[r].propertyId)
    BY PayRequestShape DEF PayIInv, PayTypeOK, PayLocalsOK, PayLocalOK, PayInsert, PayAt
  <1>2. PICK p \in Payments :
          /\ ~Present(payments, p)
          /\ payments' = [payments EXCEPT ![p] = NewPayment(pay[r])]
    BY DEF PayInsert
  <1>4. NewPayment(pay[r]) \in PaymentRow BY NewPaymentRow
  <1>5. /\ NewPayment(pay[r]).contractId = pay[r].dto.contractId
        /\ NewPayment(pay[r]).ownerId = pay[r].ownerId
        /\ NewPayment(pay[r]).tenantId = pay[r].tenantId
        /\ NewPayment(pay[r]).propertyId = pay[r].propertyId
        /\ NewPayment(pay[r]).periodo = pay[r].dto.periodo
    BY DEF NewPayment
  <1> DEFINE row == NewPayment(pay[r])
  <1> HIDE DEF row
  <1>6. /\ payments' = [payments EXCEPT ![p] = row] /\ row \in PaymentRow
        /\ row.contractId = pay[r].dto.contractId /\ row.ownerId = pay[r].ownerId
        /\ row.tenantId = pay[r].tenantId /\ row.propertyId = pay[r].propertyId
        /\ row.periodo = pay[r].dto.periodo
    BY <1>2, <1>4, <1>5 DEF row
  <1>7. PayTypeOK' BY <1>6, PayIdleOK DEF PayIInv, PayTypeOK, PayInsert, PayAnswer
  <1>8. \A q \in Payments : q # p => payments'[q] = payments[q]
    BY <1>6 DEF PayIInv, PayTypeOK
  <1>9. payments'[p] = row BY <1>6 DEF PayIInv, PayTypeOK
  <1>10. PayLocalsOK'
    <2> SUFFICES ASSUME NEW s \in PayRequests PROVE PayLocalOK(pay[s])'
      BY DEF PayLocalsOK
    <2>1. PICK q \in PayRequest : q = pay'[s] /\ PayLocalOK(q)
      BY PayIdleOK DEF PayIInv, PayTypeOK, PayLocalsOK, PayInsert, PayAnswer
    <2>2. q.pc \in {"write", "softDelete"} => q.id \in Payments
      BY PayRequestShape DEF PayPatchRequest, PayRemoveRequest
    <2>3. PayLocalOK(q)' BY <1>2, <1>8, <2>1, <2>2 DEF PayLocalOK, Agrees, Present
    <2>4. QED BY <2>1, <2>3 DEF PayLocalOK
  <1>12. CopiesAgree'
    BY <1>1, <1>6, <1>8, <1>9 DEF PayIInv, CopiesAgree, Agrees, Present
  <1>13. QED BY <1>7, <1>10, <1>12 DEF PayIInv

LEMMA PayPatchReadStep ==
    ASSUME PayIInv, NEW r \in PayRequests, NEW u \in Users, NEW p \in Payments,
           NEW dto \in PaymentPatches, PayPatchRead(r, u, p, dto), UNCHANGED contracts
    PROVE  PayIInv'
  <1> DEFINE q == [pc |-> "write", id |-> p, data |-> UpdateOf(payments[p], dto)]
  <1>1. dto \in UpdatePaymentDto BY PaymentDtosAssumption
  <1>2. UpdateOf(payments[p], dto) \in PaymentUpdate
    BY <1>1 DEF UpdateOf, PaymentUpdate, UpdatePaymentDto, Amount, GivenAmount, Epoch
  <1>3. q \in PayRequest BY <1>2 DEF PayRequest, PayPatchRequest
  <1>4. PayLocalOK(q) BY DEF PayLocalOK, PayPatchRead, FoundByOwner
  <1>5. pay' = [pay EXCEPT ![r] = q] /\ UNCHANGED payments BY DEF PayPatchRead, PayResume
  <1> HIDE DEF q
  <1>6. QED BY <1>3, <1>4, <1>5, PayReqStep

LEMMA UpdatedRow ==
    ASSUME NEW row \in PaymentRow, NEW data \in PaymentUpdate
    PROVE  /\ Updated(row, data) \in PaymentRow
           /\ Updated(row, data).contractId = row.contractId
           /\ Updated(row, data).ownerId = row.ownerId
           /\ Updated(row, data).tenantId = row.tenantId
           /\ Updated(row, data).propertyId = row.propertyId
           /\ Updated(row, data).periodo = row.periodo
           /\ Updated(row, data).estado = Column(row.estado, data.estado)
           /\ Updated(row, data).fechaPago = Column(row.fechaPago, data.fechaPago)
           /\ Updated(row, data).mora = Column(row.mora, data.mora)
           /\ Updated(row, data).totalPagado = Column(row.totalPagado, data.totalPagado)
  BY DEF Updated, Column, PaymentRow, PaymentUpdate

\* What write and soft delete find.
LEMMA PayWriteReads ==
    ASSUME PayIInv, NEW r \in PayRequests, PayWrite(r)
    PROVE  /\ pay[r] \in PayPatchRequest
           /\ pay[r].id \in Payments
           /\ Present(payments, pay[r].id)
           /\ payments[pay[r].id] \in PaymentRow
           /\ payments' = [payments EXCEPT ![pay[r].id] =
                              Updated(payments[pay[r].id], pay[r].data)]
  BY PayRequestShape
     DEF PayIInv, PayTypeOK, PayLocalsOK, PayLocalOK, PayWrite, PayAt, PayPatchRequest, Present

LEMMA PayWriteStep ==
    ASSUME PayIInv, NEW r \in PayRequests, PayWrite(r), UNCHANGED contracts
    PROVE  PayIInv'
  <1> DEFINE p == pay[r].id
             row == Updated(payments[p], pay[r].data)
  <1>1. /\ p \in Payments /\ Present(payments, p) /\ payments[p] \in PaymentRow
        /\ pay[r].data \in PaymentUpdate
        /\ payments' = [payments EXCEPT ![p] = row]
    BY PayWriteReads DEF PayPatchRequest
  <1>2. /\ row \in PaymentRow
        /\ row.contractId = payments[p].contractId /\ row.ownerId = payments[p].ownerId
        /\ row.tenantId = payments[p].tenantId /\ row.propertyId = payments[p].propertyId
        /\ row.periodo = payments[p].periodo
    BY <1>1, UpdatedRow
  <1>3. PayAnswer(r) BY DEF PayWrite
  <1> HIDE DEF p, row
  <1>4. QED BY <1>1, <1>2, <1>3, PayRowStep

LEMMA PayRemoveReadStep ==
    ASSUME PayIInv, NEW r \in PayRequests, NEW u \in Users, NEW p \in Payments,
           PayRemoveRead(r, u, p), UNCHANGED contracts
    PROVE  PayIInv'
  <1> DEFINE q == [pc |-> "softDelete", id |-> p]
  <1>1. q \in PayRequest /\ PayLocalOK(q)
    BY DEF PayRequest, PayRemoveRequest, PayLocalOK, PayRemoveRead, FoundByOwner
  <1>2. pay' = [pay EXCEPT ![r] = q] /\ UNCHANGED payments BY DEF PayRemoveRead, PayResume
  <1> HIDE DEF q
  <1>3. QED BY <1>1, <1>2, PayReqStep

LEMMA PaySoftDeleteStep ==
    ASSUME PayIInv, NEW r \in PayRequests, PaySoftDelete(r), UNCHANGED contracts
    PROVE  PayIInv'
  <1> DEFINE p == pay[r].id
             row == [payments[p] EXCEPT !.isActive = FALSE, !.estado = "CANCELADO"]
  <1>1. /\ p \in Payments /\ Present(payments, p) /\ payments[p] \in PaymentRow
        /\ payments' = [payments EXCEPT ![p] = row]
    BY PayRequestShape
       DEF PayIInv, PayTypeOK, PayLocalsOK, PayLocalOK, PaySoftDelete, PayAt, PayRemoveRequest,
           Present
  <1>2. /\ row \in PaymentRow
        /\ row.contractId = payments[p].contractId /\ row.ownerId = payments[p].ownerId
        /\ row.tenantId = payments[p].tenantId /\ row.propertyId = payments[p].propertyId
        /\ row.periodo = payments[p].periodo
    BY <1>1 DEF PaymentRow, PaymentStatus
  <1>3. PayAnswer(r) BY DEF PaySoftDelete
  <1> HIDE DEF p, row
  <1>4. QED BY <1>1, <1>2, <1>3, PayRowStep

-----------------------------------------------------------------------------
LEMMA PayStepKeeps ==
    ASSUME IInv, PayIInv, PayStep, UNCHANGED vars
    PROVE  PayIInv'
  <1>1. UNCHANGED contracts BY DEF vars
  <1>2. ASSUME NEW r \in PayRequests, PayArrive(r) PROVE PayIInv'
    BY <1>1, <1>2, PayCreateStartStep, PayPatchReadStep, PayRemoveReadStep DEF PayArrive
  <1>3. ASSUME NEW r \in PayRequests, PayProceed(r) PROVE PayIInv'
    <2>1. PayRejected(r) => PayIInv' BY <1>1, PayAnswerStep DEF PayRejected
    <2>2. QED
      BY <1>1, <1>3, <2>1, PayFindContractStep, PayExistsStep, PayInsertStep, PayWriteStep,
         PaySoftDeleteStep DEF PayProceed
  <1>4. ASSUME NEW r \in PayRequests, PayFail(r) PROVE PayIInv'
    BY <1>1, <1>4, PayAnswerStep DEF PayFail
  <1>5. QED BY <1>2, <1>3, <1>4 DEF PayStep

LEMMA PayInductive == PaySpec => [](IInv /\ PayIInv)
  <1>1. PayInit => IInv /\ PayIInv
    <2>1. PayInit => IInv BY InitIInv DEF PayInit
    <2>2. PayInit => PayIInv
      BY PayIdleOK
         DEF PayInit, Init, PayIInv, PayTypeOK, PayLocalsOK, CopiesAgree, Present
    <2>3. QED BY <2>1, <2>2
  <1>2. IInv /\ PayIInv /\ [PayNext]_<<vars, payVars>> => IInv' /\ PayIInv'
    <2> SUFFICES ASSUME IInv, PayIInv, [PayNext]_<<vars, payVars>> PROVE IInv' /\ PayIInv'
      OBVIOUS
    <2>1. CASE Next /\ UNCHANGED payVars
      <3>1. IInv' /\ (KeepsContracts \/ UNCHANGED vars) BY <2>1, NextStep
      <3>2. UNCHANGED vars => KeepsContracts
        BY DEF vars, KeepsContracts, KeepsIdentity, Present
      <3>3. QED BY <2>1, <3>1, <3>2, LeaseStepKeeps
    <2>2. CASE PayStep /\ UNCHANGED vars
      <3>1. IInv' BY <2>2, NextStep
      <3>2. PayIInv' BY <2>2, PayStepKeeps
      <3>3. QED BY <3>1, <3>2
    <2>3. CASE UNCHANGED <<vars, payVars>>
      <3>1. IInv' BY <2>3, NextStep
      <3>2. UNCHANGED vars => KeepsContracts
        BY DEF vars, KeepsContracts, KeepsIdentity, Present
      <3>3. QED BY <2>3, <3>1, <3>2, LeaseStepKeeps
    <2>4. QED BY <2>1, <2>2, <2>3 DEF PayNext, PayStep
  <1>3. QED BY <1>1, <1>2, PTL DEF PaySpec

\* The table payments and its handlers stay well-formed, beside the contract
\* handlers: no write hits an id without a row.
THEOREM PaymentsTyped == PaySpec => []PayTypeOK
  BY PayInductive, PTL DEF PayIInv

\* A payment and its contract name the same owner, tenant and property,
\* whatever the contract handlers do in between.
THEOREM CopiesStayEqual == PaySpec => []CopiesAgree
  BY PayInductive, PTL DEF PayIInv
-----------------------------------------------------------------------------
(***************************************************************************)
(* A paid payment is complete, for clients that send no null: a handler    *)
(* decides from a row read earlier, but a row never loses a date or a      *)
(* total, so what the decision relied on is still there when it writes.    *)
(***************************************************************************)
\* A date and a total, each new or the row's.
Completes(data, row) ==
    /\ data.fechaPago # Undefined \/ row.fechaPago # Null
    /\ data.totalPagado # Undefined \/ row.totalPagado # Null

\* The write of q never empties a column, and pays a row only if it is complete.
PaidLocalOK(q) ==
    /\ q.pc = "insert" /\ q.dto.estado = "PAGADO" => Given(q.dto.fechaPago)
    /\ q.pc = "write" =>
         /\ q.data.fechaPago \notin {Null, Epoch} /\ q.data.totalPagado # Null
         /\ q.data.estado = "PAGADO" => Completes(q.data, payments[q.id])

PaidRowOK(row) ==
    /\ row.fechaPago # Epoch
    /\ row.estado = "PAGADO" => row.fechaPago # Null /\ row.totalPagado # Null

PaidInv ==
    /\ \A r \in PayRequests : PaidLocalOK(pay[r])
    /\ \A p \in Payments : Present(payments, p) => PaidRowOK(payments[p])

\* No row goes away or loses its date or its total.
RowsFill ==
    \A p \in Payments : Present(payments, p) =>
        /\ Present(payments', p)
        /\ payments[p].fechaPago # Null => payments'[p].fechaPago # Null
        /\ payments[p].totalPagado # Null => payments'[p].totalPagado # Null

\* What one handler relies on survives the steps of the others.
LEMMA PaidLocalStays ==
    ASSUME PayIInv, RowsFill, NEW r \in PayRequests, PaidLocalOK(pay[r]), pay'[r] = pay[r]
    PROVE  PaidLocalOK(pay[r])'
  <1>1. pay[r].pc = "write" => pay[r].id \in Payments /\ Present(payments, pay[r].id)
    BY PayRequestShape DEF PayIInv, PayTypeOK, PayLocalsOK, PayLocalOK, PayPatchRequest
  <1>2. QED BY <1>1 DEF PaidLocalOK, Completes, RowsFill

\* A step of the handler r, which continues with the locals q.
LEMMA PaidStep ==
    ASSUME PayIInv, PaidInv, RowsFill, NEW r \in PayRequests, NEW q,
           pay' = [pay EXCEPT ![r] = q], PaidLocalOK(q)',
           \A p \in Payments : Present(payments', p) => PaidRowOK(payments'[p])
    PROVE  PaidInv'
  <1>1. ASSUME NEW s \in PayRequests PROVE PaidLocalOK(pay[s])'
    <2>1. CASE s = r
      <3>1. pay'[s] = q BY <2>1 DEF PayIInv, PayTypeOK
      <3>2. QED BY <3>1 DEF PaidLocalOK
    <2>2. CASE s # r
      <3>1. pay'[s] = pay[s] /\ PaidLocalOK(pay[s]) BY <2>2 DEF PaidInv
      <3>2. QED BY <3>1, PaidLocalStays
    <2>3. QED BY <2>1, <2>2
  <1>2. QED BY <1>1 DEF PaidInv, PaidRowOK, Present

\* A step that leaves the rows alone.
LEMMA PaidReqStep ==
    ASSUME PayIInv, PaidInv, UNCHANGED payments, NEW r \in PayRequests, NEW q,
           pay' = [pay EXCEPT ![r] = q], PaidLocalOK(q)
    PROVE  PaidInv'
  <1>1. RowsFill BY DEF RowsFill, Present
  <1>2. PaidLocalOK(q)' BY DEF PaidLocalOK, Completes
  <1>3. \A p \in Payments : Present(payments', p) => PaidRowOK(payments'[p])
    BY DEF PaidInv, Present, PaidRowOK
  <1>4. QED BY <1>1, <1>2, <1>3, PaidStep

\* A step that replaces the row p, or inserts it, and answers.
LEMMA PaidRowStep ==
    ASSUME PayIInv, PaidInv, NEW r \in PayRequests, PayAnswer(r), NEW p \in Payments, NEW row,
           row # Null, PaidRowOK(row), payments' = [payments EXCEPT ![p] = row],
           Present(payments, p) =>
             /\ payments[p].fechaPago # Null => row.fechaPago # Null
             /\ payments[p].totalPagado # Null => row.totalPagado # Null
    PROVE  PaidInv'
  <1>1. \A s \in Payments : payments'[s] = IF s = p THEN row ELSE payments[s]
    BY DEF PayIInv, PayTypeOK
  <1>2. RowsFill BY <1>1 DEF RowsFill, Present
  <1>3. \A s \in Payments : Present(payments', s) => PaidRowOK(payments'[s])
    BY <1>1 DEF PaidInv, Present
  <1>4. PaidLocalOK(Idle)' BY DEF PaidLocalOK, Idle
  <1>5. QED BY <1>2, <1>3, <1>4, PaidStep DEF PayAnswer

LEMMA PaidAnswerStep ==
    ASSUME PayIInv, PaidInv, NEW r \in PayRequests, PayAnswer(r), UNCHANGED payments
    PROVE  PaidInv'
  BY PaidReqStep DEF PaidLocalOK, Idle, PayAnswer

LEMMA PaidExistsStep ==
    ASSUME PayIInv, PaidInv, NEW r \in PayRequests, PayExists(r)
    PROVE  PaidInv'
  <1> DEFINE q == [pay[r] EXCEPT !.pc = "insert"]
  <1>1. pay[r] \in PayCreateRequest
    BY PayRequestShape DEF PayIInv, PayTypeOK, PayExists, PayAt
  <1>2. q.pc = "insert" /\ q.dto = pay[r].dto BY <1>1 DEF PayCreateRequest
  <1>3. CASE PayAnswer(r) BY <1>3, PaidAnswerStep DEF PayExists
  <1>4. CASE PayResume(r, q) /\ (pay[r].dto.estado = "PAGADO" => Given(pay[r].dto.fechaPago))
    <2>1. PaidLocalOK(q) BY <1>2, <1>4 DEF PaidLocalOK
    <2>2. QED BY <1>4, <2>1, PaidReqStep DEF PayResume, PayExists
  <1>5. QED BY <1>3, <1>4 DEF PayExists

LEMMA PaidInsertStep ==
    ASSUME PlainPaymentBodies, PayIInv, PaidInv, NEW r \in PayRequests, PayInsert(r)
    PROVE  PaidInv'
  <1> DEFINE row == NewPayment(pay[r])
  <1>1. pay[r] \in PayCreateRequest /\ PaidLocalOK(pay[r]) /\ pay[r].pc = "insert"
    BY PayRequestShape DEF PayIInv, PayTypeOK, PaidInv, PayInsert, PayAt
  <1>2. PICK p \in Payments : ~Present(payments, p) /\ payments' = [payments EXCEPT ![p] = row]
    BY DEF PayInsert
  <1>3. /\ pay[r].dto \in CreatePaymentDto
        /\ pay[r].dto.fechaPago \notin {Null, Epoch} /\ pay[r].dto.totalPagado # Null
        /\ pay[r].dto.estado = "PAGADO" => Given(pay[r].dto.fechaPago)
    BY <1>1, PaymentDtosAssumption DEF PayCreateRequest, PlainPaymentBodies, PaidLocalOK
  <1>4. row.fechaPago # Epoch
    BY <1>3, MarkersAssumption DEF NewPayment, Given, Epoch
  <1>5. ASSUME row.estado = "PAGADO" PROVE row.fechaPago # Null /\ row.totalPagado # Null
    <2>1. pay[r].dto.estado = "PAGADO" BY <1>5 DEF NewPayment
    <2>2. QED
      BY <1>3, <2>1, PaymentMarkersAssumption DEF NewPayment, Given, Stored, CreatePaymentDto
  <1>6. row # Null
    BY NewPaymentRow, PaymentNullAssumption
  <1>7. PayAnswer(r) BY DEF PayInsert
  <1> HIDE DEF row
  <1>8. PaidRowOK(row) BY <1>4, <1>5 DEF PaidRowOK
  <1>9. QED BY <1>2, <1>6, <1>7, <1>8, PaidRowStep

LEMMA PaidPatchReadStep ==
    ASSUME PlainPaymentBodies, PayIInv, PaidInv, NEW r \in PayRequests, NEW u \in Users,
           NEW p \in Payments, NEW dto \in PaymentPatches, PayPatchRead(r, u, p, dto)
    PROVE  PaidInv'
  <1> DEFINE data == UpdateOf(payments[p], dto)
             q == [pc |-> "write", id |-> p, data |-> data]
  <1>1. dto \in UpdatePaymentDto /\ dto.fechaPago \notin {Null, Epoch} /\ dto.totalPagado # Null
    BY PaymentDtosAssumption DEF PlainPaymentBodies
  <1>2. data.fechaPago = dto.fechaPago /\ data.estado = dto.estado
    BY <1>1 DEF UpdateOf
  <1>3. data.totalPagado # Null
    BY <1>1, PaymentMarkersAssumption DEF UpdateOf
  <1>4. ASSUME data.estado = "PAGADO" PROVE Completes(data, payments[p])
    <2>1. NuevoEstado(payments[p], dto) = "PAGADO"
      BY <1>2, <1>4, PaymentMarkersAssumption DEF NuevoEstado, PaymentStatus
    <2>2. dto.fechaPago # Undefined \/ payments[p].fechaPago # Null
      BY <2>1 DEF PayPatchRead, PatchAccepted, Given
    <2>3. data.totalPagado # Undefined \/ payments[p].totalPagado # Null
      BY <2>1, PaymentMarkersAssumption DEF UpdateOf
    <2>4. QED BY <1>2, <2>2, <2>3 DEF Completes
  <1>5. PaidLocalOK(q)
    BY <1>1, <1>2, <1>3, <1>4 DEF PaidLocalOK
  <1>6. pay' = [pay EXCEPT ![r] = q] /\ UNCHANGED payments BY DEF PayPatchRead, PayResume
  <1> HIDE DEF q
  <1>7. QED BY <1>5, <1>6, PaidReqStep

LEMMA PaidWriteStep ==
    ASSUME PayIInv, PaidInv, NEW r \in PayRequests, PayWrite(r)
    PROVE  PaidInv'
  <1> DEFINE p == pay[r].id
             data == pay[r].data
             row == Updated(payments[p], data)
  <1>1. /\ p \in Payments /\ Present(payments, p) /\ payments[p] \in PaymentRow
        /\ data \in PaymentUpdate /\ payments' = [payments EXCEPT ![p] = row]
    BY PayWriteReads DEF PayPatchRequest
  <1>2. /\ row \in PaymentRow
        /\ row.estado = Column(payments[p].estado, data.estado)
        /\ row.fechaPago = Column(payments[p].fechaPago, data.fechaPago)
        /\ row.totalPagado = Column(payments[p].totalPagado, data.totalPagado)
    BY <1>1, UpdatedRow
  <1>3. /\ PaidRowOK(payments[p])
        /\ data.fechaPago \notin {Null, Epoch} /\ data.totalPagado # Null
        /\ data.estado = "PAGADO" => Completes(data, payments[p])
    BY <1>1 DEF PaidInv, PaidLocalOK, PayWrite, PayAt
  <1>4. row # Null BY <1>2, PaymentNullAssumption
  <1>5. PayAnswer(r) BY DEF PayWrite
  <1> HIDE DEF p, data, row
  <1>6. PaidRowOK(row) BY <1>2, <1>3 DEF PaidRowOK, Completes, Column
  <1>7. /\ payments[p].fechaPago # Null => row.fechaPago # Null
        /\ payments[p].totalPagado # Null => row.totalPagado # Null
    BY <1>2, <1>3 DEF Column
  <1>8. QED BY <1>1, <1>4, <1>5, <1>6, <1>7, PaidRowStep

LEMMA PaidSoftDeleteStep ==
    ASSUME PayIInv, PaidInv, NEW r \in PayRequests, PaySoftDelete(r)
    PROVE  PaidInv'
  <1> DEFINE p == pay[r].id
             row == [payments[p] EXCEPT !.isActive = FALSE, !.estado = "CANCELADO"]
  <1>1. /\ p \in Payments /\ Present(payments, p) /\ payments[p] \in PaymentRow
        /\ payments' = [payments EXCEPT ![p] = row]
    BY PayRequestShape
       DEF PayIInv, PayTypeOK, PayLocalsOK, PayLocalOK, PaySoftDelete, PayAt, PayRemoveRequest,
           Present
  <1>2. /\ row \in PaymentRow /\ row.estado = "CANCELADO"
        /\ row.fechaPago = payments[p].fechaPago /\ row.totalPagado = payments[p].totalPagado
    BY <1>1 DEF PaymentRow, PaymentStatus
  <1>3. row # Null BY <1>2, PaymentNullAssumption
  <1>4. PaidRowOK(row) BY <1>1, <1>2 DEF PaidInv, PaidRowOK
  <1>5. PayAnswer(r) BY DEF PaySoftDelete
  <1> HIDE DEF p, row
  <1>6. QED BY <1>1, <1>2, <1>3, <1>4, <1>5, PaidRowStep

LEMMA PaidStepKeeps ==
    ASSUME PlainPaymentBodies, PayIInv, PaidInv, PayStep
    PROVE  PaidInv'
  <1>1. ASSUME NEW r \in PayRequests, NEW u \in Users, NEW dto \in CreatePaymentDtos,
               PayCreateStart(r, u, dto)
        PROVE  PaidInv'
    <2> DEFINE q == [pc |-> "findContract", ownerId |-> u, dto |-> dto,
                     tenantId |-> Undefined, propertyId |-> Undefined]
    <2>1. PaidLocalOK(q) BY DEF PaidLocalOK
    <2>2. pay' = [pay EXCEPT ![r] = q] /\ UNCHANGED payments
      BY <1>1 DEF PayCreateStart, PayResume
    <2> HIDE DEF q
    <2>3. QED BY <2>1, <2>2, PaidReqStep
  <1>2. ASSUME NEW r \in PayRequests, NEW u \in Users, NEW p \in Payments, PayRemoveRead(r, u, p)
        PROVE  PaidInv'
    BY <1>2, PaidReqStep DEF PaidLocalOK, PayRemoveRead, PayResume
  <1>3. ASSUME NEW r \in PayRequests, PayFindContract(r) PROVE PaidInv'
    <2> DEFINE q == [pay[r] EXCEPT
                 !.pc = "exists",
                 !.tenantId = contracts[pay[r].dto.contractId].tenantId,
                 !.propertyId = contracts[pay[r].dto.contractId].propertyId]
    <2>1. pay[r] \in PayCreateRequest
      BY <1>3, PayRequestShape DEF PayIInv, PayTypeOK, PayFindContract, PayAt
    <2>2. PaidLocalOK(q) BY <2>1 DEF PaidLocalOK, PayCreateRequest
    <2>3. CASE PayAnswer(r) BY <1>3, <2>3, PaidAnswerStep DEF PayFindContract
    <2>4. CASE PayResume(r, q) BY <1>3, <2>2, <2>4, PaidReqStep DEF PayFindContract, PayResume
    <2>5. QED BY <1>3, <2>3, <2>4 DEF PayFindContract
  <1>4. ASSUME NEW r \in PayRequests, PayRejected(r) \/ PayFail(r) PROVE PaidInv'
    BY <1>4, PaidAnswerStep DEF PayRejected, PayFail
  <1>5. ASSUME NEW r \in PayRequests, PayArrive(r) PROVE PaidInv'
    BY <1>1, <1>2, <1>5, PaidPatchReadStep DEF PayArrive
  <1>6. ASSUME NEW r \in PayRequests, PayProceed(r) PROVE PaidInv'
    BY <1>3, <1>4, <1>6, PaidExistsStep, PaidInsertStep, PaidWriteStep, PaidSoftDeleteStep
       DEF PayProceed
  <1>7. QED BY <1>4, <1>5, <1>6 DEF PayStep

\* For clients that send neither a null nor the epoch: a payment is paid only
\* with a date and a total, whatever PATCHes overlap.
THEOREM PaidStaysComplete ==
    ASSUME PlainPaymentBodies PROVE PaySpec => []PaidIsComplete
  <1>1. PayInit => PaidInv
    BY DEF PayInit, PaidInv, PaidLocalOK, Idle, Present
  <1>2. PayIInv /\ PaidInv /\ [PayNext]_<<vars, payVars>> => PaidInv'
    <2> SUFFICES ASSUME PayIInv, PaidInv, [PayNext]_<<vars, payVars>> PROVE PaidInv'
      OBVIOUS
    <2>1. CASE PayStep BY <2>1, PlainPaymentBodies, PaidStepKeeps
    <2>2. CASE UNCHANGED payVars
      BY <2>2 DEF payVars, PaidInv, PaidLocalOK, PaidRowOK, Completes, Present
    <2>3. QED BY <2>1, <2>2 DEF PayNext, PayStep
  <1>3. PaidInv => PaidIsComplete
    BY DEF PaidInv, PaidRowOK, PaidIsComplete
  <1>4. QED BY <1>1, <1>2, <1>3, PayInductive, PTL DEF PaySpec

-----------------------------------------------------------------------------
(***************************************************************************)
(* What is settled stays settled, whatever requests overlap.  A handler    *)
(* that does not write yet decides from the row when it reads it, and so   *)
(* from the settled one.                                                   *)
(***************************************************************************)
\* What a step of the payment handlers does to a row that is there.
LEMMA RowChange ==
    ASSUME PayIInv, PayStep, NEW p \in Payments, Present(payments, p),
           payments'[p] # payments[p]
    PROVE  \E r \in PayRequests :
             /\ pay[r].id = p
             /\ \/ pay[r].pc = "write" /\ payments'[p] = Updated(payments[p], pay[r].data)
                \/ /\ pay[r].pc = "softDelete"
                   /\ payments'[p].mora = payments[p].mora
                   /\ payments'[p].totalPagado = payments[p].totalPagado
  <1>1. ASSUME NEW r \in PayRequests, PayWrite(r)
        PROVE  /\ pay[r].id = p /\ pay[r].pc = "write"
               /\ payments'[p] = Updated(payments[p], pay[r].data)
    BY <1>1 DEF PayWrite, PayAt, PayIInv, PayTypeOK
  <1>2. ASSUME NEW r \in PayRequests, PaySoftDelete(r)
        PROVE  /\ pay[r].id = p /\ pay[r].pc = "softDelete"
               /\ payments'[p].mora = payments[p].mora
               /\ payments'[p].totalPagado = payments[p].totalPagado
    <2>1. pay[r].id = p /\ pay[r].pc = "softDelete"
      BY <1>2 DEF PaySoftDelete, PayAt, PayIInv, PayTypeOK
    <2>2. payments[p] \in PaymentRow BY DEF PayIInv, PayTypeOK, Present
    <2>3. payments'[p] = [payments[p] EXCEPT !.isActive = FALSE, !.estado = "CANCELADO"]
      BY <1>2, <2>1 DEF PaySoftDelete, PayIInv, PayTypeOK
    <2>4. QED BY <2>1, <2>2, <2>3 DEF PaymentRow
  <1>3. ASSUME NEW r \in PayRequests, PayInsert(r) PROVE FALSE
    BY <1>3 DEF PayInsert, Present, PayIInv, PayTypeOK
  <1>4. QED
    BY <1>1, <1>2, <1>3
       DEF PayStep, PayArrive, PayCreateStart, PayPatchRead, PayRemoveRead, PayProceed,
           PayFindContract, PayExists, PayRejected, PayFail

\* No row goes away.
LEMMA RowStays ==
    ASSUME PayIInv, PayStep, NEW p \in Payments, Present(payments, p)
    PROVE  Present(payments', p)
  <1>1. payments[p] \in PaymentRow BY DEF PayIInv, PayTypeOK, Present
  <1>2. ASSUME NEW r \in PayRequests, PayWrite(r), pay[r].id = p
        PROVE  Present(payments', p)
    <2>1. pay[r].data \in PaymentUpdate /\ payments'[p] = Updated(payments[p], pay[r].data)
      BY <1>2, PayWriteReads DEF PayPatchRequest, PayIInv, PayTypeOK
    <2>2. payments'[p] \in PaymentRow BY <1>1, <2>1, UpdatedRow
    <2>3. QED BY <2>2, PaymentNullAssumption DEF Present
  <1>3. ASSUME NEW r \in PayRequests, PaySoftDelete(r), pay[r].id = p
        PROVE  Present(payments', p)
    <2>1. payments'[p] = [payments[p] EXCEPT !.isActive = FALSE, !.estado = "CANCELADO"]
      BY <1>3 DEF PaySoftDelete, PayIInv, PayTypeOK
    <2>2. payments'[p] \in PaymentRow BY <1>1, <2>1 DEF PaymentRow, PaymentStatus
    <2>3. QED BY <2>2, PaymentNullAssumption DEF Present
  <1>4. ASSUME NEW r \in PayRequests, PayWrite(r) \/ PaySoftDelete(r), pay[r].id # p
        PROVE  payments'[p] = payments[p]
    BY <1>4 DEF PayWrite, PaySoftDelete, PayIInv, PayTypeOK
  <1>5. ASSUME NEW r \in PayRequests, PayInsert(r) PROVE payments'[p] = payments[p]
    BY <1>5 DEF PayInsert, PayIInv, PayTypeOK
  <1>6. QED
    BY <1>2, <1>3, <1>4, <1>5
       DEF PayStep, PayArrive, PayCreateStart, PayPatchRead, PayRemoveRead, PayProceed,
           PayFindContract, PayExists, PayRejected, PayFail, Present

\* A handler about to write, after a step, was so before it, or has read the
\* row in this step.
LEMMA AboutToWrite ==
    ASSUME PayIInv, PayStep, NEW r \in PayRequests, pay'[r].pc \in {"write", "softDelete"}
    PROVE  \/ pay'[r] = pay[r]
           \/ \E u \in Users, p \in Payments :
                \/ /\ FoundByOwner(payments, p, u) /\ payments[p].estado # "CANCELADO"
                   /\ pay'[r].id = p /\ pay'[r].pc = "softDelete"
                \/ \E dto \in PaymentPatches :
                     /\ FoundByOwner(payments, p, u) /\ payments[p].estado # "CANCELADO"
                     /\ pay'[r].id = p /\ pay'[r].pc = "write"
                     /\ pay'[r].data = UpdateOf(payments[p], dto)
  <1>1. PICK s \in PayRequests : PayArrive(s) \/ PayProceed(s) \/ PayFail(s)
    BY DEF PayStep
  <1>2. pay \in [PayRequests -> PayRequest] BY DEF PayIInv, PayTypeOK
  <1>3. \E q : pay' = [pay EXCEPT ![s] = q]
    BY <1>1
       DEF PayArrive, PayCreateStart, PayPatchRead, PayRemoveRead, PayProceed, PayFindContract,
           PayExists, PayRejected, PayInsert, PayWrite, PaySoftDelete, PayFail, PayAnswer,
           PayResume
  <1>4. CASE r # s BY <1>2, <1>3, <1>4
  <1>5. CASE r = s
    <2>1. ~PayAnswer(s) BY <1>2, <1>5 DEF PayAnswer, Idle
    <2>2. ASSUME NEW u \in Users, NEW dto \in CreatePaymentDtos PROVE ~PayCreateStart(s, u, dto)
      BY <1>2, <1>5 DEF PayCreateStart, PayResume
    <2>3. ~PayFindContract(s) /\ ~PayExists(s)
      <3>1. ASSUME PayFindContract(s) \/ PayExists(s) PROVE FALSE
        <4>1. pay[s] \in PayCreateRequest
          BY <1>2, <3>1, PayRequestShape DEF PayFindContract, PayExists, PayAt
        <4>2. pay'[s].pc \in {"exists", "insert"}
          BY <1>2, <2>1, <3>1, <4>1 DEF PayFindContract, PayExists, PayResume, PayCreateRequest
        <4>3. QED BY <1>5, <4>2
      <3>2. QED BY <3>1
    <2>4. ASSUME NEW u \in Users, NEW p \in Payments, PayRemoveRead(s, u, p)
          PROVE  /\ FoundByOwner(payments, p, u) /\ payments[p].estado # "CANCELADO"
                 /\ pay'[s].id = p /\ pay'[s].pc = "softDelete"
      BY <1>2, <2>4 DEF PayRemoveRead, PayResume
    <2>5. ASSUME NEW u \in Users, NEW p \in Payments, NEW dto \in PaymentPatches,
                 PayPatchRead(s, u, p, dto)
          PROVE  /\ FoundByOwner(payments, p, u) /\ payments[p].estado # "CANCELADO"
                 /\ pay'[s].id = p /\ pay'[s].pc = "write"
                 /\ pay'[s].data = UpdateOf(payments[p], dto)
      BY <1>2, <2>5 DEF PayPatchRead, PayResume
    <2>6. PayArrive(s)
      BY <1>1, <2>1, <2>3
         DEF PayProceed, PayRejected, PayInsert, PayWrite, PaySoftDelete, PayFail
    <2>7. QED BY <1>5, <2>2, <2>4, <2>5, <2>6 DEF PayArrive
  <1>6. QED BY <1>4, <1>5

\* The row of a settled payment is written by no handler.
LEMMA SettledPaymentStep ==
    ASSUME PayIInv, PayStep, NEW p \in Payments, PaymentSettled(p)
    PROVE  PaymentSettled(p)' /\ payments'[p] = payments[p]
  <1>1. payments'[p] = payments[p] BY RowChange DEF PaymentSettled
  <1>2. ASSUME NEW r \in PayRequests, pay'[r].pc \in {"write", "softDelete"}, pay'[r].id = p
        PROVE  FALSE
    BY <1>2, AboutToWrite DEF PaymentSettled
  <1>3. QED BY <1>1, <1>2 DEF PaymentSettled, Present

\* What UpdateOf writes over amounts the row has.
LEMMA UpdateKeepsGiven ==
    ASSUME NEW row \in PaymentRow, NEW dto \in PaymentPatches
    PROVE  /\ row.mora # Null => UpdateOf(row, dto).mora # "computed"
           /\ row.totalPagado # Null => UpdateOf(row, dto).totalPagado # "computed"
  <1>1. dto.mora # "computed" /\ dto.totalPagado # "computed"
    BY PaymentDtosAssumption, PaymentMarkersAssumption DEF UpdatePaymentDto, GivenAmount
  <1>2. QED BY <1>1 DEF UpdateOf

\* The amounts a step leaves in a row, if it changes them.
LEMMA AmountChange ==
    ASSUME PayIInv, PayStep, NEW p \in Payments, Present(payments, p)
    PROVE  /\ Present(payments', p)
           /\ \/ payments'[p].mora = payments[p].mora
              \/ \E r \in PayRequests :
                   /\ PayAt(r, "write") /\ pay[r].id = p
                   /\ payments'[p].mora = pay[r].data.mora
                   /\ pay[r].data \in PaymentUpdate /\ pay[r].data.mora # Undefined
           /\ \/ payments'[p].totalPagado = payments[p].totalPagado
              \/ \E r \in PayRequests :
                   /\ PayAt(r, "write") /\ pay[r].id = p
                   /\ payments'[p].totalPagado = pay[r].data.totalPagado
                   /\ pay[r].data \in PaymentUpdate /\ pay[r].data.totalPagado # Undefined
  <1>1. CASE payments'[p] = payments[p] BY <1>1 DEF Present
  <1>2. CASE payments'[p] # payments[p]
    <2>1. PICK r \in PayRequests :
            /\ pay[r].id = p
            /\ \/ pay[r].pc = "write" /\ payments'[p] = Updated(payments[p], pay[r].data)
               \/ /\ pay[r].pc = "softDelete"
                  /\ payments'[p].mora = payments[p].mora
                  /\ payments'[p].totalPagado = payments[p].totalPagado
      BY <1>2, RowChange
    <2>2. Present(payments', p) BY <1>2, RowStays
    <2>3. CASE pay[r].pc = "write"
      <3>1. payments[p] \in PaymentRow BY DEF PayIInv, PayTypeOK, Present
      <3>2. pay[r].data \in PaymentUpdate
        BY <2>3, PayRequestShape DEF PayIInv, PayTypeOK, PayPatchRequest
      <3>3. /\ payments'[p].mora = Column(payments[p].mora, pay[r].data.mora)
            /\ payments'[p].totalPagado = Column(payments[p].totalPagado, pay[r].data.totalPagado)
        BY <2>1, <2>3, <3>1, <3>2, UpdatedRow
      <3>4. QED BY <2>1, <2>2, <2>3, <3>2, <3>3 DEF Column, PayAt
    <2>4. QED BY <2>1, <2>2, <2>3
  <1>3. QED BY <1>1, <1>2

LEMMA SettledAmountsStep ==
    ASSUME PayIInv, PayStep, NEW p \in Payments
    PROVE  /\ MoraSettled(p) => MoraSettled(p)' \/ payments'[p].mora = Null
           /\ TotalSettled(p) => TotalSettled(p)' \/ payments'[p].totalPagado = Null
  <1>1. ASSUME MoraSettled(p), payments'[p].mora # Null PROVE MoraSettled(p)'
    <2>1. /\ Present(payments, p) /\ payments[p] \in PaymentRow
          /\ payments[p].mora = "given" /\ payments[p].mora # Null
      BY <1>1, PaymentMarkersAssumption DEF MoraSettled, PayIInv, PayTypeOK, Present
    <2>2. Present(payments', p) /\ payments'[p].mora = "given"
      BY <1>1, <2>1, AmountChange DEF MoraSettled, PaymentUpdate, Amount
    <2>3. ASSUME NEW r \in PayRequests, pay'[r].pc = "write", pay'[r].id = p
          PROVE  pay'[r].data.mora # "computed"
      BY <1>1, <2>1, <2>3, AboutToWrite, UpdateKeepsGiven DEF MoraSettled, PayAt
    <2>4. QED BY <2>2, <2>3 DEF MoraSettled, PayAt
  <1>2. ASSUME TotalSettled(p), payments'[p].totalPagado # Null PROVE TotalSettled(p)'
    <2>1. /\ Present(payments, p) /\ payments[p] \in PaymentRow
          /\ payments[p].totalPagado = "given" /\ payments[p].totalPagado # Null
      BY <1>2, PaymentMarkersAssumption DEF TotalSettled, PayIInv, PayTypeOK, Present
    <2>2. Present(payments', p) /\ payments'[p].totalPagado = "given"
      BY <1>2, <2>1, AmountChange DEF TotalSettled, PaymentUpdate, Amount
    <2>3. ASSUME NEW r \in PayRequests, pay'[r].pc = "write", pay'[r].id = p
          PROVE  pay'[r].data.totalPagado # "computed"
      BY <1>2, <2>1, <2>3, AboutToWrite, UpdateKeepsGiven DEF TotalSettled, PayAt
    <2>4. QED BY <2>2, <2>3 DEF TotalSettled, PayAt
  <1>3. QED BY <1>1, <1>2

\* A cancelled payment is final once the handlers that read it before have
\* ended, however payment and contract requests overlap: a PATCH or a DELETE
\* that comes later reads the cancelled row and turns away.
THEOREM CancelledPaymentsStay == PaySpec => CancelledPaymentsSettle
  <1> DEFINE Final == \A p \in Payments : PaymentSettled(p) =>
               PaymentSettled(p)' /\ payments'[p] = payments[p]
  <1>1. PayIInv /\ [PayNext]_<<vars, payVars>> => [Final]_<<vars, payVars>>
    <2>1. ASSUME PayIInv, PayStep PROVE Final BY <2>1, SettledPaymentStep
    <2>2. UNCHANGED payVars => Final BY DEF payVars, PaymentSettled, Present
    <2>3. QED BY <2>1, <2>2 DEF PayNext, PayStep
  <1>2. QED BY <1>1, PayInductive, PTL DEF PaySpec, CancelledPaymentsSettle

\* A given mora or total is not replaced by a computed one, however requests
\* overlap, but by a PATCH that read the row without it: update() computes an
\* amount only where the row it has read has none.
THEOREM GivenAmountsStay == PaySpec => GivenAmountsSettle
  <1> DEFINE Kept == \A p \in Payments :
               /\ MoraSettled(p) => MoraSettled(p)' \/ payments'[p].mora = Null
               /\ TotalSettled(p) => TotalSettled(p)' \/ payments'[p].totalPagado = Null
  <1>1. PayIInv /\ [PayNext]_<<vars, payVars>> => [Kept]_<<vars, payVars>>
    <2>1. ASSUME PayIInv, PayStep PROVE Kept BY <2>1, SettledAmountsStep
    <2>2. UNCHANGED payVars => Kept
      BY DEF payVars, MoraSettled, TotalSettled, Present, PayAt
    <2>3. QED BY <2>1, <2>2 DEF PayNext, PayStep
  <1>2. QED BY <1>1, PayInductive, PTL DEF PaySpec, GivenAmountsSettle
=============================================================================
