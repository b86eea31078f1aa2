------------------------------ MODULE Payments ------------------------------
(***************************************************************************)
(* The payments of RentFlowAPI beside its contracts: the table payments    *)
(* and the handlers of PaymentsService, composed with the handlers of      *)
(* Leases, which go on creating and cancelling the contracts.              *)
(*                                                                         *)
(* Amounts are abstracted to where they come from: none, given by the      *)
(* client, or computed by the server.                                      *)
(***************************************************************************)
EXTENDS Leases

CONSTANTS
    Payments,          \* ids a payment row may get (bounds the number of rows)
    Periods,           \* values of periodo
    PayRequests,       \* payment requests in flight at once
    CreatePaymentDtos, \* bodies of POST /payments the clients send
    PaymentPatches     \* bodies of PATCH /payments/:id the clients send

PaymentStatus == {"PENDIENTE", "PAGADO", "VENCIDO", "PARCIAL", "CANCELADO"}

Amount == {"given", "computed", Null}

GivenAmount == {"given", Null, Undefined}

CreatePaymentDto == [estado : PaymentStatus \cup {Undefined},
                     contractId : Contracts, periodo : Periods,
                     fechaPago : Int \cup {Undefined, Null},
                     mora : GivenAmount, totalPagado : GivenAmount]

UpdatePaymentDto == [estado : PaymentStatus \cup {Undefined},
                     fechaPago : Int \cup {Undefined, Null},
                     mora : GivenAmount, totalPagado : GivenAmount]

ASSUME PaymentDtosAssumption ==
    /\ CreatePaymentDtos \subseteq CreatePaymentDto
    /\ PaymentPatches \subseteq UpdatePaymentDto

\* Markers are neither states nor origins of an amount.
ASSUME PaymentMarkersAssumption ==
    /\ Undefined \notin PaymentStatus
    /\ Undefined \notin {"given", "computed"}
    /\ Null \notin {"given", "computed"}

VARIABLES
    payments, \* the table payments
    pay       \* pay[r]: where the handler of payment request r is, its locals

payVars == <<payments, pay>>

PaymentRow == [ownerId : Users, contractId : Contracts,
               tenantId : Tenants, propertyId : Properties, periodo : Periods,
               fechaPago : Int \cup {Null}, mora : Amount, totalPagado : Amount,
               estado : PaymentStatus, isActive : BOOLEAN]

ASSUME PaymentNullAssumption == Null \notin PaymentRow

PayCreateRequest == [pc : {"findContract", "exists", "insert"}, ownerId : Users,
                     dto : CreatePaymentDtos,
                     tenantId : Tenants \cup {Undefined},
                     propertyId : Properties \cup {Undefined}]

\* The columns update writes; Undefined: left alone.
PaymentUpdate == [fechaPago : Int \cup {Undefined},
                  mora : Amount \cup {Undefined}, totalPagado : Amount \cup {Undefined},
                  estado : PaymentStatus \cup {Undefined}]

PayPatchRequest == [pc : {"write"}, id : Payments, data : PaymentUpdate]

PayRemoveRequest == [pc : {"softDelete"}, id : Payments]

PayRequest == IdleRequest \cup PayCreateRequest \cup PayPatchRequest \cup PayRemoveRequest

PayAt(r, step) == pay[r].pc = step

PayAnswer(r) == pay' = [pay EXCEPT ![r] = Idle]

PayResume(r, locals) == pay' = [pay EXCEPT ![r] = locals]

-----------------------------------------------------------------------------
(***************************************************************************)
(* POST /payments: PaymentsService.create.                                 *)
(***************************************************************************)
ExistsByContractAndPeriodo(contract, periodo) ==
    \E p \in Payments :
        /\ Present(payments, p)
        /\ payments[p].contractId = contract /\ payments[p].periodo = periodo

\* Bound: an unused payment id is left for every creation in flight.
PaymentIdsLeft ==
    Cardinality({r \in PayRequests : pay[r].pc \in {"findContract", "exists", "insert"}})
        < Cardinality({p \in Payments : ~Present(payments, p)})

PayCreateStart(r, owner, dto) ==
    /\ PayAt(r, "idle")
    /\ PaymentIdsLeft
    /\ PayResume(r, [pc |-> "findContract", ownerId |-> owner, dto |-> dto,
                     tenantId |-> Undefined, propertyId |-> Undefined])
    /\ UNCHANGED payments

\* The contract's tenant and property are taken from this read.
PayFindContract(r) ==
    /\ PayAt(r, "findContract")
    /\ IF FoundByOwner(contracts, pay[r].dto.contractId, pay[r].ownerId)
         THEN PayResume(r, [pay[r] EXCEPT
                 !.pc = "exists",
                 !.tenantId = contracts[pay[r].dto.contractId].tenantId,
                 !.propertyId = contracts[pay[r].dto.contractId].propertyId])
         ELSE PayAnswer(r)
    /\ UNCHANGED payments

\* 409 for a period that has a payment, 400 for PAGADO without fechaPago.
PayExists(r) ==
    /\ PayAt(r, "exists")
    /\ IF \/ ExistsByContractAndPeriodo(pay[r].dto.contractId, pay[r].dto.periodo)
          \/ pay[r].dto.estado = "PAGADO" /\ ~Given(pay[r].dto.fechaPago)
         THEN PayAnswer(r)
         ELSE PayResume(r, [pay[r] EXCEPT !.pc = "insert"])
    /\ UNCHANGED payments

Stored(amount) == IF amount = Undefined THEN Null ELSE amount

\* Mutant: an estado left out is not replaced.
NewPaymentNoDefault(q) ==
    [ownerId |-> q.ownerId, contractId |-> q.dto.contractId,
     tenantId |-> q.tenantId, propertyId |-> q.propertyId, periodo |-> q.dto.periodo,
     fechaPago |-> Null, mora |-> Null, totalPagado |-> Null,
     estado |-> q.dto.estado, isActive |-> TRUE]

NewPayment(q) ==
    [ownerId |-> q.ownerId, contractId |-> q.dto.contractId,
     tenantId |-> q.tenantId, propertyId |-> q.propertyId, periodo |-> q.dto.periodo,
     fechaPago |-> IF Given(q.dto.fechaPago) THEN q.dto.fechaPago ELSE Null,
     mora |-> Stored(q.dto.mora),
     totalPagado |-> IF q.dto.estado = "PAGADO" /\ q.dto.totalPagado = Undefined
                       THEN "computed" ELSE Stored(q.dto.totalPagado),
     estado |-> IF q.dto.estado = Undefined THEN "PENDIENTE" ELSE q.dto.estado,
     isActive |-> TRUE]

\* The unique key (contractId, periodo) rejects a period taken since.
PayRejected(r) ==
    /\ PayAt(r, "insert")
    /\ ExistsByContractAndPeriodo(pay[r].dto.contractId, pay[r].dto.periodo)
    /\ PayAnswer(r)
    /\ UNCHANGED payments

PayInsert(r) ==
    /\ PayAt(r, "insert")
    /\ ~ExistsByContractAndPeriodo(pay[r].dto.contractId, pay[r].dto.periodo)
    /\ \E p \in Payments :
         /\ ~Present(payments, p)
         /\ payments' = [payments EXCEPT ![p] = NewPayment(pay[r])]
    /\ PayAnswer(r)

-----------------------------------------------------------------------------
(***************************************************************************)
(* PATCH /payments/:id: PaymentsService.update.  What will be written is   *)
(* decided from the row as it is read, and written by id.                  *)
(***************************************************************************)
NuevoEstado(row, dto) == IF dto.estado = Undefined THEN row.estado ELSE dto.estado

\* A payment is PAGADO only with a fechaPago, of the body or of the row.
PatchAccepted(row, dto) ==
    NuevoEstado(row, dto) = "PAGADO" => Given(dto.fechaPago) \/ row.fechaPago # Null

\* Mutants: no total is computed; a mora is computed although there is one.
UpdateNoTotal(row, dto) ==
    [fechaPago |-> IF dto.fechaPago = Null THEN Epoch ELSE dto.fechaPago,
     mora |-> dto.mora, totalPagado |-> dto.totalPagado, estado |-> dto.estado]
UpdateMoraAnew(row, dto) ==
    [fechaPago |-> IF dto.fechaPago = Null THEN Epoch ELSE dto.fechaPago,
     mora |-> IF dto.estado = "VENCIDO" /\ dto.mora = Undefined THEN "computed" ELSE dto.mora,
     totalPagado |-> dto.totalPagado, estado |-> dto.estado]

\* A total or a mora that is missing is computed when the payment is paid or
\* falls due; a null date is written as new Date(null).
UpdateOf(row, dto) ==
    [fechaPago |-> IF dto.fechaPago = Null THEN Epoch ELSE dto.fechaPago,
     mora |-> IF dto.estado = "VENCIDO" /\ dto.mora = Undefined /\ row.mora = Null
                THEN "computed" ELSE dto.mora,
     totalPagado |-> IF /\ dto.totalPagado = Undefined
                        /\ NuevoEstado(row, dto) = "PAGADO"
                        /\ row.totalPagado = Null
                       THEN "computed" ELSE dto.totalPagado,
     estado |-> dto.estado]

\* Mutant: cancelled payments are not turned away.
PayPatchReadAny(r, owner, id, dto) ==
    /\ PayAt(r, "idle")
    /\ FoundByOwner(payments, id, owner)
    /\ PatchAccepted(payments[id], dto)
    /\ PayResume(r, [pc |-> "write", id |-> id, data |-> UpdateOf(payments[id], dto)])
    /\ UNCHANGED payments

PayPatchRead(r, owner, id, dto) ==
    /\ PayAt(r, "idle")
    /\ FoundByOwner(payments, id, owner)
    /\ payments[id].estado # "CANCELADO"
    /\ PatchAccepted(payments[id], dto)
    /\ PayResume(r, [pc |-> "write", id |-> id, data |-> UpdateOf(payments[id], dto)])
    /\ UNCHANGED payments

Column(old, new) == IF new = Undefined THEN old ELSE new

Updated(row, data) ==
    [row EXCEPT !.fechaPago = Column(@, data.fechaPago),
                !.mora = Column(@, data.mora),
                !.totalPagado = Column(@, data.totalPagado),
                !.estado = Column(@, data.estado)]

PayWrite(r) ==
    /\ PayAt(r, "write")
    /\ payments' = [payments EXCEPT ![pay[r].id] = Updated(@, pay[r].data)]
    /\ PayAnswer(r)

-----------------------------------------------------------------------------
(***************************************************************************)
(* DELETE /payments/:id: PaymentsService.remove.                           *)
(***************************************************************************)
PayRemoveRead(r, owner, id) ==
    /\ PayAt(r, "idle")
    /\ FoundByOwner(payments, id, owner)
    /\ payments[id].estado # "CANCELADO"
    /\ PayResume(r, [pc |-> "softDelete", id |-> id])
    /\ UNCHANGED payments

PaySoftDelete(r) ==
    /\ PayAt(r, "softDelete")
    /\ payments' = [payments EXCEPT
                      ![pay[r].id] = [@ EXCEPT !.isActive = FALSE, !.estado = "CANCELADO"]]
    /\ PayAnswer(r)

-----------------------------------------------------------------------------
PayFail(r) ==
    /\ ~PayAt(r, "idle")
    /\ PayAnswer(r)
    /\ UNCHANGED payments

PayArrive(r) ==
    \/ \E u \in Users, dto \in CreatePaymentDtos : PayCreateStart(r, u, dto)
    \/ \E u \in Users, p \in Payments, dto \in PaymentPatches : PayPatchRead(r, u, p, dto)
    \/ \E u \in Users, p \in Payments : PayRemoveRead(r, u, p)

PayProceed(r) ==
    \/ PayFindContract(r) \/ PayExists(r) \/ PayRejected(r) \/ PayInsert(r)
    \/ PayWrite(r) \/ PaySoftDelete(r)

PayInit ==
    /\ Init
    /\ payments = [p \in Payments |-> Null]
    /\ pay = [r \in PayRequests |-> Idle]

\* Either a handler of Leases or a handler of payments runs.
PayNext ==
    \/ Next /\ UNCHANGED payVars
    \/ /\ \E r \in PayRequests : PayArrive(r) \/ PayProceed(r) \/ PayFail(r)
       /\ UNCHANGED vars

PaySpec == PayInit /\ [][PayNext]_<<vars, payVars>>

\* The clients send no null amount, and no date that is null or the epoch.
PlainPaymentBodies ==
    /\ \A dto \in CreatePaymentDtos :
         /\ dto.fechaPago \notin {Null, Epoch}
         /\ dto.totalPagado # Null
    /\ \A dto \in PaymentPatches :
         /\ dto.fechaPago \notin {Null, Epoch}
         /\ dto.totalPagado # Null

-----------------------------------------------------------------------------
(***************************************************************************)
(* Properties.                                                             *)
(***************************************************************************)
PayTypeOK ==
    /\ payments \in [Payments -> PaymentRow \cup {Null}]
    /\ pay \in [PayRequests -> PayRequest]

\* The dashboard groups payments by the property and the tenant they carry:
\* these copies, and the owner, are those of the contract, although the
\* contract may be patched or cancelled while the payment is created.
CopiesAgree ==
    \A p \in Payments : Present(payments, p) =>
        LET row == payments[p]
            contract == contracts[row.contractId]
        IN  /\ Present(contracts, row.contractId)
            /\ contract.ownerId = row.ownerId
            /\ contract.tenantId = row.tenantId
            /\ contract.propertyId = row.propertyId

\* "fechaPago es obligatoria cuando el estado es PAGADO": a paid payment has a
\* date, not the one new Date(null) makes, and a total, for every interleaving
\* of PATCHes that decide from what they have read.
PaidIsComplete ==
    \A p \in Payments :
        Present(payments, p) /\ payments[p].estado = "PAGADO" =>
            /\ payments[p].fechaPago \notin {Null, Epoch}
            /\ payments[p].totalPagado # Null

\* p is cancelled, and no PATCH or DELETE that read it earlier is still to write.
PaymentSettled(p) ==
    /\ Present(payments, p)
    /\ payments[p].estado = "CANCELADO"
    /\ \A r \in PayRequests : pay[r].pc \in {"write", "softDelete"} => pay[r].id # p

\* "No se puede modificar un pago cancelado": once the handlers that read a
\* payment before it was cancelled have ended, it is final.  A PATCH in flight
\* when the payment is cancelled does change it.
CancelledPaymentsSettle ==
    [][\A p \in Payments : PaymentSettled(p) =>
          PaymentSettled(p)' /\ payments'[p] = payments[p]]_<<vars, payVars>>

\* The client has given the mora of p, and no PATCH that read p without one is
\* still to write the one it computed.
MoraSettled(p) ==
    /\ Present(payments, p)
    /\ payments[p].mora = "given"
    /\ \A r \in PayRequests :
         PayAt(r, "write") /\ pay[r].id = p => pay[r].data.mora # "computed"

\* The same for the total.
TotalSettled(p) ==
    /\ Present(payments, p)
    /\ payments[p].totalPagado = "given"
    /\ \A r \in PayRequests :
         PayAt(r, "write") /\ pay[r].id = p => pay[r].data.totalPagado # "computed"

\* An amount a client has given gives way to no computed one, for overlapping
\* PATCHes too, but for one that read the row before the amount was there;
\* only a client can take it back, with a null.
GivenAmountsSettle ==
    [][\A p \in Payments :
          /\ MoraSettled(p) => MoraSettled(p)' \/ payments'[p].mora = Null
          /\ TotalSettled(p) => TotalSettled(p)' \/ payments'[p].totalPagado = Null
      ]_<<vars, payVars>>
=============================================================================
