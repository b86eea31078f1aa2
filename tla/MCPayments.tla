----------------------------- MODULE MCPayments -----------------------------
(***************************************************************************)
(* Payments for TLC: the bodies the clients send.                          *)
(***************************************************************************)
EXTENDS Payments, TLC

CONSTANTS p1, p2, t1, t2, c1, c2, m1, m2, y1, y2, s1, s2

\* One kind of contract.
LeasePosts == {[propertyId |-> p1, tenantId |-> t1, fechaInicio |-> 1, fechaFin |-> 2,
                estado |-> Undefined]}

\* A PATCH that names another tenant.
LeasePatches == {[propertyId |-> Undefined, tenantId |-> t2, fechaInicio |-> Undefined,
                  fechaFin |-> Undefined, estado |-> "VENCIDO"]}

NoPropertyPatches == {}

\* POST /payments for contract c1.
Pago(e, m, fecha) == [estado |-> e, contractId |-> c1, periodo |-> m, fechaPago |-> fecha,
                      mora |-> Undefined, totalPagado |-> Undefined]

NoFields == [estado |-> Undefined, fechaPago |-> Undefined,
             mora |-> Undefined, totalPagado |-> Undefined]

Pay == [NoFields EXCEPT !.estado = "PAGADO", !.fechaPago = 3]
PayDated == [NoFields EXCEPT !.estado = "PAGADO"]
Date == [NoFields EXCEPT !.fechaPago = 3]
Overdue == [NoFields EXCEPT !.estado = "VENCIDO"]
Fine == [NoFields EXCEPT !.mora = "given"]
Total == [NoFields EXCEPT !.totalPagado = "given"]
Cancel == [NoFields EXCEPT !.estado = "CANCELADO"]
Forgive == [NoFields EXCEPT !.mora = Null]

TogetherPosts == {Pago(Undefined, m1, Undefined), Pago("PAGADO", m1, 3)}
TogetherPatches == {Pay, PayDated, Date, Overdue, Fine, Total, Cancel, Forgive}

PaySymmetry == Permutations({y1, y2}) \cup Permutations({s1, s2})
=============================================================================
