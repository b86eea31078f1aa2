------------------------------ MODULE MCLeases ------------------------------
(***************************************************************************)
(* Instances of Leases for TLC: the bodies the clients of each run send.   *)
(***************************************************************************)
EXTENDS Leases, TLC

CONSTANTS p1, p2, t1, t2, c1, c2, c3, r1, r2

\* POST /contracts for property p and tenant t, from day 1 to day 2.
Post(p, t, e) == [propertyId |-> p, tenantId |-> t,
                  fechaInicio |-> 1, fechaFin |-> 2, estado |-> e]

\* PATCH /contracts/:id: nothing but the fields given.
NoFields == [propertyId |-> Undefined, tenantId |-> Undefined,
             fechaInicio |-> Undefined, fechaFin |-> Undefined, estado |-> Undefined]
PatchDates(inicio, fin) == [NoFields EXCEPT !.fechaInicio = inicio, !.fechaFin = fin]
PatchEstado(e) == [NoFields EXCEPT !.estado = e]

NoPatches == {}
AllPropertyStatus == PropertyStatus

\* lease_accounts: properties and tenants of either account; a PATCH may name
\* others than the contract's.
AccountsPosts == {Post(p1, t1, Undefined), Post(p1, t2, "PROXIMO_A_VENCER")}
AccountsPatches == {[PatchDates(2, 3) EXCEPT !.propertyId = p2, !.tenantId = t2],
                    PatchEstado("CANCELADO")}

\* lease_no_overlap: contracts that start ACTIVO or already over, and patches
\* that end them or change nothing, one of which names another property.
TwoProperties == {Post(p1, t1, Undefined), Post(p1, t1, "VENCIDO"), Post(p2, t1, "ACTIVO")}
EndingPatches == {[NoFields EXCEPT !.propertyId = p2], PatchEstado("VENCIDO"),
                  PatchEstado("CANCELADO")}

\* lease_serial: every estado, and dates given one at a time.
AnyPosts == {Post(p1, t1, e) : e \in ContractStatus}
AnyPatches == {PatchEstado(e) : e \in ContractStatus}
                \cup {PatchDates(Undefined, 3), PatchDates(2, Undefined), PatchDates(3, Undefined)}

\* lease_double_active, lease_late_patch.
DefaultPosts == {Post(p1, t1, Undefined)}
DatePatches == {PatchDates(Undefined, 3)}

\* Ids of rows of one kind, handlers and codes are interchangeable.
RowsAndRequests == Permutations({c1, c2}) \cup Permutations({r1, r2})
                     \cup Permutations(Codes)
MoreRows == Permutations({c1, c2, c3}) \cup Permutations({r1, r2}) \cup Permutations(Codes)
=============================================================================
