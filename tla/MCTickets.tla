----------------------------- MODULE MCTickets -----------------------------
(***************************************************************************)
(* The instance of Tickets for TLC.                                        *)
(***************************************************************************)
EXTENDS Tickets, TLC

CONSTANTS a1, s1, x1, n1, p1, p2, t1, t2, r1, r2

\* An account, a SUPER_ADMIN with an account of its own, and a tenant of a1's
\* with a user; n1 has not registered yet.
MCUsers ==
    LET user(role, tenant) == [role |-> role, organizationId |-> Null,
                               linkedTenantId |-> tenant]
    IN  (a1 :> user("ADMIN", Null)) @@ (s1 :> user("SUPER_ADMIN", Null))
          @@ (x1 :> user("INQUILINO", t1)) @@ (n1 :> Null)

\* Whoever registers may name a role, or none.
MCNewRoles == {"INQUILINO", "SUPER_ADMIN", Undefined}

MCPropertyOwner == (p1 :> a1) @@ (p2 :> s1)
MCTenantOwner == (t1 :> a1) @@ (t2 :> s1)

MCCreateDtos ==
    {[propertyId |-> p1, tenantId |-> t1, prioridad |-> "URGENTE"],
     [propertyId |-> p1, tenantId |-> t2, prioridad |-> "MEDIA"],
     [propertyId |-> p2, tenantId |-> Undefined, prioridad |-> "MEDIA"]}

MCPatchDtos ==
    {[estado |-> "RESUELTO", fechaResolucion |-> Undefined],
     [estado |-> "RESUELTO", fechaResolucion |-> "bad"],
     [estado |-> "CERRADO", fechaResolucion |-> Null],
     [estado |-> Undefined, fechaResolucion |-> "empty"],
     [estado |-> "EN_PROGRESO", fechaResolucion |-> "given"]}

\* The tenant's user joins the staff of a1, is made an ADMIN or unlinked; the
\* SUPER_ADMIN leaves.
MCRoleDtos ==
    {[role |-> "MANTENIMIENTO", organizationId |-> a1, linkedTenantId |-> Undefined],
     [role |-> "ADMIN", organizationId |-> Undefined, linkedTenantId |-> Undefined],
     [role |-> "INQUILINO", organizationId |-> Undefined, linkedTenantId |-> t1]}

RequestSymmetry == Permutations({r1, r2})
=============================================================================
