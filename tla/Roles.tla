------------------------------- MODULE Roles -------------------------------
(***************************************************************************)
(* Who may do what in RentFlowAPI: the roles, the role lists of the        *)
(* endpoints, RolesGuard, and resolveOwnerId, which turns a caller into    *)
(* the owner filter of the queries.                                        *)
(***************************************************************************)
CONSTANTS
    Undefined, \* an absent field or argument
    Null

StaffRoles == {"FINANZAS", "VENDEDOR", "MANTENIMIENTO"}
OwnerRoles == {"SUPER_ADMIN", "ADMIN", "CLIENTE"}
Role == StaffRoles \cup OwnerRoles \cup {"INQUILINO"}

AdminOnly == {"ADMIN", "SUPER_ADMIN"}
CanManageMaintenance == OwnerRoles \cup {"MANTENIMIENTO"}
CanManageLeads == OwnerRoles \cup {"VENDEDOR"}
CanManageProperties == OwnerRoles

\* RolesGuard.canActivate: an endpoint without a list is open to every role.
Allows(required, role) ==
    \/ required = {}
    \/ role = "SUPER_ADMIN"
    \/ role \in required

\* resolveOwnerId, for the user u whose row is user: whose rows the queries of
\* this caller select; Undefined selects those of every account.
ResolveOwnerId(u, user) ==
    IF user.role \in {"SUPER_ADMIN", "INQUILINO"} THEN Undefined
    ELSE IF user.role \in StaffRoles /\ user.organizationId # Null THEN user.organizationId
    ELSE u

\* resolveOwnerId(user) ?? user.id
OwnerOrSelf(u, user) ==
    IF ResolveOwnerId(u, user) = Undefined THEN u ELSE ResolveOwnerId(u, user)

\* where: { ...(ownerId && { ownerId }) }
OwnerMatches(owner, filter) == filter = Undefined \/ owner = filter
=============================================================================
