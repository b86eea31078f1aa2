------------------------------- MODULE MCSite -------------------------------
(***************************************************************************)
(* The instance of Site for TLC.                                           *)
(***************************************************************************)
EXTENDS Site, TLC

CONSTANTS u1, u2, p1, p2, i1, i2, i3, r1, r2, r3

\* One property at the start, the id of another.
MCFirstOwner == (p1 :> u1) @@ (p2 :> Null)

\* Bodies that publish, that end the publication and change the picture, and
\* that take the picture away.
MCPropertyDtos ==
    {[publicado |-> TRUE, imagenPrincipal |-> Undefined],
     [publicado |-> Undefined, imagenPrincipal |-> Null],
     [publicado |-> FALSE, imagenPrincipal |-> "external"]}

\* Bodies that move a lead, that advance it, and that do both.
MCLeadDtos ==
    {[propertyId |-> p1, estado |-> Undefined],
     [propertyId |-> Undefined, estado |-> "VISITA_AGENDADA"],
     [propertyId |-> p2, estado |-> "GANADO"]}

SiteSymmetry == Permutations({i1, i2, i3}) \cup Permutations({r1, r2, r3})
=============================================================================
