--------------------------- MODULE MCLeaseHistory ---------------------------
(***************************************************************************)
(* The instance of LeaseHistory for TLC.                                   *)
(***************************************************************************)
EXTENDS LeaseHistory, MCLeases

\* lease_overlaps: dates given one at a time, both, and null, and an estado of
\* each table set by hand.
OverlapPosts == {Post(p1, t1, Undefined), Post(p1, t1, "VENCIDO")}
OverlapPatches == {PatchDates(Undefined, 3), PatchDates(2, Undefined), PatchDates(Undefined, 2),
                   PatchDates(Undefined, Null), PatchDates(1, 2),
                   PatchEstado("CANCELADO")}
Maintenance == {"MANTENIMIENTO"}
=============================================================================
