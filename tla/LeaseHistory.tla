---------------------------- MODULE LeaseHistory ----------------------------
(***************************************************************************)
(* Leases with two history variables: which contracts and properties have  *)
(* been through one of the overlaps, or the bodies, that ContractsService  *)
(* does not guard against.  The handlers are those of Leases; every other  *)
(* interleaving of theirs must leave the dates of a contract in order and  *)
(* the estado of a property in agreement with its contracts.               *)
(***************************************************************************)
EXTENDS Leases

VARIABLES
    skewed,  \* contracts whose dates may be out of order
    crossed  \* properties whose estado may disagree with their contracts

-----------------------------------------------------------------------------
(***************************************************************************)
(* What is not guarded against, told from the handlers in flight.          *)
(***************************************************************************)
Patching(r, c) == req[r].pc \in PatchSteps /\ req[r].id = c

Dates(dto) == {dto.fechaInicio, dto.fechaFin}

\* A PATCH gives null for a date, which is written as Epoch unchecked; or a
\* PATCH of one date, compared with the other one as it was read, is in
\* flight together with another PATCH of a date.
Skewing(c) ==
    \E r \in Requests :
        /\ Patching(r, c)
        /\ \/ Null \in Dates(req[r].dto)
           \/ /\ Undefined \in Dates(req[r].dto)
              /\ \E s \in Requests :
                    s # r /\ Patching(s, c) /\ Dates(req[s].dto) # {Undefined}
              /\ Dates(req[r].dto) # {Undefined}

Creating(r, p) == req[r].pc \in CreateSteps /\ req[r].dto.propertyId = p

Cancelling(r, p) == req[r].pc \in CancelSteps /\ req[r].propertyId = p

\* Two POSTs for p, or two DELETEs of one contract of p, are in flight
\* together; or a body sets an estado by hand.
Crossing(p) ==
    \/ \E r, s \in Requests : r # s /\ Creating(r, p) /\ Creating(s, p)
    \/ \E r, s \in Requests :
          r # s /\ Cancelling(r, p) /\ Cancelling(s, p) /\ req[r].id = req[s].id
    \/ \E r \in Requests : Creating(r, p) /\ ~IsActivo(req[r].dto)
    \/ \E r \in Requests, c \in Contracts :
          Patching(r, c) /\ contracts[c].propertyId = p /\ req[r].dto.estado # Undefined
    \/ \E r \in Requests : At(r, "propertyWrite") /\ req[r].id = p

HistoryInit == Init /\ skewed = {} /\ crossed = {}

HistoryNext ==
    /\ Next
    /\ skewed' = skewed \cup {c \in Contracts : Skewing(c)'}
    /\ crossed' = crossed \cup {p \in Properties : Crossing(p)'}

historyVars == <<properties, tenants, contracts, req, skewed, crossed>>

HistorySpec == HistoryInit /\ [][HistoryNext]_historyVars

-----------------------------------------------------------------------------
(***************************************************************************)
(* Properties.                                                             *)
(***************************************************************************)

\* A contract ends after it starts ("La fecha de fin debe ser posterior a la
\* fecha de inicio"), across POST and any number of PATCHes of one date or of
\* both, in flight together with all other handlers and failing anywhere,
\* unless two PATCHes of its dates overlapped or one of them gave null.
DatesOrdered ==
    \A c \in Contracts \ skewed :
        Present(contracts, c) => contracts[c].fechaInicio < contracts[c].fechaFin

\* The estado of a property, which the dashboard counts as occupancy, agrees
\* with its contracts, although POST and DELETE of different contracts overlap
\* and the DELETE writes an estado it chose from an earlier read; unless two
\* POSTs for the property or two DELETEs of one contract overlapped, or an
\* estado was set by hand.
OccupancyAgrees ==
    \A p \in Properties \ crossed : Present(properties, p) =>
        (properties[p].estado = "OCUPADA" <=> HasActiveContract(p))
=============================================================================
