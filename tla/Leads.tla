------------------------------- MODULE Leads -------------------------------
(***************************************************************************)
(* The leads of RentFlowAPI: LeadsService for the staff of an account and  *)
(* PublicLeadsService for the form of the public site, which has no login  *)
(* and must find the account that a lead belongs to.                       *)
(***************************************************************************)
EXTENDS Catalogue

CONSTANTS
    LeadIds,      \* ids of leads that may be created (bounds their number)
    LeadDtos,     \* bodies of PATCH /leads/:id
    DefaultOwner  \* the oldest ADMIN or SUPER_ADMIN, or Null

LeadStatus == {"NUEVO", "CONTACTADO", "VISITA_AGENDADA", "VISITA_REALIZADA", "NEGOCIACION",
               "GANADO", "PERDIDO"}

LeadRow == [ownerId : Users, propertyId : Properties \cup {Null}, estado : LeadStatus,
            isActive : BOOLEAN]

LeadNotice == [userId : Users, what : {"nuevo", "VISITA_AGENDADA", "GANADO"}, lead : LeadIds]

ASSUME LeadsAssumption ==
    /\ Null \notin LeadRow /\ Null \notin LeadStatus /\ Undefined \notin LeadStatus
    /\ DefaultOwner \in Users \cup {Null}
    /\ LeadDtos \subseteq [propertyId : Properties \cup {Undefined, Null},
                           estado : LeadStatus \cup {Undefined, Null}]

VARIABLES
    leads, \* leads[l]: the row of lead l, or Null
    told   \* the notices stored for the accounts

leadVars == <<leads, told>>

Unchanged == UNCHANGED <<props, arrived, overlapped, leadVars>>

\* notify, which nobody waits for: each call is stored, sooner or later, or lost.
Notify(calls) == \E stored \in SUBSET calls : told' = told \cup stored

-----------------------------------------------------------------------------
(***************************************************************************)
(* POST /leads and POST /public/leads.                                     *)
(***************************************************************************)
\* A falsy propertyId (Undefined) is no property.
LeadStart(r, owner, p) ==
    /\ Begin(r, IF p = Undefined THEN "leadInsert" ELSE "leadProperty", Null, owner, p, Null)
    /\ UNCHANGED <<props, leadVars>>

FormStart(r, p) ==
    /\ Begin(r, "leadOwner", Null, Undefined, p, Null)
    /\ UNCHANGED <<props, leadVars>>

\* resolveOwnerId: the owner of the property the visitor sees, else the oldest
\* administrator.  Null: there is none, and the form is refused.
FormOwner(p) ==
    IF p = Undefined THEN DefaultOwner
    ELSE IF Shown(p) THEN props[p].ownerId
    ELSE Null

FormRead(r) ==
    LET h == req[r] IN
    /\ At(r, "leadOwner")
    /\ IF FormOwner(h.id) = Null THEN Answer(r)
       ELSE req' = [req EXCEPT ![r].owner = FormOwner(h.id),
                               ![r].pc = IF h.id = Undefined THEN "leadInsert" ELSE "leadProperty"]
    /\ Unchanged

LeadProperty(r) ==
    /\ At(r, "leadProperty")
    /\ IF PropertyFound(req[r].id, req[r].owner) THEN Continue(r, "leadInsert") ELSE Answer(r)
    /\ Unchanged

NewLead(owner, p) ==
    [ownerId |-> owner, propertyId |-> IF p = Undefined THEN Null ELSE p,
     estado |-> "NUEVO", isActive |-> TRUE]

\* Bound: a request waits here when no id is left.
LeadInsert(r) ==
    LET h == req[r] IN
    /\ At(r, "leadInsert")
    /\ \E l \in LeadIds :
         /\ leads[l] = Null
         /\ leads' = [leads EXCEPT ![l] = NewLead(h.owner, h.id)]
         /\ Notify({[userId |-> h.owner, what |-> "nuevo", lead |-> l]})
    /\ Answer(r)
    /\ UNCHANGED <<props, arrived, overlapped>>

-----------------------------------------------------------------------------
(***************************************************************************)
(* PATCH and DELETE /leads/:id.                                            *)
(***************************************************************************)
LeadFound(l, owner) == leads[l].isActive /\ leads[l].ownerId = owner

LeadPatchStart(r, l, owner, dto) ==
    /\ leads[l] # Null
    /\ Begin(r, "leadFind", Null, owner, l, dto)
    /\ UNCHANGED <<props, leadVars>>

LeadRemoveStart(r, l, owner) ==
    /\ leads[l] # Null
    /\ Begin(r, "leadFindRemove", Null, owner, l, Null)
    /\ UNCHANGED <<props, leadVars>>

\* Mutant: a lead is moved to any property.
MovesNever(dto, row) == FALSE

\* The body names another property than the row that was read.
Moves(dto, row) == dto.propertyId \in Properties /\ dto.propertyId # row.propertyId

\* seen: the estado that was read.
LeadFind(r) ==
    LET h == req[r] IN
    /\ At(r, "leadFind")
    /\ IF ~LeadFound(h.id, h.owner) THEN Answer(r)
       ELSE ContinueWith(r, IF Moves(h.dto, leads[h.id]) THEN "leadMove" ELSE "leadWrite",
                         leads[h.id].estado)
    /\ Unchanged

LeadMove(r) ==
    /\ At(r, "leadMove")
    /\ IF PropertyFound(req[r].dto.propertyId, req[r].owner) THEN Continue(r, "leadWrite")
       ELSE Answer(r)
    /\ Unchanged

LeadPatched(row, dto) ==
    [row EXCEPT !.propertyId = IfGiven(dto.propertyId, @), !.estado = IfGiven(dto.estado, @)]

\* The database refuses to connect no property and a null estado.
LeadWrite(r) ==
    LET h == req[r] IN
    /\ At(r, "leadWrite")
    /\ h.dto.propertyId # Null /\ h.dto.estado # Null
    /\ leads' = [leads EXCEPT ![h.id] = LeadPatched(@, h.dto)]
    /\ Notify(IF h.dto.estado \in {"VISITA_AGENDADA", "GANADO"} \ {h.seen}
                THEN {[userId |-> h.owner, what |-> h.dto.estado, lead |-> h.id]} ELSE {})
    /\ Answer(r)
    /\ UNCHANGED <<props, arrived, overlapped>>

LeadFindRemove(r) ==
    /\ At(r, "leadFindRemove")
    /\ IF LeadFound(req[r].id, req[r].owner) THEN Continue(r, "leadRemove") ELSE Answer(r)
    /\ Unchanged

LeadRemove(r) ==
    /\ At(r, "leadRemove")
    /\ leads' = [leads EXCEPT ![req[r].id].isActive = FALSE]
    /\ Answer(r)
    /\ UNCHANGED <<props, arrived, overlapped, told>>

LeadSteps == {"leadOwner", "leadProperty", "leadInsert", "leadFind", "leadMove", "leadWrite",
              "leadFindRemove", "leadRemove"}

LeadFail(r) ==
    /\ req[r].pc \in LeadSteps
    /\ Answer(r)
    /\ Unchanged

LeadsInit ==
    /\ leads = [l \in LeadIds |-> Null]
    /\ told = {}

LeadsNext ==
    \E r \in Requests :
      \/ \E p \in Properties \cup {Undefined} :
           FormStart(r, p) \/ \E owner \in Users : LeadStart(r, owner, p)
      \/ \E l \in LeadIds, owner \in Users :
           LeadRemoveStart(r, l, owner) \/ \E dto \in LeadDtos : LeadPatchStart(r, l, owner, dto)
      \/ FormRead(r) \/ LeadProperty(r) \/ LeadInsert(r)
      \/ LeadFind(r) \/ LeadMove(r) \/ LeadWrite(r)
      \/ LeadFindRemove(r) \/ LeadRemove(r)
      \/ LeadFail(r)

-----------------------------------------------------------------------------
(***************************************************************************)
(* Properties.                                                             *)
(***************************************************************************)
\* A lead, the property it is about and the notices about it belong to one
\* account, whether the staff or a visitor brought it and whatever becomes of
\* the property's publication between the reads of the form.
LeadAccountAgrees ==
    /\ \A l \in LeadIds : leads[l] # Null /\ leads[l].propertyId # Null =>
         /\ Exists(leads[l].propertyId)
         /\ props[leads[l].propertyId].ownerId = leads[l].ownerId
    /\ \A notice \in told :
         leads[notice.lead] # Null /\ notice.userId = leads[notice.lead].ownerId
=============================================================================
