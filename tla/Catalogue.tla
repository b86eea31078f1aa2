----------------------------- MODULE Catalogue -----------------------------
(***************************************************************************)
(* The public catalogue of RentFlowAPI: what PropertiesService writes of a *)
(* property that visitors see - publicado, publicadoEn, imagenPrincipal,   *)
(* isActive - and PublicPropertiesService, which selects it.               *)
(*                                                                         *)
(* The contracts that occupy a property are in Leases; the pictures        *)
(* (Images) and the leads (Leads) share the handlers of this module.       *)
(***************************************************************************)
EXTENDS FiniteSets, Naturals, Roles

CONSTANTS
    Users,
    Properties,   \* ids of properties (bounds their number)
    Pictures,     \* picture files, under names that are never used twice
    Requests,     \* requests in flight at once
    PropertyDtos, \* bodies of PATCH /properties/:id
    FirstOwner,   \* the owner of each property there is at the start, or Null
    MaxArrivals   \* how many requests arrive in all (a bound)

\* imagenPrincipal given by a client is the URL of a picture stored elsewhere;
\* the path of an uploaded one is no URL to @IsUrl.
MainPictures == Pictures \cup {"external", Null}

PropertyRow == [ownerId : Users, publicado : BOOLEAN, publicadoEn : {"dated", Null},
                imagenPrincipal : MainPictures, isActive : BOOLEAN]

\* The owner filter of a caller of PropertiesController.
Scopes == Users \cup {Undefined}

ASSUME CatalogueAssumption ==
    /\ Null # Undefined
    /\ Users \cap {Null, Undefined} = {}
    /\ Null \notin Properties /\ Undefined \notin Properties
    /\ Pictures \cap {Null, Undefined, "external"} = {}
    /\ Null \notin PropertyRow
    /\ Null \notin BOOLEAN /\ Undefined \notin BOOLEAN
    /\ {Null, Undefined} \cap {"dated", "external", "published"} = {}
    /\ MaxArrivals \in Nat
    /\ FirstOwner \in [Properties -> Users \cup {Null}]
    /\ PropertyDtos \subseteq [publicado : BOOLEAN \cup {Undefined, Null},
                               imagenPrincipal : {"external", Undefined, Null}]

VARIABLES
    props,     \* props[p]: the row of property p, or Null
    req,       \* req[r]: where the handler of request r is, and its locals
    arrived,   \* how many requests have arrived
    overlapped \* history: the properties and users two of whose handlers have
               \* been in flight at once

Idle == [pc |-> "idle"]

At(r, step) == req[r].pc = step

Answer(r) == req' = [req EXCEPT ![r] = Idle]

Continue(r, step) == req' = [req EXCEPT ![r].pc = step]

ContinueWith(r, step, seen) == req' = [req EXCEPT ![r].pc = step, ![r].seen = seen]

InFlightOn(x) == {r \in Requests : ~At(r, "idle") /\ req[r].on = x}

\* A request arrives.  on: the property or the user it changes, or Null; owner:
\* the account its queries are filtered by; id, dto: what it names and carries.
Begin(r, step, on, owner, id, dto) ==
    /\ At(r, "idle")
    /\ arrived < MaxArrivals
    /\ arrived' = arrived + 1
    /\ overlapped' = IF on # Null /\ InFlightOn(on) # {} THEN overlapped \cup {on} ELSE overlapped
    /\ req' = [req EXCEPT ![r] = [pc |-> step, on |-> on, owner |-> owner, id |-> id,
                                  dto |-> dto, seen |-> Null]]

Exists(p) == props[p] # Null

\* findPropertyByOwner and findById
PropertyFound(p, owner) ==
    Exists(p) /\ props[p].isActive /\ OwnerMatches(props[p].ownerId, owner)

\* The site without login: where { publicado: true, isActive: true }.
Shown(p) == Exists(p) /\ props[p].publicado /\ props[p].isActive

-----------------------------------------------------------------------------
(***************************************************************************)
(* POST, PATCH and DELETE /properties.  What they log is left out.         *)
(***************************************************************************)
\* Mutant: a column without its default.
NewPropertyNoDefault(owner, picture) ==
    [ownerId |-> owner, publicado |-> Null, publicadoEn |-> Null,
     imagenPrincipal |-> picture, isActive |-> TRUE]

NewProperty(owner, picture) ==
    [ownerId |-> owner, publicado |-> FALSE, publicadoEn |-> Null,
     imagenPrincipal |-> picture, isActive |-> TRUE]

PropertyCreate(owner, p, picture) ==
    /\ arrived < MaxArrivals
    /\ arrived' = arrived + 1
    /\ ~Exists(p)
    /\ props' = [props EXCEPT ![p] = NewProperty(owner, picture)]
    /\ UNCHANGED <<req, overlapped>>

PropertyPatchStart(r, p, owner, dto) ==
    /\ Exists(p)
    /\ Begin(r, "propertyFind", p, owner, Null, dto)
    /\ UNCHANGED props

PropertyRemoveStart(r, p, owner) ==
    /\ Exists(p)
    /\ Begin(r, "propertyFindRemove", p, owner, Null, Null)
    /\ UNCHANGED props

Publication(row) == IF row.publicado THEN "published" ELSE Null

PropertyFind(r, step, next) ==
    LET h == req[r] IN
    /\ At(r, step)
    /\ IF PropertyFound(h.on, h.owner) THEN ContinueWith(r, next, Publication(props[h.on]))
       ELSE Answer(r)
    /\ UNCHANGED <<props, arrived, overlapped>>

\* Mutant: the date survives the end of the publication.
PublicadoEnKept(h) == IF h.dto.publicado = TRUE /\ h.seen = Null THEN "dated" ELSE Undefined

\* "Al publicar por primera vez, registrar la fecha; al despublicar, limpiarla."
\* seen: the publication as it was read.
PublicadoEn(h) ==
    IF h.dto.publicado = TRUE /\ h.seen = Null THEN "dated"
    ELSE IF h.dto.publicado = FALSE THEN Null
    ELSE Undefined

IfGiven(value, old) == IF value = Undefined THEN old ELSE value

PropertyPatched(row, h) ==
    [row EXCEPT !.publicado = IfGiven(h.dto.publicado, @),
                !.publicadoEn = IfGiven(PublicadoEn(h), @),
                !.imagenPrincipal = IfGiven(h.dto.imagenPrincipal, @)]

\* The database refuses a null publicado.
PropertyWrite(r) ==
    LET h == req[r] IN
    /\ At(r, "propertyWrite")
    /\ h.dto.publicado # Null
    /\ props' = [props EXCEPT ![h.on] = PropertyPatched(@, h)]
    /\ Answer(r)
    /\ UNCHANGED <<arrived, overlapped>>

PropertyRemove(r) ==
    /\ At(r, "propertyRemove")
    /\ props' = [props EXCEPT ![req[r].on].isActive = FALSE]
    /\ Answer(r)
    /\ UNCHANGED <<arrived, overlapped>>

CatalogueSteps == {"propertyFind", "propertyWrite", "propertyFindRemove", "propertyRemove"}

\* A call of the database fails before the only write of the handler.
PropertyFail(r) ==
    /\ req[r].pc \in CatalogueSteps
    /\ Answer(r)
    /\ UNCHANGED <<props, arrived, overlapped>>

CatalogueInit ==
    /\ props = [p \in Properties |->
                  IF FirstOwner[p] = Null THEN Null ELSE NewProperty(FirstOwner[p], Null)]
    /\ req = [r \in Requests |-> Idle]
    /\ arrived = 0
    /\ overlapped = {}

CatalogueNext ==
    \/ \E owner \in Users, p \in Properties, picture \in {"external", Null} :
         PropertyCreate(owner, p, picture)
    \/ \E r \in Requests :
         \/ \E p \in Properties, owner \in Scopes :
              \/ \E dto \in PropertyDtos : PropertyPatchStart(r, p, owner, dto)
              \/ PropertyRemoveStart(r, p, owner)
         \/ PropertyFind(r, "propertyFind", "propertyWrite") \/ PropertyWrite(r)
         \/ PropertyFind(r, "propertyFindRemove", "propertyRemove") \/ PropertyRemove(r)
         \/ PropertyFail(r)

-----------------------------------------------------------------------------
(***************************************************************************)
(* Properties.                                                             *)
(***************************************************************************)
\* A property that is not published has no publicadoEn, however its handlers
\* interleave; a published one has, unless two of its handlers overlapped.
\* (publicado is decided by the body, publicadoEn by the publicado that was
\* read: of two PATCHes the one that keeps it published writes no date.)
PublicationDated ==
    \A p \in Properties : Exists(p) =>
        /\ ~props[p].publicado => props[p].publicadoEn = Null
        /\ props[p].publicado /\ p \notin overlapped => props[p].publicadoEn # Null
=============================================================================
