----------------------------- MODULE SiteProofs -----------------------------
(***************************************************************************)
(* Proofs about Site, for every set of users, properties, pictures, leads, *)
(* requests and bodies.                                                    *)
(*                                                                         *)
(* There is one invariant for each question, every one on top of IInv: the *)
(* types, with what each handler learnt at its earlier awaits and still    *)
(* relies on.  No property or lead is handed over or deleted (KeepsRows),  *)
(* so that stays true whatever the others write in between.                *)
(***************************************************************************)
EXTENDS Site, TLAPS

\* What the handler with locals h relies on.
LocalOK(h) ==
    /\ h.pc \in CatalogueSteps \cup UploadSteps \cup DeleteSteps =>
         h.on \in Properties /\ Exists(h.on)
    /\ h.pc \in {"propertyFind", "propertyWrite"} => h.dto \in PropertyDtos
    /\ h.pc = "propertyWrite" => h.seen \in {"published", Null}
    /\ h.pc \in {"rows", "main"} => h.id \subseteq used
    /\ h.pc \in DeleteSteps => h.id \in Pictures \cap used
    /\ h.pc \in DeleteSteps \ {"imageFind"} => h.id \in lost
    /\ h.pc = "setMain" => h.seen \in Pictures \cup {Null}
    /\ h.pc \in AvatarSteps => h.on \in Users
    /\ h.pc = "avatarWrite" => h.id \in used
    /\ h.pc = "leadOwner" => h.id \in Properties \cup {Undefined}
    /\ h.pc \in LeadSteps \ {"leadOwner"} => h.owner \in Users
    /\ h.pc = "leadProperty" => h.id \in Properties
    /\ h.pc = "leadInsert" =>
         \/ h.id = Undefined
         \/ h.id \in Properties /\ Exists(h.id) /\ props[h.id].ownerId = h.owner
    /\ h.pc \in {"leadFind", "leadMove", "leadWrite", "leadFindRemove", "leadRemove"} =>
         h.id \in LeadIds /\ leads[h.id] # Null
    /\ h.pc \in {"leadFind", "leadMove", "leadWrite"} => h.dto \in LeadDtos
    /\ h.pc \in {"leadMove", "leadWrite"} => leads[h.id].ownerId = h.owner
    /\ h.pc = "leadMove" => h.dto.propertyId \in Properties
    /\ h.pc = "leadWrite" /\ h.dto.propertyId \in Properties =>
         Exists(h.dto.propertyId) /\ props[h.dto.propertyId].ownerId = h.owner

IInv ==
    /\ SiteTypeOK
    /\ \A r \in Requests : LocalOK(req[r])
    /\ \A i \in Pictures : gallery[i] # Null => i \in used /\ Exists(gallery[i])
    /\ LeadAccountAgrees

\* A property or a lead stays, and stays of its account; names are not forgotten.
KeepsRows ==
    /\ \A p \in Properties : Exists(p) =>
         props'[p] # Null /\ props'[p].ownerId = props[p].ownerId
    /\ \A l \in LeadIds : leads[l] # Null =>
         leads'[l] # Null /\ leads'[l].ownerId = leads[l].ownerId
    /\ used \subseteq used' /\ lost \subseteq lost'

\* New rows are of properties there are, and of names that were generated.
GalleryOK ==
    \A i \in Pictures :
      gallery'[i] \in {Null, gallery[i]} \/ (i \in used /\ Exists(gallery'[i]))

-----------------------------------------------------------------------------
(***************************************************************************)
(* What survives a step that keeps the rows.                               *)
(***************************************************************************)
\* Idle handlers rely on nothing.
LEMMA IdleOK == Idle \in IdleRequest /\ LocalOK(Idle)
  BY DEF Idle, IdleRequest, LocalOK, CatalogueSteps, UploadSteps, DeleteSteps, AvatarSteps,
         LeadSteps

\* A handler may still rely on what it learnt.
LEMMA LocalKept ==
    ASSUME NEW h, LocalOK(h), KeepsRows
    PROVE  LocalOK(h)'
  <1> USE DEF KeepsRows, Exists
  <1>1. /\ (h.pc \in CatalogueSteps \cup UploadSteps \cup DeleteSteps =>
              h.on \in Properties /\ Exists(h.on))'
        /\ (h.pc \in {"rows", "main"} => h.id \subseteq used)'
        /\ (h.pc \in DeleteSteps => h.id \in Pictures \cap used)'
        /\ (h.pc \in DeleteSteps \ {"imageFind"} => h.id \in lost)'
        /\ (h.pc = "avatarWrite" => h.id \in used)'
    BY DEF LocalOK
  <1>2. (h.pc = "leadInsert" =>
           \/ h.id = Undefined
           \/ h.id \in Properties /\ Exists(h.id) /\ props[h.id].ownerId = h.owner)'
    BY DEF LocalOK
  <1>3. /\ (h.pc \in {"leadFind", "leadMove", "leadWrite", "leadFindRemove", "leadRemove"} =>
              h.id \in LeadIds /\ leads[h.id] # Null)'
        /\ (h.pc \in {"leadMove", "leadWrite"} => leads[h.id].ownerId = h.owner)'
    BY DEF LocalOK
  <1>4. (h.pc = "leadWrite" /\ h.dto.propertyId \in Properties =>
           Exists(h.dto.propertyId) /\ props[h.dto.propertyId].ownerId = h.owner)'
    BY DEF LocalOK
  <1>5. QED BY <1>1, <1>2, <1>3, <1>4 DEF LocalOK

\* The types of everything but the requests.
TablesOK ==
    /\ props \in [Properties -> PropertyRow \cup {Null}]
    /\ arrived \in 0 .. MaxArrivals
    /\ overlapped \subseteq Properties \cup Users
    /\ files \subseteq used /\ used \subseteq Pictures /\ lost \subseteq used
    /\ gallery \in [Pictures -> Properties \cup {Null}]
    /\ avatar \in [Users -> MainPictures]
    /\ failed \subseteq Properties \cup Users
    /\ leads \in [LeadIds -> LeadRow \cup {Null}]
    /\ told \subseteq LeadNotice

\* The request r moves to the locals q.
To(r, q) ==
    /\ q \in IdleRequest \cup Handler
    /\ req' = [req EXCEPT ![r] = q]

\* The facts that make a step keep the invariant.
LEMMA StepOK ==
    ASSUME IInv, TablesOK', KeepsRows, GalleryOK, LeadAccountAgrees',
           req' \in [Requests -> IdleRequest \cup Handler],
           \A s \in Requests : req'[s] = req[s] \/ LocalOK(req[s])'
    PROVE  IInv'
  <1>1. SiteTypeOK' BY DEF SiteTypeOK, TablesOK
  <1>2. ASSUME NEW s \in Requests PROVE LocalOK(req[s])'
    <2>1. CASE req'[s] = req[s]
      <3>1. PICK h : h = req[s] OBVIOUS
      <3>2. LocalOK(h)' BY <3>1, LocalKept DEF IInv
      <3>3. QED BY <2>1, <3>1, <3>2 DEF LocalOK
    <2>2. QED BY <2>1
  <1>3. \A i \in Pictures : (gallery[i] # Null => i \in used /\ Exists(gallery[i]))'
    BY DEF IInv, GalleryOK, KeepsRows, TablesOK, Exists
  <1>4. QED BY <1>1, <1>2, <1>3 DEF IInv

\* A move keeps the types of the requests, and what the others rely on.
LEMMA MoveOK ==
    ASSUME IInv, NEW r \in Requests, NEW q, To(r, q), LocalOK(q)'
    PROVE  /\ req' \in [Requests -> IdleRequest \cup Handler]
           /\ \A s \in Requests : req'[s] = req[s] \/ LocalOK(req[s])'
  <1>1. req \in [Requests -> IdleRequest \cup Handler] BY DEF IInv, SiteTypeOK
  <1>2. req' \in [Requests -> IdleRequest \cup Handler] BY <1>1 DEF To
  <1>3. ASSUME NEW s \in Requests PROVE req'[s] = req[s] \/ LocalOK(req[s])'
    <2>1. CASE s = r
      <3>1. req'[s] = q BY <1>1, <2>1 DEF To
      <3>2. QED BY <3>1 DEF LocalOK
    <2>2. CASE s # r BY <1>1, <2>2 DEF To
    <2>3. QED BY <2>1, <2>2
  <1>4. QED BY <1>2, <1>3

\* Rows and notices that stay agree.
LEMMA AccountKept ==
    ASSUME IInv, KeepsRows, UNCHANGED leadVars
    PROVE  LeadAccountAgrees'
  <1>1. \A l \in LeadIds : leads[l] # Null => leads[l] \in LeadRow BY DEF IInv, SiteTypeOK
  <1>2. \A l \in LeadIds : leads[l] # Null /\ leads[l].propertyId # Null =>
          leads[l].propertyId \in Properties
    BY <1>1 DEF LeadRow
  <1>3. QED BY <1>2 DEF IInv, LeadAccountAgrees, KeepsRows, Exists, leadVars

\* A step that writes no row of a property or a lead.
LEMMA QuietStep ==
    ASSUME IInv, TablesOK', UNCHANGED <<props, leadVars>>, GalleryOK,
           used \subseteq used', lost \subseteq lost',
           NEW r \in Requests, NEW q, To(r, q), LocalOK(q)'
    PROVE  IInv'
  <1>1. KeepsRows BY DEF KeepsRows, leadVars, Exists
  <1>2. LeadAccountAgrees' BY <1>1, AccountKept
  <1>3. QED BY <1>1, <1>2, MoveOK, StepOK

\* A step in which only a request moves.
LEMMA RequestStep ==
    ASSUME IInv, UNCHANGED <<props, imageVars, leadVars>>, arrived' \in 0 .. MaxArrivals,
           overlapped' \subseteq Properties \cup Users,
           NEW r \in Requests, NEW q, To(r, q), LocalOK(q)
    PROVE  IInv'
  <1>1. TablesOK' BY DEF IInv, SiteTypeOK, TablesOK, imageVars, leadVars
  <1>2. KeepsRows BY DEF KeepsRows, leadVars, imageVars, Exists
  <1>3. LocalOK(q)' BY <1>2, LocalKept
  <1>4. QED BY <1>1, <1>3, QuietStep DEF imageVars, GalleryOK

\* A handler that answers, or fails.
LEMMA AnswerTo ==
    ASSUME NEW r \in Requests, Answer(r)
    PROVE  To(r, Idle) /\ LocalOK(Idle)
  BY IdleOK DEF Answer, To

\* A request that is not idle has locals of its own.
LEMMA Running ==
    ASSUME IInv, NEW r \in Requests, req[r].pc # "idle"
    PROVE  req[r] \in Handler /\ LocalOK(req[r])
  BY DEF IInv, SiteTypeOK, IdleRequest

Steps == CatalogueSteps \cup UploadSteps \cup DeleteSteps \cup AvatarSteps \cup LeadSteps

\* The locals of a handler that goes on.
LEMMA GoesOn ==
    ASSUME NEW h \in Handler, NEW step \in Steps,
           NEW seen \in {"published"} \cup MainPictures \cup LeadStatus
    PROVE  /\ [h EXCEPT !.pc = step] \in Handler
           /\ [h EXCEPT !.pc = step, !.seen = seen] \in Handler
  <1> DEFINE ids == Pictures \cup (SUBSET Pictures) \cup LeadIds \cup Properties
                      \cup {Undefined, Null}
             seens == {"published"} \cup MainPictures \cup LeadStatus
             dtos == PropertyDtos \cup LeadDtos \cup {Null}
             ons == Properties \cup Users \cup {Null}
  <1>1. Handler = [pc : Steps, on : ons, owner : Scopes, id : ids, dto : dtos, seen : seens]
    BY DEF Handler, Steps
  <1>2. seen \in seens OBVIOUS
  <1> HIDE DEF ids, seens, dtos, ons
  <1>3. QED BY <1>1, <1>2

\* A handler goes on.
LEMMA GoesTo ==
    ASSUME IInv, NEW r \in Requests, req[r].pc # "idle", NEW step \in Steps,
           NEW seen \in {"published"} \cup MainPictures \cup LeadStatus
    PROVE  /\ Continue(r, step) => To(r, [req[r] EXCEPT !.pc = step])
           /\ ContinueWith(r, step, seen) => To(r, [req[r] EXCEPT !.pc = step, !.seen = seen])
  <1>1. req[r] \in Handler BY Running
  <1>2. /\ [req[r] EXCEPT !.pc = step] \in Handler
        /\ [req[r] EXCEPT !.pc = step, !.seen = seen] \in Handler
    BY <1>1, GoesOn
  <1>3. Continue(r, step) => req' = [req EXCEPT ![r] = [req[r] EXCEPT !.pc = step]]
    BY DEF Continue
  <1>4. ContinueWith(r, step, seen) =>
          req' = [req EXCEPT ![r] = [req[r] EXCEPT !.pc = step, !.seen = seen]]
    BY DEF ContinueWith, IInv, SiteTypeOK
  <1>5. QED BY <1>2, <1>3, <1>4 DEF To

\* A request begins.
LEMMA BeginTo ==
    ASSUME IInv, NEW r \in Requests, NEW step \in Steps,
           NEW on \in Properties \cup Users \cup {Null}, NEW owner \in Scopes,
           NEW id \in Pictures \cup LeadIds \cup Properties \cup {Undefined, Null},
           NEW dto \in PropertyDtos \cup LeadDtos \cup {Null},
           Begin(r, step, on, owner, id, dto)
    PROVE  /\ To(r, [pc |-> step, on |-> on, owner |-> owner, id |-> id, dto |-> dto,
                     seen |-> Null])
           /\ arrived' \in 0 .. MaxArrivals
           /\ overlapped' \subseteq Properties \cup Users
  <1>1. [pc |-> step, on |-> on, owner |-> owner, id |-> id, dto |-> dto, seen |-> Null]
          \in Handler
    BY DEF Handler, Steps, MainPictures
  <1>2. arrived' \in 0 .. MaxArrivals BY CatalogueAssumption DEF Begin, IInv, SiteTypeOK
  <1>3. overlapped' \subseteq Properties \cup Users BY DEF Begin, IInv, SiteTypeOK
  <1>4. QED BY <1>1, <1>2, <1>3 DEF To, Begin

-----------------------------------------------------------------------------
(***************************************************************************)
(* Types and accounts: the initial state, and the steps of Catalogue.      *)
(***************************************************************************)
\* The initial state satisfies the invariant.
LEMMA InitIInv == SiteInit => IInv
  <1> SUFFICES ASSUME SiteInit PROVE IInv
    OBVIOUS
  <1>1. ASSUME NEW p \in Properties PROVE props[p] \in PropertyRow \cup {Null}
    BY CatalogueAssumption
       DEF SiteInit, CatalogueInit, NewProperty, PropertyRow, MainPictures
  <1>2. props \in [Properties -> PropertyRow \cup {Null}]
    BY <1>1 DEF SiteInit, CatalogueInit
  <1>3. req = [r \in Requests |-> Idle] BY DEF SiteInit, CatalogueInit
  <1>4. avatar \in [Users -> MainPictures] /\ gallery \in [Pictures -> Properties \cup {Null}]
    BY DEF SiteInit, ImagesInit, MainPictures
  <1>5. SiteTypeOK
    BY <1>2, <1>3, <1>4, IdleOK, CatalogueAssumption
       DEF SiteInit, CatalogueInit, ImagesInit, LeadsInit, SiteTypeOK
  <1>6. LeadAccountAgrees BY DEF SiteInit, LeadsInit, LeadAccountAgrees
  <1>7. \A r \in Requests : LocalOK(req[r]) BY <1>3, IdleOK
  <1>8. \A i \in Pictures : gallery[i] = Null BY DEF SiteInit, ImagesInit
  <1>9. QED BY <1>5, <1>6, <1>7, <1>8 DEF IInv

\* A write of a property keeps its account and its type.
LEMMA PropertyRowWritten ==
    ASSUME IInv, NEW p \in Properties, NEW row \in PropertyRow,
           props[p] # Null => row.ownerId = props[p].ownerId,
           props' = [props EXCEPT ![p] = row],
           UNCHANGED <<overlapped, imageVars, leadVars>>, arrived' \in 0 .. MaxArrivals
    PROVE  TablesOK' /\ KeepsRows /\ GalleryOK /\ LeadAccountAgrees'
  <1>1. TablesOK' BY DEF IInv, SiteTypeOK, TablesOK, imageVars, leadVars
  <1>2. row # Null BY CatalogueAssumption
  <1>3. \A x \in Properties : props'[x] = IF x = p THEN row ELSE props[x]
    BY DEF IInv, SiteTypeOK
  <1>4. KeepsRows BY <1>2, <1>3 DEF KeepsRows, Exists, imageVars, leadVars
  <1>5. QED BY <1>1, <1>4, AccountKept DEF GalleryOK, imageVars

\* POST /properties.
LEMMA PropertyCreateStep ==
    ASSUME IInv, NEW owner \in Users, NEW p \in Properties, NEW picture \in {"external", Null},
           PropertyCreate(owner, p, picture), UNCHANGED <<imageVars, leadVars>>
    PROVE  IInv'
  <1>1. NewProperty(owner, picture) \in PropertyRow
    BY DEF NewProperty, PropertyRow, MainPictures
  <1>2. props[p] = Null /\ arrived' \in 0 .. MaxArrivals
    BY CatalogueAssumption DEF PropertyCreate, Exists, IInv, SiteTypeOK
  <1>3. props' = [props EXCEPT ![p] = NewProperty(owner, picture)] BY DEF PropertyCreate
  <1>4. TablesOK' /\ KeepsRows /\ GalleryOK /\ LeadAccountAgrees'
    BY <1>1, <1>2, <1>3, PropertyRowWritten DEF PropertyCreate
  <1>5. QED BY <1>4, StepOK DEF PropertyCreate, IInv, SiteTypeOK

\* A request about a property begins.
LEMMA PropertyStarts ==
    ASSUME IInv, NEW r \in Requests, NEW p \in Properties, NEW owner \in Scopes,
           \/ \E dto \in PropertyDtos : PropertyPatchStart(r, p, owner, dto)
           \/ PropertyRemoveStart(r, p, owner),
           UNCHANGED <<imageVars, leadVars>>
    PROVE  IInv'
  <1>1. Exists(p) BY DEF PropertyPatchStart, PropertyRemoveStart
  <1>2. PICK step \in {"propertyFind", "propertyFindRemove"}, dto \in PropertyDtos \cup {Null} :
          /\ Begin(r, step, p, owner, Null, dto)
          /\ step = "propertyFind" => dto \in PropertyDtos
    BY DEF PropertyPatchStart, PropertyRemoveStart
  <1>3. PICK q : q = [pc |-> step, on |-> p, owner |-> owner, id |-> Null, dto |-> dto,
                      seen |-> Null]
    OBVIOUS
  <1>4. step \in Steps BY DEF Steps, CatalogueSteps
  <1>5. LocalOK(q)
    BY <1>1, <1>2, <1>3
       DEF LocalOK, CatalogueSteps, UploadSteps, DeleteSteps, AvatarSteps, LeadSteps
  <1>6. /\ To(r, q) /\ arrived' \in 0 .. MaxArrivals
        /\ overlapped' \subseteq Properties \cup Users
    BY <1>2, <1>3, <1>4, BeginTo
  <1>7. QED BY <1>5, <1>6, RequestStep DEF PropertyPatchStart, PropertyRemoveStart

\* A handler has found its property.
LEMMA PropertyFindStep ==
    ASSUME IInv, NEW r \in Requests,
           NEW step \in {"propertyFind", "propertyFindRemove"},
           NEW next \in {"propertyWrite", "propertyRemove"},
           step = "propertyFind" <=> next = "propertyWrite",
           PropertyFind(r, step, next), UNCHANGED <<imageVars, leadVars>>
    PROVE  IInv'
  <1>1. req[r] \in Handler /\ LocalOK(req[r]) /\ req[r].pc = step
    BY Running DEF PropertyFind, At
  <1>2. arrived' \in 0 .. MaxArrivals /\ overlapped' \subseteq Properties \cup Users
    BY DEF PropertyFind, IInv, SiteTypeOK
  <1>3. CASE Answer(r) BY <1>2, <1>3, AnswerTo, RequestStep DEF PropertyFind
  <1>4. CASE ~Answer(r)
    <2>1. PICK seen \in {"published", Null} : ContinueWith(r, next, seen)
      BY <1>4 DEF PropertyFind, Publication
    <2>2. PICK q : q = [req[r] EXCEPT !.pc = next, !.seen = seen] OBVIOUS
    <2>3. To(r, q)
      BY <1>1, <2>1, <2>2, GoesTo DEF Steps, CatalogueSteps, MainPictures
    <2>4. LocalOK(q)
      BY <1>1, <2>2
         DEF LocalOK, Handler, CatalogueSteps, UploadSteps, DeleteSteps, AvatarSteps, LeadSteps
    <2>5. QED BY <1>2, <2>3, <2>4, RequestStep DEF PropertyFind
  <1>5. QED BY <1>3, <1>4

\* What a PATCH of a property writes.
LEMMA PatchedProperty ==
    ASSUME NEW row \in PropertyRow, NEW h, h.dto \in PropertyDtos, h.dto.publicado # Null
    PROVE  /\ PropertyPatched(row, h) \in PropertyRow
           /\ PropertyPatched(row, h).ownerId = row.ownerId
           /\ PropertyPatched(row, h).publicado = IfGiven(h.dto.publicado, row.publicado)
           /\ PropertyPatched(row, h).publicadoEn = IfGiven(PublicadoEn(h), row.publicadoEn)
           /\ PropertyPatched(row, h).imagenPrincipal
                = IfGiven(h.dto.imagenPrincipal, row.imagenPrincipal)
  <1>1. /\ h.dto.publicado \in BOOLEAN \cup {Undefined}
        /\ h.dto.imagenPrincipal \in {"external", Undefined, Null}
    BY CatalogueAssumption
  <1>2. IfGiven(h.dto.publicado, row.publicado) \in BOOLEAN
    BY <1>1 DEF IfGiven, PropertyRow
  <1>3. IfGiven(PublicadoEn(h), row.publicadoEn) \in {"dated", Null}
    BY DEF IfGiven, PublicadoEn, PropertyRow
  <1>4. IfGiven(h.dto.imagenPrincipal, row.imagenPrincipal) \in MainPictures
    BY <1>1 DEF IfGiven, PropertyRow, MainPictures
  <1>5. QED BY <1>2, <1>3, <1>4 DEF PropertyPatched, PropertyRow

\* The writes of PATCH and DELETE /properties/:id.
LEMMA PropertyWriteStep ==
    ASSUME IInv, NEW r \in Requests, PropertyWrite(r) \/ PropertyRemove(r),
           UNCHANGED <<imageVars, leadVars>>
    PROVE  IInv'
  <1>1. /\ req[r] \in Handler /\ LocalOK(req[r])
        /\ req[r].pc \in {"propertyWrite", "propertyRemove"}
    BY Running DEF PropertyWrite, PropertyRemove, At
  <1>2. PICK p \in Properties : p = req[r].on /\ props[p] \in PropertyRow
    BY <1>1 DEF LocalOK, CatalogueSteps, Exists, IInv, SiteTypeOK
  <1>3. PICK row \in PropertyRow :
          row.ownerId = props[p].ownerId /\ props' = [props EXCEPT ![p] = row]
    <2>1. CASE PropertyWrite(r)
      <3>1. req[r].dto \in PropertyDtos /\ req[r].dto.publicado # Null
        BY <2>1, <1>1 DEF PropertyWrite, At, LocalOK
      <3>2. props' = [props EXCEPT ![p] = PropertyPatched(props[p], req[r])]
        BY <1>2, <2>1 DEF PropertyWrite
      <3>3. QED BY <1>2, <3>1, <3>2, PatchedProperty
    <2>2. CASE PropertyRemove(r)
      <3>1. props' = [props EXCEPT ![p] = [props[p] EXCEPT !.isActive = FALSE]]
        BY <1>2, <2>2 DEF PropertyRemove
      <3>2. /\ [props[p] EXCEPT !.isActive = FALSE] \in PropertyRow
            /\ [props[p] EXCEPT !.isActive = FALSE].ownerId = props[p].ownerId
        BY <1>2 DEF PropertyRow
      <3>3. QED BY <3>1, <3>2
    <2>3. QED BY <2>1, <2>2
  <1>4. UNCHANGED <<arrived, overlapped>> /\ Answer(r) BY DEF PropertyWrite, PropertyRemove
  <1>5. arrived' \in 0 .. MaxArrivals BY <1>4 DEF IInv, SiteTypeOK
  <1>6. TablesOK' /\ KeepsRows /\ GalleryOK /\ LeadAccountAgrees'
    BY <1>3, <1>4, <1>5, PropertyRowWritten
  <1>7. LocalOK(Idle)' BY <1>6, IdleOK, LocalKept
  <1>8. QED BY <1>4, <1>6, <1>7, AnswerTo, MoveOK, StepOK

\* The steps of Catalogue keep the types and the accounts.
LEMMA CatalogueIInv ==
    ASSUME IInv, CatalogueNext, UNCHANGED <<imageVars, leadVars>>
    PROVE  IInv'
  <1>1. ASSUME NEW r \in Requests, PropertyFail(r) PROVE IInv'
    BY <1>1, AnswerTo, RequestStep DEF PropertyFail, IInv, SiteTypeOK
  <1>2. ASSUME NEW r \in Requests,
               \/ PropertyFind(r, "propertyFind", "propertyWrite")
               \/ PropertyFind(r, "propertyFindRemove", "propertyRemove")
        PROVE  IInv'
    BY <1>2, PropertyFindStep
  <1>3. QED
    BY <1>1, <1>2, PropertyCreateStep, PropertyStarts, PropertyWriteStep DEF CatalogueNext

-----------------------------------------------------------------------------
(***************************************************************************)
(* Types and accounts: the steps of Images.                                *)
(***************************************************************************)
\* What only looks at the request has nothing to show of the other tables.
LEMMA StillTyped ==
    ASSUME IInv, UNCHANGED <<arrived, overlapped>>
    PROVE  arrived' \in 0 .. MaxArrivals /\ overlapped' \subseteq Properties \cup Users
  BY DEF IInv, SiteTypeOK

\* An upload, a DELETE of a picture or an avatar begins.
LEMMA ImageStarts ==
    ASSUME IInv, NEW r \in Requests, UNCHANGED leadVars,
           \/ \E p \in Properties, owner \in Users : UploadStart(r, p, owner)
           \/ \E i \in Pictures, owner \in Users : DeleteStart(r, i, owner)
           \/ \E u \in Users : AvatarStart(r, u)
    PROVE  IInv'
  <1>1. ASSUME NEW step \in {"uploadFind", "imageFind", "avatarFind"}, NEW owner \in Users,
               NEW on \in Properties \cup Users, NEW id \in Pictures \cup {Null},
               Begin(r, step, on, owner, id, Null), UNCHANGED <<props, imageVars>>,
               step = "avatarFind" => on \in Users,
               step # "avatarFind" => on \in Properties /\ Exists(on),
               step = "imageFind" => id \in Pictures \cap used
        PROVE  IInv'
    <2>1. PICK q : q = [pc |-> step, on |-> on, owner |-> owner, id |-> id, dto |-> Null,
                        seen |-> Null]
      OBVIOUS
    <2>2. step \in Steps BY DEF Steps, UploadSteps, DeleteSteps, AvatarSteps
    <2>3. LocalOK(q)
      BY <1>1, <2>1
         DEF LocalOK, CatalogueSteps, UploadSteps, DeleteSteps, AvatarSteps, LeadSteps
    <2>4. /\ To(r, q) /\ arrived' \in 0 .. MaxArrivals
          /\ overlapped' \subseteq Properties \cup Users
      BY <1>1, <2>1, <2>2, BeginTo DEF Scopes
    <2>5. QED BY <1>1, <2>3, <2>4, RequestStep
  <1>2. ASSUME NEW p \in Properties, NEW owner \in Users, UploadStart(r, p, owner) PROVE IInv'
    BY <1>1, <1>2 DEF UploadStart
  <1>3. ASSUME NEW i \in Pictures, NEW owner \in Users, DeleteStart(r, i, owner) PROVE IInv'
    <2>1. gallery[i] \in Properties /\ Exists(gallery[i]) /\ i \in used
      BY <1>3 DEF DeleteStart, IInv, SiteTypeOK
    <2>2. QED BY <1>1, <1>3, <2>1 DEF DeleteStart
  <1>4. ASSUME NEW u \in Users, AvatarStart(r, u) PROVE IInv'
    BY <1>1, <1>4 DEF AvatarStart
  <1>5. QED BY <1>2, <1>3, <1>4

\* A step of a handler of Images that reads.
LEMMA ImageReads ==
    ASSUME IInv, NEW r \in Requests, UNCHANGED leadVars,
           UploadFind(r) \/ DeleteRemaining(r) \/ AvatarFind(r)
    PROVE  IInv'
  <1>1. /\ req[r] \in Handler /\ LocalOK(req[r])
        /\ req[r].pc \in {"uploadFind", "remaining", "avatarFind"}
    BY Running DEF UploadFind, DeleteRemaining, AvatarFind, At
  <1>2. arrived' \in 0 .. MaxArrivals /\ overlapped' \subseteq Properties \cup Users
    BY StillTyped DEF UploadFind, DeleteRemaining, AvatarFind
  <1>3. UNCHANGED <<props, imageVars, leadVars>> BY DEF UploadFind, DeleteRemaining, AvatarFind
  <1>4. CASE Answer(r) BY <1>2, <1>3, <1>4, AnswerTo, RequestStep
  <1>5. CASE ~Answer(r)
    <2>1. PICK step \in {"save", "setMain", "avatarSave", "avatarUnlink"}, seen \in MainPictures :
            /\ ContinueWith(r, step, seen)
            /\ step = "save" <=> req[r].pc = "uploadFind"
            /\ step = "setMain" => req[r].pc = "remaining" /\ seen \in Pictures \cup {Null}
            /\ step \in {"avatarSave", "avatarUnlink"} => req[r].pc = "avatarFind"
      <3>1. CASE UploadFind(r)
        <4>1. PropertyFound(req[r].on, req[r].owner) BY <1>5, <3>1 DEF UploadFind
        <4>2. props[req[r].on] \in PropertyRow
          BY <3>1, <1>1, <4>1
             DEF UploadFind, At, LocalOK, UploadSteps, PropertyFound, Exists, IInv, SiteTypeOK
        <4>3. props[req[r].on].imagenPrincipal \in MainPictures BY <4>2 DEF PropertyRow
        <4>4. QED BY <3>1, <4>1, <4>3 DEF UploadFind, At
      <3>2. CASE DeleteRemaining(r)
        <4>1. PICK i \in Pictures \cup {Null} : ContinueWith(r, "setMain", i)
          BY <3>2 DEF DeleteRemaining, Remaining, Gallery
        <4>2. QED BY <3>2, <4>1 DEF DeleteRemaining, At, MainPictures
      <3>3. CASE AvatarFind(r)
        <4>1. avatar[req[r].on] \in MainPictures
          BY <3>3, <1>1 DEF AvatarFind, At, LocalOK, AvatarSteps, IInv, SiteTypeOK
        <4>2. QED BY <3>3, <4>1 DEF AvatarFind, At
      <3>4. QED BY <3>1, <3>2, <3>3
    <2>2. PICK q : q = [req[r] EXCEPT !.pc = step, !.seen = seen] OBVIOUS
    <2>3. To(r, q)
      BY <1>1, <2>1, <2>2, GoesTo DEF Steps, UploadSteps, DeleteSteps, AvatarSteps
    <2>4. LocalOK(q)
      BY <1>1, <2>1, <2>2
         DEF LocalOK, Handler, CatalogueSteps, UploadSteps, DeleteSteps, AvatarSteps, LeadSteps
    <2>5. QED BY <1>2, <1>3, <2>3, <2>4, RequestStep
  <1>6. QED BY <1>4, <1>5

\* The locals of a handler that has generated names.
LEMMA TakesNames ==
    ASSUME NEW h \in Handler, NEW step \in Steps,
           NEW id \in Pictures \cup (SUBSET Pictures)
    PROVE  [h EXCEPT !.pc = step, !.id = id] \in Handler
  <1> DEFINE ids == Pictures \cup (SUBSET Pictures) \cup LeadIds \cup Properties
                      \cup {Undefined, Null}
             seens == {"published"} \cup MainPictures \cup LeadStatus
             dtos == PropertyDtos \cup LeadDtos \cup {Null}
             ons == Properties \cup Users \cup {Null}
  <1>1. Handler = [pc : Steps, on : ons, owner : Scopes, id : ids, dto : dtos, seen : seens]
    BY DEF Handler, Steps
  <1>2. id \in ids OBVIOUS
  <1> HIDE DEF ids, seens, dtos, ons
  <1>3. QED BY <1>1, <1>2

\* Files are saved, or some of them.
LEMMA SaveStep ==
    ASSUME IInv, NEW r \in Requests, UNCHANGED leadVars,
           Save(r) \/ SaveFail(r) \/ AvatarSave(r)
    PROVE  IInv'
  <1>1. /\ req[r] \in Handler /\ LocalOK(req[r])
        /\ req[r].pc \in {"save", "avatarSave"}
    BY Running DEF Save, SaveFail, ImageFail, AvatarSave, At
  <1>2. UNCHANGED <<props, arrived, overlapped, gallery, avatar, lost>>
    BY DEF Save, SaveFail, ImageFail, AvatarSave, AvatarSaved
  <1>3. used \subseteq used' /\ used' \subseteq Pictures /\ files' \subseteq used'
    BY DEF Save, SaveFail, AvatarSave, AvatarSaved, Batches, Fresh, IInv, SiteTypeOK
  <1>4. failed' \subseteq Properties \cup Users
    BY <1>1 DEF Save, SaveFail, ImageFail, AvatarSave, AvatarSaved, IInv, SiteTypeOK, LocalOK,
                UploadSteps
  <1>5. TablesOK' BY <1>2, <1>3, <1>4 DEF IInv, SiteTypeOK, TablesOK, leadVars
  <1>6. KeepsRows /\ GalleryOK BY <1>2, <1>3 DEF KeepsRows, GalleryOK, Exists, leadVars
  <1>7. PICK q : To(r, q) /\ LocalOK(q)'
    <2>1. CASE Answer(r) BY <2>1, <1>6, AnswerTo, LocalKept
    <2>2. CASE Save(r)
      <3>1. PICK batch \in SUBSET Pictures :
              /\ batch \subseteq used'
              /\ req' = [req EXCEPT ![r].pc = "rows", ![r].id = batch]
        BY <2>2 DEF Save, Batches, Fresh
      <3>2. PICK q : q = [req[r] EXCEPT !.pc = "rows", !.id = batch] OBVIOUS
      <3>3. req' = [req EXCEPT ![r] = q] BY <3>1, <3>2 DEF IInv, SiteTypeOK
      <3>4. To(r, q) BY <1>1, <3>2, <3>3, TakesNames DEF To, Steps, UploadSteps
      <3>5. LocalOK(q)'
        BY <1>1, <1>2, <2>2, <3>1, <3>2
           DEF Save, At, LocalOK, Handler, CatalogueSteps, UploadSteps, DeleteSteps, AvatarSteps,
               LeadSteps, Exists
      <3>6. QED BY <3>4, <3>5
    <2>3. CASE AvatarSave(r)
      <3>1. PICK i \in Pictures :
              i \in used' /\ req' = [req EXCEPT ![r].pc = "avatarWrite", ![r].id = i]
        BY <2>3 DEF AvatarSave, AvatarSaved, Fresh
      <3>2. PICK q : q = [req[r] EXCEPT !.pc = "avatarWrite", !.id = i] OBVIOUS
      <3>3. req' = [req EXCEPT ![r] = q] BY <3>1, <3>2 DEF IInv, SiteTypeOK
      <3>4. To(r, q) BY <1>1, <3>2, <3>3, TakesNames DEF To, Steps, AvatarSteps
      <3>5. LocalOK(q)'
        BY <1>1, <1>2, <2>3, <3>1, <3>2
           DEF AvatarSave, At, LocalOK, Handler, CatalogueSteps, UploadSteps, DeleteSteps,
               AvatarSteps, LeadSteps, Exists
      <3>6. QED BY <3>4, <3>5
    <2>4. QED BY <2>1, <2>2, <2>3 DEF SaveFail, ImageFail
  <1>8. QED BY <1>2, <1>3, <1>5, <1>6, <1>7, QuietStep DEF KeepsRows

\* The rows of a batch are created.
LEMMA SaveRowsStep ==
    ASSUME IInv, NEW r \in Requests, UNCHANGED leadVars, SaveRows(r)
    PROVE  IInv'
  <1>1. req[r] \in Handler /\ LocalOK(req[r]) /\ req[r].pc = "rows"
    BY Running DEF SaveRows, At
  <1>2. PICK h : h = req[r] OBVIOUS
  <1>3. h.on \in Properties /\ Exists(h.on) /\ h.id \subseteq used
    BY <1>1, <1>2 DEF LocalOK, UploadSteps
  <1>4. gallery' = [i \in Pictures |-> IF i \in h.id THEN h.on ELSE gallery[i]]
    BY <1>2 DEF SaveRows
  <1>5. UNCHANGED <<props, arrived, overlapped, files, used, avatar, lost, failed>>
    BY DEF SaveRows
  <1>6. gallery' \in [Pictures -> Properties \cup {Null}]
    BY <1>3, <1>4 DEF IInv, SiteTypeOK
  <1>7. TablesOK' BY <1>5, <1>6 DEF IInv, SiteTypeOK, TablesOK, leadVars
  <1>8. GalleryOK BY <1>3, <1>4 DEF GalleryOK
  <1>9. KeepsRows BY <1>5 DEF KeepsRows, Exists, leadVars
  <1>10. PICK q : To(r, q) /\ LocalOK(q)'
    <2>1. CASE Answer(r) BY <2>1, <1>9, AnswerTo, LocalKept
    <2>2. CASE Continue(r, "main")
      <3>1. PICK q : q = [h EXCEPT !.pc = "main"] OBVIOUS
      <3>2. Null \in {"published"} \cup MainPictures \cup LeadStatus BY DEF MainPictures
      <3>3. To(r, q) BY <1>1, <1>2, <2>2, <3>1, <3>2, GoesTo DEF Steps, UploadSteps
      <3>4. LocalOK(q)
        BY <1>1, <1>2, <3>1
           DEF LocalOK, Handler, CatalogueSteps, UploadSteps, DeleteSteps, AvatarSteps, LeadSteps
      <3>5. QED BY <3>3, <3>4, <1>9, LocalKept
    <2>3. QED BY <2>1, <2>2 DEF SaveRows
  <1>11. QED BY <1>5, <1>7, <1>8, <1>10, QuietStep

\* The main picture of a property is set to one of the pictures, or to none.
LEMMA MainWritten ==
    ASSUME IInv, NEW r \in Requests, SaveMain(r) \/ DeleteMain(r)
    PROVE  /\ req[r].on \in Properties /\ Exists(req[r].on)
           /\ \E i \in MainPictures : props' = [props EXCEPT ![req[r].on].imagenPrincipal = i]
  <1>1. LocalOK(req[r]) /\ req[r].pc \in {"main", "setMain"}
    BY Running DEF SaveMain, DeleteMain, At
  <1>2. req[r].on \in Properties /\ Exists(req[r].on)
    BY <1>1 DEF LocalOK, UploadSteps, DeleteSteps
  <1>3. CASE SaveMain(r)
    <2>1. req[r].id \subseteq Pictures
      BY <1>1, <1>3 DEF SaveMain, At, LocalOK, IInv, SiteTypeOK
    <2>2. QED BY <1>2, <1>3, <2>1 DEF SaveMain, MainPictures
  <1>4. CASE DeleteMain(r)
    BY <1>1, <1>2, <1>4 DEF DeleteMain, At, LocalOK, MainPictures
  <1>5. QED BY <1>3, <1>4

\* The writes of the main picture.
LEMMA MainStep ==
    ASSUME IInv, NEW r \in Requests, UNCHANGED leadVars, SaveMain(r) \/ DeleteMain(r)
    PROVE  IInv'
  <1>1. PICK p \in Properties : p = req[r].on /\ props[p] \in PropertyRow
    BY MainWritten DEF Exists, IInv, SiteTypeOK
  <1>2. PICK i \in MainPictures : props' = [props EXCEPT ![p].imagenPrincipal = i]
    BY <1>1, MainWritten
  <1>3. props' = [props EXCEPT ![p] = [props[p] EXCEPT !.imagenPrincipal = i]]
    BY <1>2
  <1>4. /\ [props[p] EXCEPT !.imagenPrincipal = i] \in PropertyRow
        /\ [props[p] EXCEPT !.imagenPrincipal = i].ownerId = props[p].ownerId
    BY <1>1 DEF PropertyRow
  <1>5. UNCHANGED <<arrived, overlapped, imageVars>> /\ Answer(r) BY DEF SaveMain, DeleteMain
  <1>6. arrived' \in 0 .. MaxArrivals BY <1>5 DEF IInv, SiteTypeOK
  <1>7. TablesOK' /\ KeepsRows /\ GalleryOK /\ LeadAccountAgrees'
    BY <1>3, <1>4, <1>5, <1>6, PropertyRowWritten
  <1>8. LocalOK(Idle)' BY <1>7, IdleOK, LocalKept
  <1>9. QED BY <1>5, <1>7, <1>8, AnswerTo, MoveOK, StepOK

\* The steps of a DELETE of a picture before its last write, and the removal of
\* an avatar's file.
LEMMA DeleteStep ==
    ASSUME IInv, NEW r \in Requests, UNCHANGED leadVars,
           DeleteFind(r) \/ Unlink(r) \/ DeleteRow(r) \/ AvatarUnlink(r)
    PROVE  IInv'
  <1>1. /\ req[r] \in Handler /\ LocalOK(req[r])
        /\ req[r].pc \in {"imageFind", "unlink", "deleteRow", "avatarUnlink"}
    BY Running DEF DeleteFind, Unlink, DeleteRow, AvatarUnlink, At
  <1>2. UNCHANGED <<props, arrived, overlapped, used, avatar, failed>>
    BY DEF DeleteFind, Unlink, DeleteRow, AvatarUnlink, storage
  <1>3. files' \subseteq used' /\ lost \subseteq lost' /\ lost' \subseteq used'
    BY <1>1 DEF DeleteFind, Unlink, DeleteRow, AvatarUnlink, At, LocalOK, DeleteSteps, storage,
                IInv, SiteTypeOK
  <1>4. /\ gallery' \in [Pictures -> Properties \cup {Null}]
        /\ \A i \in Pictures : gallery'[i] \in {Null, gallery[i]}
    BY DEF DeleteFind, Unlink, DeleteRow, AvatarUnlink, IInv, SiteTypeOK
  <1>5. TablesOK' BY <1>2, <1>3, <1>4 DEF IInv, SiteTypeOK, TablesOK, leadVars
  <1>6. KeepsRows /\ GalleryOK BY <1>2, <1>3, <1>4 DEF KeepsRows, GalleryOK, Exists, leadVars
  <1>7. PICK q : To(r, q) /\ LocalOK(q)'
    <2>1. CASE Answer(r) BY <2>1, <1>6, AnswerTo, LocalKept
    <2>2. CASE ~Answer(r)
      <3>1. PICK step \in {"unlink", "deleteRow", "remaining", "avatarSave"} :
              /\ Continue(r, step)
              /\ step = "avatarSave" <=> req[r].pc = "avatarUnlink"
              /\ step # "avatarSave" => req[r].id \in lost'
        BY <1>1, <2>2 DEF DeleteFind, Unlink, DeleteRow, AvatarUnlink, At, LocalOK, DeleteSteps
      <3>2. PICK q : q = [req[r] EXCEPT !.pc = step] OBVIOUS
      <3>3. Null \in {"published"} \cup MainPictures \cup LeadStatus BY DEF MainPictures
      <3>4. To(r, q) BY <1>1, <3>1, <3>2, <3>3, GoesTo DEF Steps, DeleteSteps, AvatarSteps
      <3>5. LocalOK(q)'
        BY <1>1, <1>2, <3>1, <3>2
           DEF LocalOK, Handler, CatalogueSteps, UploadSteps, DeleteSteps, AvatarSteps, LeadSteps,
               Exists
      <3>6. QED BY <3>4, <3>5
    <2>3. QED BY <2>1, <2>2
  <1>8. QED BY <1>2, <1>3, <1>5, <1>6, <1>7, QuietStep

\* The avatar of a user is written.
LEMMA AvatarStep ==
    ASSUME IInv, UNCHANGED leadVars,
           \/ \E r \in Requests : AvatarWrite(r)
           \/ \E u \in Users, url \in {"external", Null} : ProfileWrite(u, url)
    PROVE  IInv'
  <1>1. ASSUME NEW r \in Requests, AvatarWrite(r) PROVE IInv'
    <2>1. req[r] \in Handler /\ LocalOK(req[r]) /\ req[r].pc = "avatarWrite"
      BY <1>1, Running DEF AvatarWrite, At
    <2>2. req[r].id \in Pictures BY <2>1 DEF LocalOK, IInv, SiteTypeOK
    <2>3. avatar' \in [Users -> MainPictures]
      BY <1>1, <2>2 DEF AvatarWrite, MainPictures, IInv, SiteTypeOK
    <2>4. UNCHANGED <<props, arrived, overlapped, files, used, gallery, lost, failed>>
      BY <1>1 DEF AvatarWrite, storage
    <2>5. TablesOK' BY <2>3, <2>4 DEF IInv, SiteTypeOK, TablesOK, leadVars
    <2>6. KeepsRows /\ GalleryOK BY <2>4 DEF KeepsRows, GalleryOK, Exists, leadVars
    <2>7. To(r, Idle) /\ LocalOK(Idle)' BY <1>1, <2>6, AnswerTo, LocalKept DEF AvatarWrite
    <2>8. QED BY <2>4, <2>5, <2>6, <2>7, QuietStep
  <1>2. ASSUME NEW u \in Users, NEW url \in {"external", Null}, ProfileWrite(u, url) PROVE IInv'
    <2>1. arrived' \in 0 .. MaxArrivals
      BY <1>2, CatalogueAssumption DEF ProfileWrite, IInv, SiteTypeOK
    <2>2. avatar' \in [Users -> MainPictures]
      BY <1>2 DEF ProfileWrite, MainPictures, IInv, SiteTypeOK
    <2>3. UNCHANGED <<props, req, overlapped, files, used, gallery, lost, failed>>
      BY <1>2 DEF ProfileWrite, storage
    <2>4. TablesOK' BY <2>1, <2>2, <2>3 DEF IInv, SiteTypeOK, TablesOK, leadVars
    <2>5. KeepsRows /\ GalleryOK BY <2>3 DEF KeepsRows, GalleryOK, Exists, leadVars
    <2>6. LeadAccountAgrees' BY <2>5, AccountKept
    <2>7. QED BY <2>3, <2>4, <2>5, <2>6, StepOK DEF IInv, SiteTypeOK
  <1>3. QED BY <1>1, <1>2

\* A handler of Images fails.
LEMMA ImageFailStep ==
    ASSUME IInv, NEW r \in Requests, UNCHANGED leadVars,
           ImageFail(r, (UploadSteps \ {"save"}) \cup DeleteSteps \cup AvatarSteps),
           UNCHANGED <<storage, gallery, avatar, lost>>
    PROVE  IInv'
  <1>1. /\ req[r] \in Handler /\ LocalOK(req[r])
        /\ req[r].pc \in UploadSteps \cup DeleteSteps \cup AvatarSteps
    BY Running DEF ImageFail, UploadSteps, DeleteSteps, AvatarSteps
  <1>2. UNCHANGED <<props, arrived, overlapped, files, used, gallery, avatar, lost>>
    BY DEF ImageFail, storage
  <1>3. failed' \subseteq Properties \cup Users
    BY <1>1 DEF ImageFail, LocalOK, IInv, SiteTypeOK
  <1>4. TablesOK' BY <1>2, <1>3 DEF IInv, SiteTypeOK, TablesOK, leadVars
  <1>5. KeepsRows /\ GalleryOK BY <1>2 DEF KeepsRows, GalleryOK, Exists, leadVars
  <1>6. To(r, Idle) /\ LocalOK(Idle)' BY <1>5, AnswerTo, LocalKept DEF ImageFail
  <1>7. QED BY <1>2, <1>4, <1>5, <1>6, QuietStep

\* The steps of Images keep the types and the accounts.
LEMMA ImagesIInv ==
    ASSUME IInv, ImagesNext, UNCHANGED leadVars
    PROVE  IInv'
  BY ImageStarts, ImageReads, SaveStep, SaveRowsStep, MainStep, DeleteStep, AvatarStep,
     ImageFailStep
     DEF ImagesNext
-----------------------------------------------------------------------------
(***************************************************************************)
(* Types and accounts: the steps of Leads.                                 *)
(***************************************************************************)
\* A request about a lead begins.
LEMMA LeadStarts ==
    ASSUME IInv, NEW r \in Requests, UNCHANGED imageVars,
           \/ \E p \in Properties \cup {Undefined} :
                FormStart(r, p) \/ \E owner \in Users : LeadStart(r, owner, p)
           \/ \E l \in LeadIds, owner \in Users :
                \/ LeadRemoveStart(r, l, owner)
                \/ \E dto \in LeadDtos : LeadPatchStart(r, l, owner, dto)
    PROVE  IInv'
  <1>1. ASSUME NEW step \in LeadSteps, NEW owner \in Scopes,
               NEW id \in LeadIds \cup Properties \cup {Undefined},
               NEW dto \in LeadDtos \cup {Null},
               Begin(r, step, Null, owner, id, dto), UNCHANGED <<props, leadVars>>,
               LocalOK([pc |-> step, on |-> Null, owner |-> owner, id |-> id, dto |-> dto,
                        seen |-> Null])
        PROVE  IInv'
    <2>1. step \in Steps BY DEF Steps
    <2>2. PICK q : q = [pc |-> step, on |-> Null, owner |-> owner, id |-> id, dto |-> dto,
                        seen |-> Null]
      OBVIOUS
    <2>3. /\ To(r, q) /\ arrived' \in 0 .. MaxArrivals
          /\ overlapped' \subseteq Properties \cup Users
      BY <1>1, <2>1, <2>2, BeginTo
    <2>4. QED BY <1>1, <2>2, <2>3, RequestStep
  <1> USE DEF LocalOK, CatalogueSteps, UploadSteps, DeleteSteps, AvatarSteps, LeadSteps, Scopes
  <1>2. ASSUME NEW p \in Properties \cup {Undefined}, FormStart(r, p) PROVE IInv'
    BY <1>1, <1>2 DEF FormStart
  <1>3. ASSUME NEW p \in Properties \cup {Undefined}, NEW owner \in Users, LeadStart(r, owner, p)
        PROVE  IInv'
    <2>1. CASE p = Undefined BY <1>1, <1>3, <2>1 DEF LeadStart
    <2>2. CASE p \in Properties
      <3>1. p # Undefined BY <2>2, CatalogueAssumption
      <3>2. QED BY <1>1, <1>3, <2>2, <3>1 DEF LeadStart
    <2>3. QED BY <2>1, <2>2
  <1>4. ASSUME NEW l \in LeadIds, NEW owner \in Users, LeadRemoveStart(r, l, owner) PROVE IInv'
    BY <1>1, <1>4 DEF LeadRemoveStart
  <1>5. ASSUME NEW l \in LeadIds, NEW owner \in Users, NEW dto \in LeadDtos,
               LeadPatchStart(r, l, owner, dto)
        PROVE  IInv'
    BY <1>1, <1>5 DEF LeadPatchStart
  <1>6. QED BY <1>2, <1>3, <1>4, <1>5

\* The form has found the account of its lead.
LEMMA FormReadStep ==
    ASSUME IInv, NEW r \in Requests, UNCHANGED imageVars, FormRead(r)
    PROVE  IInv'
  <1>1. req[r] \in Handler /\ LocalOK(req[r]) /\ req[r].pc = "leadOwner"
    BY Running DEF FormRead, At
  <1>2. arrived' \in 0 .. MaxArrivals /\ overlapped' \subseteq Properties \cup Users
    BY StillTyped DEF FormRead, Unchanged
  <1>3. CASE Answer(r) BY <1>2, <1>3, AnswerTo, RequestStep DEF FormRead, Unchanged
  <1>4. CASE ~Answer(r)
    <2>1. PICK h : h = req[r] OBVIOUS
    <2>2. h.id \in Properties \cup {Undefined} BY <1>1, <2>1 DEF LocalOK
    <2>3. PICK owner : owner = FormOwner(h.id) OBVIOUS
    <2>4. owner \in Users
      <3>1. \A p \in Properties : Exists(p) => props[p].ownerId \in Users
        BY DEF Exists, IInv, SiteTypeOK, PropertyRow
      <3>2. owner # Null BY <1>4, <2>1, <2>3 DEF FormRead
      <3>3. QED BY <2>2, <2>3, <3>1, <3>2, LeadsAssumption DEF FormOwner, Shown
    <2>5. PICK step : step = IF h.id = Undefined THEN "leadInsert" ELSE "leadProperty" OBVIOUS
    <2>6. PICK q : q = [h EXCEPT !.owner = owner, !.pc = step] OBVIOUS
    <2>7. req' = [req EXCEPT ![r] = q]
      BY <1>4, <2>1, <2>3, <2>5, <2>6 DEF FormRead, IInv, SiteTypeOK
    <2>8. q \in Handler
      <3> DEFINE ids == Pictures \cup (SUBSET Pictures) \cup LeadIds \cup Properties
                          \cup {Undefined, Null}
                 seens == {"published"} \cup MainPictures \cup LeadStatus
                 dtos == PropertyDtos \cup LeadDtos \cup {Null}
                 ons == Properties \cup Users \cup {Null}
      <3>1. Handler = [pc : Steps, on : ons, owner : Scopes, id : ids, dto : dtos, seen : seens]
        BY DEF Handler, Steps
      <3>2. step \in Steps /\ owner \in Scopes /\ h \in Handler
        BY <1>1, <2>1, <2>4, <2>5 DEF Steps, LeadSteps, Scopes
      <3> HIDE DEF ids, seens, dtos, ons
      <3>3. QED BY <2>6, <3>1, <3>2
    <2>9. LocalOK(q)
      BY <1>1, <2>1, <2>2, <2>4, <2>5, <2>6
         DEF LocalOK, Handler, CatalogueSteps, UploadSteps, DeleteSteps, AvatarSteps, LeadSteps
    <2>10. QED BY <1>2, <2>7, <2>8, <2>9, RequestStep DEF FormRead, Unchanged, To
  <1>5. QED BY <1>3, <1>4

\* The other steps of Leads that read.
LEMMA LeadReads ==
    ASSUME IInv, NEW r \in Requests, UNCHANGED imageVars,
           LeadProperty(r) \/ LeadFind(r) \/ LeadMove(r) \/ LeadFindRemove(r)
    PROVE  IInv'
  <1>1. /\ req[r] \in Handler /\ LocalOK(req[r])
        /\ req[r].pc \in {"leadProperty", "leadFind", "leadMove", "leadFindRemove"}
    BY Running DEF LeadProperty, LeadFind, LeadMove, LeadFindRemove, At
  <1>2. Unchanged BY DEF LeadProperty, LeadFind, LeadMove, LeadFindRemove
  <1>3. arrived' \in 0 .. MaxArrivals /\ overlapped' \subseteq Properties \cup Users
    BY <1>2, StillTyped DEF Unchanged
  <1>4. CASE Answer(r) BY <1>2, <1>3, <1>4, AnswerTo, RequestStep DEF Unchanged
  <1>5. CASE ~Answer(r)
    <2>1. PICK h : h = req[r] OBVIOUS
    <2>2. h.owner \in Users BY <1>1, <2>1 DEF LocalOK, LeadSteps
    <2>3. ASSUME NEW p \in Properties, PropertyFound(p, h.owner)
          PROVE  Exists(p) /\ props[p].ownerId = h.owner
      BY <2>2, <2>3, CatalogueAssumption DEF PropertyFound, OwnerMatches
    <2>4. CASE LeadProperty(r)
      <3>1. PICK q : q = [h EXCEPT !.pc = "leadInsert"] OBVIOUS
      <3>2. h.pc = "leadProperty" /\ h.id \in Properties /\ Continue(r, "leadInsert")
            /\ PropertyFound(h.id, h.owner)
        BY <1>1, <1>5, <2>1, <2>4 DEF LeadProperty, At, LocalOK
      <3>3. Exists(h.id) /\ props[h.id].ownerId = h.owner BY <2>3, <3>2
      <3>4. Null \in {"published"} \cup MainPictures \cup LeadStatus BY DEF MainPictures
      <3>5. To(r, q) BY <1>1, <2>1, <3>1, <3>2, <3>4, GoesTo DEF Steps, LeadSteps
      <3>6. LocalOK(q)
        BY <1>1, <2>1, <2>2, <3>1, <3>2, <3>3
           DEF LocalOK, Handler, CatalogueSteps, UploadSteps, DeleteSteps, AvatarSteps, LeadSteps
      <3>7. QED BY <1>2, <1>3, <3>5, <3>6, RequestStep DEF Unchanged
    <2>5. CASE LeadFind(r)
      <3>1. /\ h.pc = "leadFind" /\ h.id \in LeadIds /\ leads[h.id] # Null /\ h.dto \in LeadDtos
            /\ leads[h.id].ownerId = h.owner
        BY <1>1, <1>5, <2>1, <2>5 DEF LeadFind, At, LocalOK, LeadFound
      <3>2. leads[h.id] \in LeadRow BY <3>1 DEF IInv, SiteTypeOK
      <3>3. PICK step : step = IF Moves(h.dto, leads[h.id]) THEN "leadMove" ELSE "leadWrite"
        OBVIOUS
      <3>4. PICK seen \in LeadStatus : seen = leads[h.id].estado BY <3>2 DEF LeadRow
      <3>5. ContinueWith(r, step, seen) BY <1>5, <2>1, <2>5, <3>3, <3>4 DEF LeadFind
      <3>6. PICK q : q = [h EXCEPT !.pc = step, !.seen = seen] OBVIOUS
      <3>7. step \in Steps /\ step \in {"leadMove", "leadWrite"} BY <3>3 DEF Steps, LeadSteps
      <3>8. To(r, q) BY <1>1, <2>1, <3>5, <3>6, <3>7, GoesTo
      <3>9. step = "leadMove" => h.dto.propertyId \in Properties BY <3>3 DEF Moves
      <3>10. step = "leadWrite" /\ h.dto.propertyId \in Properties =>
               Exists(h.dto.propertyId) /\ props[h.dto.propertyId].ownerId = h.owner
        <4>1. SUFFICES ASSUME step = "leadWrite", h.dto.propertyId \in Properties
                       PROVE  Exists(h.dto.propertyId)
                              /\ props[h.dto.propertyId].ownerId = h.owner
          OBVIOUS
        <4>2. h.dto.propertyId = leads[h.id].propertyId BY <3>3, <4>1 DEF Moves
        <4>3. leads[h.id].propertyId # Null BY <4>1, <4>2, CatalogueAssumption
        <4>4. QED BY <3>1, <4>2, <4>3 DEF IInv, LeadAccountAgrees
      <3>11. q.pc = step /\ q.owner = h.owner /\ q.id = h.id /\ q.dto = h.dto
        BY <1>1, <2>1, <3>6 DEF Handler
      <3>12. LocalOK(q)
        BY <2>2, <3>1, <3>7, <3>9, <3>10, <3>11
           DEF LocalOK, CatalogueSteps, UploadSteps, DeleteSteps, AvatarSteps, LeadSteps
      <3>13. QED BY <1>2, <1>3, <3>8, <3>12, RequestStep DEF Unchanged
    <2>6. CASE LeadMove(r)
      <3>1. PICK q : q = [h EXCEPT !.pc = "leadWrite"] OBVIOUS
      <3>2. h.pc = "leadMove" /\ h.dto.propertyId \in Properties /\ Continue(r, "leadWrite")
            /\ PropertyFound(h.dto.propertyId, h.owner)
        BY <1>1, <1>5, <2>1, <2>6 DEF LeadMove, At, LocalOK
      <3>3. Exists(h.dto.propertyId) /\ props[h.dto.propertyId].ownerId = h.owner
        BY <2>3, <3>2
      <3>4. Null \in {"published"} \cup MainPictures \cup LeadStatus BY DEF MainPictures
      <3>5. To(r, q) BY <1>1, <2>1, <3>1, <3>2, <3>4, GoesTo DEF Steps, LeadSteps
      <3>6. LocalOK(q)
        BY <1>1, <2>1, <2>2, <3>1, <3>2, <3>3
           DEF LocalOK, Handler, CatalogueSteps, UploadSteps, DeleteSteps, AvatarSteps, LeadSteps
      <3>7. QED BY <1>2, <1>3, <3>5, <3>6, RequestStep DEF Unchanged
    <2>7. CASE LeadFindRemove(r)
      <3>1. PICK q : q = [h EXCEPT !.pc = "leadRemove"] OBVIOUS
      <3>2. h.pc = "leadFindRemove" /\ Continue(r, "leadRemove")
        BY <1>5, <2>1, <2>7 DEF LeadFindRemove, At
      <3>3. Null \in {"published"} \cup MainPictures \cup LeadStatus BY DEF MainPictures
      <3>4. To(r, q) BY <1>1, <2>1, <3>1, <3>2, <3>3, GoesTo DEF Steps, LeadSteps
      <3>5. LocalOK(q)
        BY <1>1, <2>1, <2>2, <3>1, <3>2
           DEF LocalOK, Handler, CatalogueSteps, UploadSteps, DeleteSteps, AvatarSteps, LeadSteps
      <3>6. QED BY <1>2, <1>3, <3>4, <3>5, RequestStep DEF Unchanged
    <2>8. QED BY <2>4, <2>5, <2>6, <2>7
  <1>6. QED BY <1>4, <1>5

\* A write of a lead keeps its type; the lead stays of its account, and so does
\* the property it is about.
LEMMA LeadRowWritten ==
    ASSUME IInv, NEW l \in LeadIds, NEW row \in LeadRow,
           leads[l] # Null => row.ownerId = leads[l].ownerId,
           row.propertyId # Null =>
             Exists(row.propertyId) /\ props[row.propertyId].ownerId = row.ownerId,
           leads' = [leads EXCEPT ![l] = row],
           told' \subseteq told \cup {n \in LeadNotice : n.lead = l /\ n.userId = row.ownerId},
           UNCHANGED <<props, arrived, overlapped, imageVars>>
    PROVE  TablesOK' /\ KeepsRows /\ GalleryOK /\ LeadAccountAgrees'
  <1>1. row # Null BY LeadsAssumption
  <1>2. \A x \in LeadIds : leads'[x] = IF x = l THEN row ELSE leads[x] BY DEF IInv, SiteTypeOK
  <1>3. leads' \in [LeadIds -> LeadRow \cup {Null}] BY DEF IInv, SiteTypeOK
  <1>4. told' \subseteq LeadNotice BY DEF IInv, SiteTypeOK
  <1>5. TablesOK' BY <1>3, <1>4 DEF IInv, SiteTypeOK, TablesOK, imageVars
  <1>6. KeepsRows BY <1>1, <1>2 DEF KeepsRows, Exists, imageVars
  <1>7. GalleryOK BY DEF GalleryOK, imageVars
  <1>8. \A x \in LeadIds : leads'[x] # Null /\ leads'[x].propertyId # Null =>
          /\ Exists(leads'[x].propertyId)
          /\ props[leads'[x].propertyId].ownerId = leads'[x].ownerId
    BY <1>2 DEF IInv, LeadAccountAgrees
  <1>9. \A notice \in told' :
          leads'[notice.lead] # Null /\ notice.userId = leads'[notice.lead].ownerId
    <2>1. SUFFICES ASSUME NEW notice \in told'
                   PROVE  leads'[notice.lead] # Null
                          /\ notice.userId = leads'[notice.lead].ownerId
      OBVIOUS
    <2>2. notice.lead \in LeadIds BY <1>4 DEF LeadNotice
    <2>3. CASE notice \in told
      <3>1. leads[notice.lead] # Null /\ notice.userId = leads[notice.lead].ownerId
        BY <2>3 DEF IInv, LeadAccountAgrees
      <3>2. QED BY <1>1, <1>2, <2>2, <3>1
    <2>4. CASE notice \notin told BY <1>1, <1>2, <2>2, <2>4
    <2>5. QED BY <2>3, <2>4
  <1>10. LeadAccountAgrees' BY <1>8, <1>9 DEF LeadAccountAgrees, Exists
  <1>11. QED BY <1>5, <1>6, <1>7, <1>10

\* The writes of the leads.
LEMMA LeadWriteStep ==
    ASSUME IInv, NEW r \in Requests, UNCHANGED imageVars,
           LeadInsert(r) \/ LeadWrite(r) \/ LeadRemove(r)
    PROVE  IInv'
  <1>1. /\ req[r] \in Handler /\ LocalOK(req[r])
        /\ req[r].pc \in {"leadInsert", "leadWrite", "leadRemove"}
    BY Running DEF LeadInsert, LeadWrite, LeadRemove, At
  <1>2. PICK h : h = req[r] OBVIOUS
  <1>3. h.owner \in Users BY <1>1, <1>2 DEF LocalOK, LeadSteps
  <1>4. UNCHANGED <<props, arrived, overlapped>> /\ Answer(r)
    BY DEF LeadInsert, LeadWrite, LeadRemove
  <1>5. PICK l \in LeadIds, row \in LeadRow :
          /\ leads[l] # Null => row.ownerId = leads[l].ownerId
          /\ row.propertyId # Null =>
               Exists(row.propertyId) /\ props[row.propertyId].ownerId = row.ownerId
          /\ leads' = [leads EXCEPT ![l] = row]
          /\ told' \subseteq told \cup {n \in LeadNotice : n.lead = l /\ n.userId = row.ownerId}
    <2>1. CASE LeadInsert(r)
      <3>1. PICK l \in LeadIds :
              /\ leads[l] = Null
              /\ leads' = [leads EXCEPT ![l] = NewLead(h.owner, h.id)]
              /\ Notify({[userId |-> h.owner, what |-> "nuevo", lead |-> l]})
        BY <1>2, <2>1 DEF LeadInsert
      <3>2. \/ h.id = Undefined
            \/ h.id \in Properties /\ Exists(h.id) /\ props[h.id].ownerId = h.owner
        BY <1>1, <1>2, <2>1 DEF LeadInsert, At, LocalOK
      <3>3. PICK row : row = NewLead(h.owner, h.id) OBVIOUS
      <3>4. row \in LeadRow /\ row.ownerId = h.owner
        BY <1>3, <3>2, <3>3 DEF NewLead, LeadRow, LeadStatus
      <3>5. row.propertyId # Null => row.propertyId = h.id /\ h.id # Undefined
        BY <3>3 DEF NewLead
      <3>6. [userId |-> h.owner, what |-> "nuevo", lead |-> l] \in LeadNotice
        BY <1>3 DEF LeadNotice
      <3>7. told' \subseteq told \cup {n \in LeadNotice : n.lead = l /\ n.userId = row.ownerId}
        BY <3>1, <3>4, <3>6 DEF Notify
      <3>8. QED BY <3>1, <3>2, <3>3, <3>4, <3>5, <3>7
    <2>2. CASE LeadWrite(r)
      <3>1. /\ h.pc = "leadWrite" /\ h.id \in LeadIds /\ leads[h.id] # Null
            /\ h.dto \in LeadDtos /\ leads[h.id].ownerId = h.owner
            /\ h.dto.propertyId \in Properties =>
                 Exists(h.dto.propertyId) /\ props[h.dto.propertyId].ownerId = h.owner
            /\ h.dto.propertyId # Null /\ h.dto.estado # Null
        BY <1>1, <1>2, <2>2 DEF LeadWrite, At, LocalOK
      <3>2. leads[h.id] \in LeadRow BY <3>1 DEF IInv, SiteTypeOK
      <3>3. /\ h.dto.propertyId \in Properties \cup {Undefined}
            /\ h.dto.estado \in LeadStatus \cup {Undefined}
        BY <3>1, LeadsAssumption
      <3>4. PICK row : row = LeadPatched(leads[h.id], h.dto) OBVIOUS
      <3>5. /\ row = [leads[h.id] EXCEPT
                        !.propertyId = IfGiven(h.dto.propertyId, leads[h.id].propertyId),
                        !.estado = IfGiven(h.dto.estado, leads[h.id].estado)]
        BY <3>2, <3>4 DEF LeadPatched, LeadRow
      <3>6. /\ IfGiven(h.dto.propertyId, leads[h.id].propertyId) \in Properties \cup {Null}
            /\ IfGiven(h.dto.estado, leads[h.id].estado) \in LeadStatus
        BY <3>2, <3>3 DEF IfGiven, LeadRow
      <3>7. /\ row \in LeadRow /\ row.ownerId = leads[h.id].ownerId
            /\ row.propertyId = IfGiven(h.dto.propertyId, leads[h.id].propertyId)
        BY <3>2, <3>5, <3>6 DEF LeadRow
      <3>8. row.propertyId # Null =>
              Exists(row.propertyId) /\ props[row.propertyId].ownerId = row.ownerId
        BY <3>1, <3>3, <3>7 DEF IfGiven, IInv, LeadAccountAgrees
      <3>9. leads' = [leads EXCEPT ![h.id] = row]
        BY <1>2, <2>2, <3>4 DEF LeadWrite
      <3>10. told' \subseteq told
                \cup {n \in LeadNotice : n.lead = h.id /\ n.userId = row.ownerId}
        <4>1. PICK calls :
                /\ told' \subseteq told \cup calls
                /\ calls = IF h.dto.estado \in {"VISITA_AGENDADA", "GANADO"} \ {h.seen}
                             THEN {[userId |-> h.owner, what |-> h.dto.estado, lead |-> h.id]}
                             ELSE {}
          BY <1>2, <2>2 DEF LeadWrite, Notify
        <4>2. h.dto.estado \in {"VISITA_AGENDADA", "GANADO"} =>
                [userId |-> h.owner, what |-> h.dto.estado, lead |-> h.id] \in LeadNotice
          BY <1>3, <3>1 DEF LeadNotice
        <4>3. QED BY <3>1, <3>7, <4>1, <4>2
      <3>11. QED BY <3>1, <3>7, <3>8, <3>9, <3>10
    <2>3. CASE LeadRemove(r)
      <3>1. h.id \in LeadIds /\ leads[h.id] # Null
        BY <1>1, <1>2, <2>3 DEF LeadRemove, At, LocalOK
      <3>2. leads[h.id] \in LeadRow BY <3>1 DEF IInv, SiteTypeOK
      <3>3. PICK row : row = [leads[h.id] EXCEPT !.isActive = FALSE] OBVIOUS
      <3>4. /\ row \in LeadRow /\ row.ownerId = leads[h.id].ownerId
            /\ row.propertyId = leads[h.id].propertyId
        BY <3>2, <3>3 DEF LeadRow
      <3>5. leads' = [leads EXCEPT ![h.id] = row] BY <1>2, <2>3, <3>3 DEF LeadRemove
      <3>6. row.propertyId # Null =>
              Exists(row.propertyId) /\ props[row.propertyId].ownerId = row.ownerId
        BY <3>1, <3>4 DEF IInv, LeadAccountAgrees
      <3>7. told' = told BY <2>3 DEF LeadRemove
      <3>8. QED BY <3>1, <3>4, <3>5, <3>6, <3>7
    <2>4. QED BY <2>1, <2>2, <2>3
  <1>6. TablesOK' /\ KeepsRows /\ GalleryOK /\ LeadAccountAgrees'
    BY <1>4, <1>5, LeadRowWritten
  <1>7. LocalOK(Idle)' BY <1>6, IdleOK, LocalKept
  <1>8. QED BY <1>4, <1>6, <1>7, AnswerTo, MoveOK, StepOK

\* The steps of Leads keep the types and the accounts.
LEMMA LeadsIInv ==
    ASSUME IInv, LeadsNext, UNCHANGED imageVars
    PROVE  IInv'
  <1>1. ASSUME NEW r \in Requests, LeadFail(r) PROVE IInv'
    BY <1>1, StillTyped, AnswerTo, RequestStep DEF LeadFail, Unchanged
  <1>2. QED
    BY <1>1, LeadStarts, FormReadStep, LeadReads, LeadWriteStep DEF LeadsNext

-----------------------------------------------------------------------------
\* IInv is inductive.
LEMMA NextIInv == IInv /\ [SiteNext]_siteVars => IInv'
  <1> SUFFICES ASSUME IInv, [SiteNext]_siteVars PROVE IInv'
    OBVIOUS
  <1>1. CASE UNCHANGED siteVars
    <2>1. TablesOK' BY <1>1 DEF siteVars, imageVars, leadVars, IInv, SiteTypeOK, TablesOK
    <2>2. KeepsRows /\ GalleryOK
      BY <1>1 DEF siteVars, imageVars, leadVars, KeepsRows, GalleryOK, Exists
    <2>3. LeadAccountAgrees' BY <1>1, <2>2, AccountKept DEF siteVars
    <2>4. QED BY <1>1, <2>1, <2>2, <2>3, StepOK DEF siteVars, IInv, SiteTypeOK
  <1>2. CASE SiteNext BY <1>2, CatalogueIInv, ImagesIInv, LeadsIInv DEF SiteNext
  <1>3. QED BY <1>1, <1>2

\* The rows and the handlers always have their types.
THEOREM SiteTyped == SiteSpec => []SiteTypeOK
  <1>1. IInv => SiteTypeOK BY DEF IInv
  <1>2. QED BY <1>1, InitIInv, NextIInv, PTL DEF SiteSpec

\* A lead, its property and its notices are of one account, whoever brought it
\* and however the handlers of the catalogue and of the form interleave.
THEOREM LeadsStayInAccount == SiteSpec => []LeadAccountAgrees
  <1>1. IInv => LeadAccountAgrees BY DEF IInv
  <1>2. QED BY <1>1, InitIInv, NextIInv, PTL DEF SiteSpec
-----------------------------------------------------------------------------
(***************************************************************************)
(* How the requests move: one at a time, to a step of its own component,   *)
(* and about the same property or user; one that begins while another is   *)
(* in flight on the same is noted in overlapped.                           *)
(***************************************************************************)
Advance(r, steps) ==
    /\ \A s \in Requests \ {r} : req'[s] = req[s]
    /\ overlapped \subseteq overlapped'
    /\ \/ req'[r] = Idle
       \/ /\ req'[r].pc \in steps
          /\ req[r].pc # "idle" /\ req'[r].on = req[r].on
       \/ /\ req'[r].pc \in steps
          /\ req'[r].on \in overlapped' \cup {Null} \/ InFlightOn(req'[r].on) = {}

ImageSteps == UploadSteps \cup DeleteSteps \cup AvatarSteps

\* A handler that answers.
LEMMA AnswerAdvances ==
    ASSUME IInv, NEW r \in Requests, NEW steps, Answer(r), UNCHANGED overlapped
    PROVE  Advance(r, steps)
  BY DEF Answer, Advance, IInv, SiteTypeOK

\* A handler that goes on, whatever else it remembers.
LEMMA GoingAdvances ==
    ASSUME IInv, NEW r \in Requests, req[r].pc # "idle", UNCHANGED overlapped,
           NEW steps, NEW step \in steps, NEW seen, NEW id, NEW owner,
           \/ Continue(r, step)
           \/ ContinueWith(r, step, seen)
           \/ req' = [req EXCEPT ![r].pc = step, ![r].id = id]
           \/ req' = [req EXCEPT ![r].owner = owner, ![r].pc = step]
    PROVE  Advance(r, steps)
  <1>1. req \in [Requests -> IdleRequest \cup Handler] BY DEF IInv, SiteTypeOK
  <1>2. PICK h \in Handler : h = req[r] BY Running
  <1>3. PICK q : /\ req' = [req EXCEPT ![r] = q]
                 /\ \/ q = [h EXCEPT !.pc = step]
                    \/ q = [h EXCEPT !.pc = step, !.seen = seen]
                    \/ q = [h EXCEPT !.pc = step, !.id = id]
                    \/ q = [h EXCEPT !.owner = owner, !.pc = step]
    <2>1. CASE Continue(r, step) BY <1>2, <2>1 DEF Continue
    <2>2. CASE ContinueWith(r, step, seen) BY <1>1, <1>2, <2>2 DEF ContinueWith
    <2>3. CASE req' = [req EXCEPT ![r].pc = step, ![r].id = id] BY <1>1, <1>2, <2>3
    <2>4. CASE req' = [req EXCEPT ![r].owner = owner, ![r].pc = step] BY <1>1, <1>2, <2>4
    <2>5. QED BY <2>1, <2>2, <2>3, <2>4
  <1>4. q.pc = step /\ q.on = h.on
    <2> DEFINE ids == Pictures \cup (SUBSET Pictures) \cup LeadIds \cup Properties
                        \cup {Undefined, Null}
               seens == {"published"} \cup MainPictures \cup LeadStatus
               dtos == PropertyDtos \cup LeadDtos \cup {Null}
               ons == Properties \cup Users \cup {Null}
    <2>1. h \in [pc : Steps, on : ons, owner : Scopes, id : ids, dto : dtos, seen : seens]
      BY DEF Handler, Steps
    <2> HIDE DEF ids, seens, dtos, ons
    <2>2. QED BY <1>3, <2>1
  <1>5. QED BY <1>1, <1>2, <1>3, <1>4 DEF Advance

\* A request that begins.
LEMMA BeginAdvances ==
    ASSUME IInv, NEW r \in Requests, NEW steps, NEW step \in steps,
           NEW on, NEW owner, NEW id, NEW dto, Begin(r, step, on, owner, id, dto)
    PROVE  Advance(r, steps)
  <1>1. \A s \in Requests \ {r} : req'[s] = req[s] BY DEF Begin, IInv, SiteTypeOK
  <1>2. req'[r].pc = step /\ req'[r].on = on BY DEF Begin, IInv, SiteTypeOK
  <1>3. overlapped \subseteq overlapped' BY DEF Begin
  <1>4. on \in overlapped' \cup {Null} \/ InFlightOn(on) = {} BY DEF Begin
  <1>5. QED BY <1>1, <1>2, <1>3, <1>4 DEF Advance

\* The requests in the steps of Catalogue.
LEMMA CatalogueAdvances ==
    ASSUME IInv, CatalogueNext
    PROVE  \/ UNCHANGED <<req, overlapped>>
           \/ \E r \in Requests :
                Advance(r, CatalogueSteps) /\ req[r].pc \in CatalogueSteps \cup {"idle"}
  <1>1. ASSUME NEW r \in Requests, NEW p \in Properties, NEW owner \in Scopes,
               \/ \E dto \in PropertyDtos : PropertyPatchStart(r, p, owner, dto)
               \/ PropertyRemoveStart(r, p, owner)
        PROVE  Advance(r, CatalogueSteps) /\ req[r].pc \in CatalogueSteps \cup {"idle"}
    BY <1>1, BeginAdvances DEF PropertyPatchStart, PropertyRemoveStart, CatalogueSteps, Begin, At
  <1>2. ASSUME NEW r \in Requests, NEW step \in {"propertyFind", "propertyFindRemove"},
               NEW next \in {"propertyWrite", "propertyRemove"}, PropertyFind(r, step, next)
        PROVE  Advance(r, CatalogueSteps) /\ req[r].pc \in CatalogueSteps \cup {"idle"}
    BY <1>2, AnswerAdvances, GoingAdvances DEF PropertyFind, At, CatalogueSteps
  <1>3. ASSUME NEW r \in Requests, PropertyWrite(r) \/ PropertyRemove(r) \/ PropertyFail(r)
        PROVE  Advance(r, CatalogueSteps) /\ req[r].pc \in CatalogueSteps \cup {"idle"}
    BY <1>3, AnswerAdvances DEF PropertyWrite, PropertyRemove, PropertyFail, At, CatalogueSteps
  <1>4. QED BY <1>1, <1>2, <1>3 DEF CatalogueNext, PropertyCreate

\* The requests in the steps of Images.
LEMMA ImagesAdvance ==
    ASSUME IInv, ImagesNext
    PROVE  UNCHANGED <<req, overlapped>> \/ \E r \in Requests : Advance(r, ImageSteps)
  <1> USE DEF ImageSteps, UploadSteps, DeleteSteps, AvatarSteps
  <1>1. ASSUME NEW r \in Requests,
               \/ \E p \in Properties, owner \in Users : UploadStart(r, p, owner)
               \/ \E i \in Pictures, owner \in Users : DeleteStart(r, i, owner)
               \/ \E u \in Users : AvatarStart(r, u)
        PROVE  Advance(r, ImageSteps)
    BY <1>1, BeginAdvances DEF UploadStart, DeleteStart, AvatarStart
  <1>2. ASSUME NEW r \in Requests, UploadFind(r) \/ DeleteRemaining(r) \/ AvatarFind(r)
        PROVE  Advance(r, ImageSteps)
    BY <1>2, AnswerAdvances, GoingAdvances DEF UploadFind, DeleteRemaining, AvatarFind, At
  <1>3. ASSUME NEW r \in Requests, Save(r) \/ AvatarSave(r)
        PROVE  Advance(r, ImageSteps)
    BY <1>3, GoingAdvances DEF Save, AvatarSave, AvatarSaved, At
  <1>4. ASSUME NEW r \in Requests, SaveRows(r) \/ DeleteRow(r) \/ DeleteFind(r)
        PROVE  Advance(r, ImageSteps)
    BY <1>4, AnswerAdvances, GoingAdvances DEF SaveRows, DeleteRow, DeleteFind, At
  <1>5. ASSUME NEW r \in Requests, Unlink(r) \/ AvatarUnlink(r)
        PROVE  Advance(r, ImageSteps)
    BY <1>5, GoingAdvances DEF Unlink, AvatarUnlink, At
  <1>6. ASSUME NEW r \in Requests, NEW steps,
               \/ SaveMain(r) \/ DeleteMain(r) \/ AvatarWrite(r)
               \/ SaveFail(r) \/ ImageFail(r, steps)
        PROVE  Advance(r, ImageSteps)
    BY <1>6, AnswerAdvances DEF SaveMain, DeleteMain, AvatarWrite, SaveFail, ImageFail
  <1>7. QED BY <1>1, <1>2, <1>3, <1>4, <1>5, <1>6 DEF ImagesNext, ProfileWrite

\* The requests in the steps of Leads.
LEMMA LeadsAdvance ==
    ASSUME IInv, LeadsNext
    PROVE  \E r \in Requests : Advance(r, LeadSteps) /\ req[r].pc \in LeadSteps \cup {"idle"}
  <1> USE DEF LeadSteps
  <1>1. ASSUME NEW r \in Requests, NEW p, NEW l, NEW owner, NEW dto,
               \/ FormStart(r, p) \/ LeadStart(r, owner, p)
               \/ LeadRemoveStart(r, l, owner) \/ LeadPatchStart(r, l, owner, dto)
        PROVE  Advance(r, LeadSteps) /\ req[r].pc \in LeadSteps \cup {"idle"}
    BY <1>1, BeginAdvances DEF FormStart, LeadStart, LeadRemoveStart, LeadPatchStart, Begin, At
  <1>2. ASSUME NEW r \in Requests,
               LeadProperty(r) \/ LeadFind(r) \/ LeadMove(r) \/ LeadFindRemove(r)
        PROVE  Advance(r, LeadSteps) /\ req[r].pc \in LeadSteps \cup {"idle"}
    BY <1>2, AnswerAdvances, GoingAdvances
       DEF LeadProperty, LeadFind, LeadMove, LeadFindRemove, Unchanged, At
  <1>3. ASSUME NEW r \in Requests, FormRead(r)
        PROVE  Advance(r, LeadSteps) /\ req[r].pc \in LeadSteps \cup {"idle"}
    BY <1>3, AnswerAdvances, GoingAdvances DEF FormRead, Unchanged, At
  <1>4. ASSUME NEW r \in Requests, LeadInsert(r) \/ LeadWrite(r) \/ LeadRemove(r) \/ LeadFail(r)
        PROVE  Advance(r, LeadSteps) /\ req[r].pc \in LeadSteps \cup {"idle"}
    BY <1>4, AnswerAdvances DEF LeadInsert, LeadWrite, LeadRemove, LeadFail, Unchanged, At
  <1>5. QED BY <1>1, <1>2, <1>3, <1>4 DEF LeadsNext
-----------------------------------------------------------------------------
(***************************************************************************)
(* The date of the publication.                                            *)
(***************************************************************************)
\* Two handlers in flight on the same row have overlapped; what a PATCH read of
\* the publication is true until it writes, unless it overlapped another.
PubInv ==
    /\ \A r, s \in Requests :
         r # s /\ req[r].pc # "idle" /\ req[s].pc # "idle" /\ req[r].on = req[s].on
           => req[r].on \in overlapped \cup {Null}
    /\ \A r \in Requests : req[r].pc = "propertyWrite" /\ req[r].on \notin overlapped =>
         (req[r].seen = "published" <=> props[req[r].on].publicado)
    /\ PublicationDated

\* No write of a publication.
KeepsPublication ==
    \A p \in Properties :
      /\ Exists(p) => props'[p] # Null /\ props'[p].publicado = props[p].publicado
      /\ props'[p] # Null /\ Exists(p) => props'[p].publicadoEn = props[p].publicadoEn
      /\ props'[p] # Null /\ ~Exists(p) => ~props'[p].publicado /\ props'[p].publicadoEn = Null

\* Handlers that overlap are noted.
LEMMA OverlapsNoted ==
    ASSUME IInv, PubInv, NEW steps, NEW r \in Requests, Advance(r, steps)
    PROVE  \A a, b \in Requests :
             a # b /\ req'[a].pc # "idle" /\ req'[b].pc # "idle" /\ req'[a].on = req'[b].on
               => req'[a].on \in overlapped' \cup {Null}
  <1>1. SUFFICES ASSUME NEW a \in Requests, NEW b \in Requests, a # b,
                        req'[a].pc # "idle", req'[b].pc # "idle", req'[a].on = req'[b].on
                 PROVE  req'[a].on \in overlapped' \cup {Null}
    OBVIOUS
  <1>2. ASSUME NEW c \in Requests, c # r, req'[c].pc # "idle", req'[r].pc # "idle",
               req'[c].on = req'[r].on
        PROVE  req'[r].on \in overlapped' \cup {Null}
    <2>1. req'[c] = req[c] BY <1>2 DEF Advance
    <2>2. CASE req[r].pc # "idle" /\ req'[r].on = req[r].on
      BY <1>2, <2>1, <2>2 DEF PubInv, Advance
    <2>3. CASE req'[r].on \in overlapped' \cup {Null} BY <2>3
    <2>4. CASE InFlightOn(req'[r].on) = {}
      <3>1. c \in InFlightOn(req'[r].on) BY <1>2, <2>1 DEF InFlightOn, At
      <3>2. QED BY <2>4, <3>1
    <2>5. req'[r] # Idle BY <1>2 DEF Idle
    <2>6. QED BY <2>2, <2>3, <2>4, <2>5 DEF Advance
  <1>3. CASE a = r BY <1>1, <1>2, <1>3
  <1>4. CASE b = r BY <1>1, <1>2, <1>4
  <1>5. CASE a # r /\ b # r BY <1>1, <1>5 DEF Advance, PubInv
  <1>6. QED BY <1>3, <1>4, <1>5

\* A step without a write of a publication, whose handler does not come to one.
LEMMA PublicationKept ==
    ASSUME IInv, PubInv, KeepsPublication, NEW steps, "propertyWrite" \notin steps,
           \/ UNCHANGED <<req, overlapped>>
           \/ \E r \in Requests : Advance(r, steps)
    PROVE  PubInv'
  <1>1. \A a, b \in Requests :
          a # b /\ req'[a].pc # "idle" /\ req'[b].pc # "idle" /\ req'[a].on = req'[b].on
            => req'[a].on \in overlapped' \cup {Null}
    <2>1. CASE UNCHANGED <<req, overlapped>> BY <2>1 DEF PubInv
    <2>2. QED BY <2>1, OverlapsNoted
  <1>2. overlapped \subseteq overlapped' BY DEF Advance
  <1>3. ASSUME NEW a \in Requests, req'[a].pc = "propertyWrite", req'[a].on \notin overlapped'
        PROVE  req'[a].seen = "published" <=> props'[req'[a].on].publicado
    <2>1. req'[a] = req[a] BY <1>3 DEF Advance, Idle
    <2>2. LocalOK(req[a]) BY DEF IInv
    <2>3. req[a].on \in Properties /\ Exists(req[a].on)
      BY <1>3, <2>1, <2>2 DEF LocalOK, CatalogueSteps
    <2>4. QED BY <1>2, <1>3, <2>1, <2>3 DEF KeepsPublication, PubInv
  <1>4. PublicationDated' BY <1>2 DEF PubInv, KeepsPublication, PublicationDated, Exists
  <1>5. QED BY <1>1, <1>3, <1>4 DEF PubInv

\* A step that writes no row of a property.
LEMMA PropsKept ==
    ASSUME UNCHANGED props
    PROVE  KeepsPublication
  BY DEF KeepsPublication, Exists

\* POST /properties creates one that is not published.
LEMMA PubCreate ==
    ASSUME IInv, PubInv, NEW owner, NEW p \in Properties, NEW picture,
           PropertyCreate(owner, p, picture)
    PROVE  PubInv'
  <1>1. PICK row : row = NewProperty(owner, picture) OBVIOUS
  <1>2. row.publicado = FALSE /\ row.publicadoEn = Null BY <1>1 DEF NewProperty
  <1>3. \A x \in Properties : props'[x] = IF x = p THEN row ELSE props[x]
    BY <1>1 DEF PropertyCreate, IInv, SiteTypeOK
  <1>4. props[p] = Null BY DEF PropertyCreate, Exists
  <1>5. KeepsPublication BY <1>2, <1>3, <1>4 DEF KeepsPublication, Exists
  <1>6. "propertyWrite" \notin {} OBVIOUS
  <1>7. QED BY <1>5, <1>6, PublicationKept DEF PropertyCreate

\* PATCH reads the publication, and DELETE the property.
LEMMA PubFind ==
    ASSUME IInv, PubInv, NEW r \in Requests,
           NEW step \in {"propertyFind", "propertyFindRemove"},
           NEW next \in {"propertyWrite", "propertyRemove"}, PropertyFind(r, step, next)
    PROVE  PubInv'
  <1>1. req[r] \in Handler /\ LocalOK(req[r]) /\ req[r].pc = step
    BY Running DEF PropertyFind, At
  <1>2. req[r].on \in Properties /\ Exists(req[r].on)
    BY <1>1 DEF LocalOK, CatalogueSteps
  <1>3. UNCHANGED <<props, overlapped>> BY DEF PropertyFind
  <1>4. Advance(r, CatalogueSteps)
    BY <1>1, <1>3, AnswerAdvances, GoingAdvances DEF PropertyFind, CatalogueSteps
  <1>5. ASSUME NEW a \in Requests, req'[a].pc = "propertyWrite", req'[a].on \notin overlapped'
        PROVE  req'[a].seen = "published" <=> props'[req'[a].on].publicado
    <2>1. CASE a # r BY <1>3, <1>4, <1>5, <2>1 DEF Advance, PubInv
    <2>2. CASE a = r
      <3>1. ContinueWith(r, next, Publication(props[req[r].on]))
        BY <1>5, <2>2 DEF PropertyFind, Answer, Idle, IInv, SiteTypeOK
      <3>2. PICK seen \in {"published", Null} :
              /\ seen = Publication(props[req[r].on])
              /\ ContinueWith(r, next, seen)
        BY <3>1 DEF Publication
      <3>3. PICK q : q = [req[r] EXCEPT !.pc = next, !.seen = seen] OBVIOUS
      <3>4. To(r, q) BY <1>1, <3>2, <3>3, GoesTo DEF Steps, CatalogueSteps, MainPictures
      <3>5. req'[r] = q BY <3>4 DEF To, IInv, SiteTypeOK
      <3>6. q.seen = seen /\ q.on = req[r].on BY <1>1, <3>3 DEF Handler
      <3>7. props[req[r].on].publicado \in BOOLEAN
        BY <1>2 DEF Exists, IInv, SiteTypeOK, PropertyRow
      <3>8. seen = "published" <=> props[req[r].on].publicado
        BY <3>2, <3>7, CatalogueAssumption DEF Publication
      <3>9. QED BY <1>3, <2>2, <3>5, <3>6, <3>8
    <2>3. QED BY <2>1, <2>2
  <1>6. PublicationDated' BY <1>3 DEF PubInv, PublicationDated, Exists
  <1>7. QED BY <1>4, <1>5, <1>6, OverlapsNoted DEF PubInv

\* PATCH writes publicado and publicadoEn.
LEMMA PubWrite ==
    ASSUME IInv, PubInv, NEW r \in Requests, PropertyWrite(r)
    PROVE  PubInv'
  <1>1. req[r] \in Handler /\ LocalOK(req[r]) /\ req[r].pc = "propertyWrite"
    BY Running DEF PropertyWrite, At
  <1>2. PICK p \in Properties, h \in Handler :
          p = req[r].on /\ h = req[r] /\ props[p] \in PropertyRow
    BY <1>1 DEF LocalOK, CatalogueSteps, Exists, IInv, SiteTypeOK
  <1>3. h.dto \in PropertyDtos /\ h.dto.publicado # Null /\ h.seen \in {"published", Null}
    BY <1>1, <1>2 DEF PropertyWrite, LocalOK
  <1>4. PICK row \in PropertyRow : row = PropertyPatched(props[p], h)
    BY <1>2, <1>3, PatchedProperty
  <1>5. \A x \in Properties : props'[x] = IF x = p THEN row ELSE props[x]
    BY <1>2, <1>4 DEF PropertyWrite, IInv, SiteTypeOK
  <1>6. Advance(r, {}) /\ UNCHANGED overlapped BY AnswerAdvances DEF PropertyWrite
  <1>7. req'[r] = Idle BY DEF PropertyWrite, Answer, IInv, SiteTypeOK
  <1>8. ASSUME NEW a \in Requests, req'[a].pc = "propertyWrite", req'[a].on \notin overlapped'
        PROVE  req'[a].seen = "published" <=> props'[req'[a].on].publicado
    <2>1. a # r BY <1>7, <1>8 DEF Idle
    <2>2. req'[a] = req[a] BY <1>6, <2>1 DEF Advance
    <2>3. req[a].on \in Properties
      BY <1>8, <2>2 DEF IInv, LocalOK, CatalogueSteps
    <2>4. req[a].on # p
      BY <1>1, <1>2, <1>6, <1>8, <2>1, <2>2, <2>3, CatalogueAssumption DEF PubInv
    <2>5. QED BY <1>5, <1>6, <1>8, <2>2, <2>3, <2>4 DEF PubInv
  <1>9. /\ ~row.publicado => row.publicadoEn = Null
        /\ row.publicado /\ p \notin overlapped => row.publicadoEn # Null
    <2>1. /\ row.publicado = IfGiven(h.dto.publicado, props[p].publicado)
          /\ row.publicadoEn = IfGiven(PublicadoEn(h), props[p].publicadoEn)
      BY <1>2, <1>3, <1>4, PatchedProperty
    <2>2. /\ ~props[p].publicado => props[p].publicadoEn = Null
          /\ props[p].publicado /\ p \notin overlapped => props[p].publicadoEn # Null
      BY <1>2, CatalogueAssumption DEF PubInv, PublicationDated, Exists
    <2>3. p \notin overlapped => (h.seen = "published" <=> props[p].publicado)
      BY <1>1, <1>2 DEF PubInv
    <2>4. h.dto.publicado \in {TRUE, FALSE, Undefined} BY <1>3, CatalogueAssumption
    <2>5. CASE h.dto.publicado = TRUE
      <3>1. row.publicado = TRUE BY <2>1, <2>5, CatalogueAssumption DEF IfGiven
      <3>2. CASE h.seen = Null
        BY <2>1, <2>5, <3>2, CatalogueAssumption DEF IfGiven, PublicadoEn
      <3>3. CASE h.seen # Null
        <4>1. row.publicadoEn = props[p].publicadoEn
          BY <2>1, <2>5, <3>3 DEF IfGiven, PublicadoEn
        <4>2. QED BY <1>3, <2>2, <2>3, <3>1, <3>3, <4>1
      <3>4. QED BY <3>1, <3>2, <3>3
    <2>6. CASE h.dto.publicado = FALSE
      <3>1. row.publicado = FALSE /\ row.publicadoEn = Null
        BY <2>1, <2>6, CatalogueAssumption DEF IfGiven, PublicadoEn
      <3>2. QED BY <3>1
    <2>7. CASE h.dto.publicado = Undefined
      <3>1. h.dto.publicado \notin BOOLEAN BY <2>7, CatalogueAssumption
      <3>2. row.publicado = props[p].publicado /\ row.publicadoEn = props[p].publicadoEn
        BY <2>1, <2>7, <3>1 DEF IfGiven, PublicadoEn
      <3>3. QED BY <2>2, <3>2
    <2>8. QED BY <2>4, <2>5, <2>6, <2>7
  <1>10. PublicationDated'
    <2>1. ASSUME NEW x \in Properties, props'[x] # Null
          PROVE  /\ ~props'[x].publicado => props'[x].publicadoEn = Null
                 /\ props'[x].publicado /\ x \notin overlapped => props'[x].publicadoEn # Null
      <3>1. CASE x = p BY <1>5, <1>9, <3>1
      <3>2. CASE x # p BY <1>5, <2>1, <3>2 DEF PubInv, PublicationDated, Exists
      <3>3. QED BY <3>1, <3>2
    <2>2. QED BY <1>6, <2>1 DEF PublicationDated, Exists
  <1>11. QED BY <1>6, <1>8, <1>10, OverlapsNoted DEF PubInv

\* DELETE of a property, and the writes of the main picture, keep publications.
LEMMA PubOtherWrite ==
    ASSUME IInv, PubInv, NEW r \in Requests,
           PropertyRemove(r) \/ SaveMain(r) \/ DeleteMain(r)
    PROVE  PubInv'
  <1>1. /\ req[r] \in Handler /\ LocalOK(req[r])
        /\ req[r].pc \in {"propertyRemove", "main", "setMain"}
    BY Running DEF PropertyRemove, SaveMain, DeleteMain, At
  <1>2. PICK p \in Properties : p = req[r].on /\ props[p] \in PropertyRow
    BY <1>1 DEF LocalOK, CatalogueSteps, UploadSteps, DeleteSteps, Exists, IInv, SiteTypeOK
  <1>3. PICK row \in PropertyRow :
          /\ props' = [props EXCEPT ![p] = row]
          /\ row.publicado = props[p].publicado /\ row.publicadoEn = props[p].publicadoEn
    <2>1. CASE PropertyRemove(r)
      <3>1. PICK row : row = [props[p] EXCEPT !.isActive = FALSE] OBVIOUS
      <3>2. props' = [props EXCEPT ![p] = row] BY <1>2, <2>1, <3>1 DEF PropertyRemove
      <3>3. /\ row \in PropertyRow
            /\ row.publicado = props[p].publicado /\ row.publicadoEn = props[p].publicadoEn
        BY <1>2, <3>1 DEF PropertyRow
      <3>4. QED BY <3>2, <3>3
    <2>2. CASE ~PropertyRemove(r)
      <3>1. PICK i \in MainPictures : props' = [props EXCEPT ![p].imagenPrincipal = i]
        BY <1>2, <2>2, MainWritten
      <3>2. PICK row : row = [props[p] EXCEPT !.imagenPrincipal = i] OBVIOUS
      <3>3. props' = [props EXCEPT ![p] = row] BY <3>1, <3>2
      <3>4. /\ row \in PropertyRow
            /\ row.publicado = props[p].publicado /\ row.publicadoEn = props[p].publicadoEn
        BY <1>2, <3>2 DEF PropertyRow
      <3>5. QED BY <3>3, <3>4
    <2>3. QED BY <2>1, <2>2
  <1>4. \A x \in Properties : props'[x] = IF x = p THEN row ELSE props[x]
    BY <1>3 DEF IInv, SiteTypeOK
  <1>5. KeepsPublication
    BY <1>2, <1>3, <1>4, CatalogueAssumption DEF KeepsPublication, Exists
  <1>6. Advance(r, {})
    BY AnswerAdvances DEF PropertyRemove, SaveMain, DeleteMain
  <1>7. QED BY <1>5, <1>6, PublicationKept

\* Every step keeps the dates.
LEMMA NextPubInv == IInv /\ PubInv /\ [SiteNext]_siteVars => PubInv'
  <1> SUFFICES ASSUME IInv, PubInv, [SiteNext]_siteVars PROVE PubInv'
    OBVIOUS
  <1>1. CASE UNCHANGED siteVars
    <2>1. "propertyWrite" \notin {} OBVIOUS
    <2>2. QED BY <1>1, <2>1, PropsKept, PublicationKept DEF siteVars
  <1>2. CASE LeadsNext
    <2>1. UNCHANGED props
      BY <1>2
         DEF LeadsNext, FormStart, LeadStart, LeadRemoveStart, LeadPatchStart, FormRead,
             LeadProperty, LeadInsert, LeadFind, LeadMove, LeadWrite, LeadFindRemove, LeadRemove,
             LeadFail, Unchanged
    <2>2. "propertyWrite" \notin LeadSteps BY DEF LeadSteps
    <2>3. QED BY <1>2, <2>1, <2>2, LeadsAdvance, PropsKept, PublicationKept
  <1>3. CASE ImagesNext
    <2>1. UNCHANGED props \/ \E r \in Requests : SaveMain(r) \/ DeleteMain(r)
      BY <1>3
         DEF ImagesNext, UploadStart, DeleteStart, AvatarStart, UploadFind, Save, SaveFail,
             SaveRows, DeleteFind, Unlink, DeleteRow, DeleteRemaining, AvatarFind, AvatarUnlink,
             AvatarSave, AvatarSaved, AvatarWrite, ImageFail, ProfileWrite
    <2>2. "propertyWrite" \notin ImageSteps
      BY DEF ImageSteps, UploadSteps, DeleteSteps, AvatarSteps
    <2>3. CASE UNCHANGED props
      BY <1>3, <2>2, <2>3, ImagesAdvance, PropsKept, PublicationKept
    <2>4. QED BY <2>1, <2>3, PubOtherWrite
  <1>4. CASE CatalogueNext
    <2>1. ASSUME NEW r \in Requests, NEW p \in Properties, NEW owner \in Scopes,
                 \/ \E dto \in PropertyDtos : PropertyPatchStart(r, p, owner, dto)
                 \/ PropertyRemoveStart(r, p, owner)
          PROVE  PubInv'
      <3>1. Advance(r, {"propertyFind", "propertyFindRemove"}) /\ UNCHANGED props
        BY <2>1, BeginAdvances DEF PropertyPatchStart, PropertyRemoveStart
      <3>2. QED BY <3>1, PropsKept, PublicationKept
    <2>2. ASSUME NEW r \in Requests, PropertyFail(r) PROVE PubInv'
      <3>1. Advance(r, {}) /\ UNCHANGED props BY <2>2, AnswerAdvances DEF PropertyFail
      <3>2. QED BY <3>1, PropsKept, PublicationKept
    <2>3. QED
      BY <1>4, <2>1, <2>2, PubCreate, PubFind, PubWrite, PubOtherWrite DEF CatalogueNext
  <1>5. QED BY <1>1, <1>2, <1>3, <1>4 DEF SiteNext

\* A property that is not published has no date; one that is published has,
\* unless two of its handlers overlapped.
THEOREM PublicationsAreDated == SiteSpec => []PublicationDated
  <1>1. SiteInit => PubInv
    BY CatalogueAssumption
       DEF SiteInit, CatalogueInit, PubInv, PublicationDated, Idle, Exists, NewProperty
  <1>2. PubInv => PublicationDated BY DEF PubInv
  <1>3. QED BY <1>1, <1>2, InitIInv, NextIInv, NextPubInv, PTL DEF SiteSpec
-----------------------------------------------------------------------------
(***************************************************************************)
(* The files of the rows.  A picture is of a gallery, of an avatar or of   *)
(* neither, and never of both: the names are generated and never used      *)
(* twice.  So an avatar that is replaced takes no row's file with it.      *)
(***************************************************************************)
\* What the handler with locals h holds of picture i.
HoldsRow(h, i) == h.pc = "rows" /\ i \in h.id
HoldsAvatar(h, i) == (h.pc = "avatarWrite" /\ h.id = i) \/ (h.pc = "avatarUnlink" /\ h.seen = i)

OfGallery(i) ==
    gallery[i] # Null \/ i \in lost \/ \E r \in Requests : HoldsRow(req[r], i)
OfAvatar(i) ==
    (\E u \in Users : avatar[u] = i) \/ \E r \in Requests : HoldsAvatar(req[r], i)

NamesInv ==
    \A i \in Pictures :
      /\ OfGallery(i) => i \in used /\ i \in files \cup lost /\ ~OfAvatar(i)
      /\ OfAvatar(i) => i \in used

\* A step may let go of pictures; it takes new ones under new names.
LEMMA NamesKept ==
    ASSUME NamesInv, used \subseteq used', lost \subseteq lost',
           \A i \in Pictures : OfGallery(i)' =>
             \/ OfGallery(i) /\ (i \in files => i \in files' \cup lost')
             \/ i \in (used' \cap files') \ used,
           \A i \in Pictures : OfAvatar(i)' => OfAvatar(i) \/ i \in used' \ used,
           \A i \in Pictures : ~(OfGallery(i)' /\ OfAvatar(i)' /\ i \notin used)
    PROVE  NamesInv'
  BY DEF NamesInv

\* Steps that leave the pictures alone.
LEMMA NamesStay ==
    ASSUME IInv, NamesInv, UNCHANGED <<files, used, gallery, lost>>,
           \A u \in Users : avatar'[u] \in {avatar[u], "external", Null}, NEW steps,
           steps \cap {"rows", "avatarWrite", "avatarUnlink"} = {},
           \/ UNCHANGED <<req, overlapped>>
           \/ \E r \in Requests : Advance(r, steps)
    PROVE  NamesInv'
  <1>1. ASSUME NEW r \in Requests, NEW i
        PROVE  /\ HoldsRow(req'[r], i) => HoldsRow(req[r], i)
               /\ HoldsAvatar(req'[r], i) => HoldsAvatar(req[r], i)
    BY DEF Advance, HoldsRow, HoldsAvatar, Idle
  <1>2. ASSUME NEW i \in Pictures
        PROVE  (OfGallery(i)' => OfGallery(i)) /\ (OfAvatar(i)' => OfAvatar(i))
    BY <1>1, CatalogueAssumption DEF OfGallery, OfAvatar
  <1>3. QED BY <1>2, NamesKept DEF NamesInv

\* Steps of one handler that let it hold what was of the same kind.
LEMMA NamesMove ==
    ASSUME IInv, NamesInv, NEW r \in Requests,
           \A s \in Requests \ {r} : req'[s] = req[s],
           used' = used, lost \subseteq lost',
           \A i \in Pictures : i \in files /\ i \notin files' => i \in lost' \/ OfAvatar(i),
           \A i \in Pictures :
             gallery'[i] # Null \/ i \in lost' \/ HoldsRow(req'[r], i) => OfGallery(i),
           \A i \in Pictures :
             (\E u \in Users : avatar'[u] = i) \/ HoldsAvatar(req'[r], i) => OfAvatar(i)
    PROVE  NamesInv'
  <1>1. ASSUME NEW i \in Pictures
        PROVE  (OfGallery(i)' => OfGallery(i)) /\ (OfAvatar(i)' => OfAvatar(i))
    <2>1. \A s \in Requests \ {r} :
            /\ HoldsRow(req'[s], i) => OfGallery(i)
            /\ HoldsAvatar(req'[s], i) => OfAvatar(i)
      BY DEF OfGallery, OfAvatar
    <2>2. OfGallery(i)' => OfGallery(i)
      BY <2>1 DEF OfGallery
    <2>3. OfAvatar(i)' => OfAvatar(i)
      BY <2>1 DEF OfAvatar
    <2>4. QED BY <2>2, <2>3
  <1>2. \A i \in Pictures : OfGallery(i) => (i \in files => i \in files' \cup lost')
    BY DEF NamesInv
  <1>3. QED BY <1>1, <1>2, NamesKept DEF NamesInv
\* A handler of Images that reads, writes a property or ends.
LEMMA NamesQuiet ==
    ASSUME IInv, NamesInv, NEW r \in Requests,
           \/ UploadFind(r) \/ SaveMain(r) \/ DeleteRemaining(r) \/ DeleteMain(r)
           \/ /\ ImageFail(r, (UploadSteps \ {"save"}) \cup DeleteSteps \cup AvatarSteps)
              /\ UNCHANGED <<storage, gallery, avatar, lost>>
    PROVE  NamesInv'
  <1>1. req[r].pc # "idle"
    BY DEF UploadFind, SaveMain, DeleteRemaining, DeleteMain, ImageFail, At, UploadSteps,
           DeleteSteps, AvatarSteps
  <1>2. UNCHANGED <<files, used, gallery, avatar, lost>>
    BY DEF UploadFind, SaveMain, DeleteRemaining, DeleteMain, ImageFail, imageVars, storage
  <1>3. Advance(r, {"save", "setMain"})
    BY <1>1, AnswerAdvances, GoingAdvances
       DEF UploadFind, SaveMain, DeleteRemaining, DeleteMain, ImageFail
  <1>4. {"save", "setMain"} \cap {"rows", "avatarWrite", "avatarUnlink"} = {} OBVIOUS
  <1>5. QED BY <1>2, <1>3, <1>4, NamesStay

\* The batch becomes rows.
LEMMA NamesSaveRows ==
    ASSUME IInv, NamesInv, NEW r \in Requests, SaveRows(r)
    PROVE  NamesInv'
  <1>1. req[r].pc = "rows" BY DEF SaveRows, At
  <1>2. Advance(r, {"main"})
    BY <1>1, AnswerAdvances, GoingAdvances DEF SaveRows
  <1>3. ASSUME NEW i \in Pictures
        PROVE  ~HoldsRow(req'[r], i) /\ ~HoldsAvatar(req'[r], i)
    BY <1>2 DEF Advance, HoldsRow, HoldsAvatar, Idle
  <1>4. UNCHANGED <<files, used, avatar, lost>> BY DEF SaveRows
  <1>5. ASSUME NEW i \in Pictures, gallery'[i] # Null PROVE OfGallery(i)
    <2>1. gallery'[i] = IF i \in req[r].id THEN req[r].on ELSE gallery[i] BY DEF SaveRows
    <2>2. CASE i \in req[r].id BY <1>1, <2>2 DEF OfGallery, HoldsRow
    <2>3. CASE i \notin req[r].id BY <1>5, <2>1, <2>3 DEF OfGallery
    <2>4. QED BY <2>2, <2>3
  <1>6. \A i \in Pictures :
          gallery'[i] # Null \/ i \in lost' \/ HoldsRow(req'[r], i) => OfGallery(i)
    BY <1>3, <1>4, <1>5 DEF OfGallery
  <1>7. \A i \in Pictures :
          (\E u \in Users : avatar'[u] = i) \/ HoldsAvatar(req'[r], i) => OfAvatar(i)
    BY <1>3, <1>4 DEF OfAvatar
  <1>8. \A s \in Requests \ {r} : req'[s] = req[s] BY <1>2 DEF Advance
  <1>9. QED BY <1>4, <1>6, <1>7, <1>8, NamesMove

\* A picture is deleted: its file, then its row.
LEMMA NamesDelete ==
    ASSUME IInv, NamesInv, NEW r \in Requests, DeleteFind(r) \/ Unlink(r) \/ DeleteRow(r)
    PROVE  NamesInv'
  <1>1. /\ LocalOK(req[r]) /\ req[r].pc \in {"imageFind", "unlink", "deleteRow"}
    BY Running DEF DeleteFind, Unlink, DeleteRow, At
  <1>2. Advance(r, {"unlink", "deleteRow", "remaining"})
    BY <1>1, AnswerAdvances, GoingAdvances DEF DeleteFind, Unlink, DeleteRow
  <1>3. ASSUME NEW i \in Pictures
        PROVE  ~HoldsRow(req'[r], i) /\ ~HoldsAvatar(req'[r], i)
    BY <1>2 DEF Advance, HoldsRow, HoldsAvatar, Idle
  <1>4. UNCHANGED <<used, avatar>> /\ lost \subseteq lost'
    BY DEF DeleteFind, Unlink, DeleteRow, storage
  <1>5. \A i \in Pictures : i \in files /\ i \notin files' => i \in lost'
    BY <1>1 DEF DeleteFind, Unlink, DeleteRow, storage, At, LocalOK, DeleteSteps
  <1>6. \A i \in Pictures : gallery'[i] \in {Null, gallery[i]}
    BY DEF DeleteFind, Unlink, DeleteRow, IInv, SiteTypeOK
  <1>7. \A i \in Pictures : i \in lost' => i \in lost \/ gallery[i] # Null
    BY DEF DeleteFind, Unlink, DeleteRow
  <1>8. \A i \in Pictures :
          gallery'[i] # Null \/ i \in lost' \/ HoldsRow(req'[r], i) => OfGallery(i)
    BY <1>3, <1>6, <1>7 DEF OfGallery
  <1>9. \A i \in Pictures :
          (\E u \in Users : avatar'[u] = i) \/ HoldsAvatar(req'[r], i) => OfAvatar(i)
    BY <1>3, <1>4 DEF OfAvatar
  <1>10. \A s \in Requests \ {r} : req'[s] = req[s] BY <1>2 DEF Advance
  <1>11. QED BY <1>4, <1>5, <1>8, <1>9, <1>10, NamesMove

\* The locals of a handler that goes on with what it has.
LEMMA GoneOn ==
    ASSUME IInv, NEW r \in Requests, req[r].pc # "idle", NEW step, Continue(r, step)
    PROVE  /\ req'[r].pc = step /\ req'[r].on = req[r].on
           /\ req'[r].id = req[r].id /\ req'[r].seen = req[r].seen
  <1> DEFINE ids == Pictures \cup (SUBSET Pictures) \cup LeadIds \cup Properties
                      \cup {Undefined, Null}
             seens == {"published"} \cup MainPictures \cup LeadStatus
             dtos == PropertyDtos \cup LeadDtos \cup {Null}
             ons == Properties \cup Users \cup {Null}
  <1>1. req \in [Requests -> IdleRequest \cup Handler] BY DEF IInv, SiteTypeOK
  <1>2. PICK h : h = req[r] OBVIOUS
  <1>3. h \in [pc : Steps, on : ons, owner : Scopes, id : ids, dto : dtos, seen : seens]
    BY <1>2, Running DEF Handler, Steps
  <1> HIDE DEF ids, seens, dtos, ons
  <1>4. PICK q : q = [h EXCEPT !.pc = step] OBVIOUS
  <1>5. req'[r] = q BY <1>1, <1>2, <1>4 DEF Continue
  <1>6. q.pc = step /\ q.on = h.on /\ q.id = h.id /\ q.seen = h.seen
    BY <1>3, <1>4
  <1>7. QED BY <1>2, <1>5, <1>6

\* ... with what it has read.
LEMMA GoneWith ==
    ASSUME IInv, NEW r \in Requests, req[r].pc # "idle", NEW step, NEW value,
           ContinueWith(r, step, value)
    PROVE  /\ req'[r].pc = step /\ req'[r].on = req[r].on
           /\ req'[r].id = req[r].id /\ req'[r].seen = value
  <1> DEFINE ids == Pictures \cup (SUBSET Pictures) \cup LeadIds \cup Properties
                      \cup {Undefined, Null}
             seens == {"published"} \cup MainPictures \cup LeadStatus
             dtos == PropertyDtos \cup LeadDtos \cup {Null}
             ons == Properties \cup Users \cup {Null}
  <1>1. req \in [Requests -> IdleRequest \cup Handler] BY DEF IInv, SiteTypeOK
  <1>2. PICK h : h = req[r] OBVIOUS
  <1>3. h \in [pc : Steps, on : ons, owner : Scopes, id : ids, dto : dtos, seen : seens]
    BY <1>2, Running DEF Handler, Steps
  <1> HIDE DEF ids, seens, dtos, ons
  <1>4. PICK q : q = [h EXCEPT !.pc = step, !.seen = value] OBVIOUS
  <1>5. req'[r] = q BY <1>1, <1>2, <1>4 DEF ContinueWith
  <1>6. q.pc = step /\ q.on = h.on /\ q.id = h.id /\ q.seen = value
    BY <1>3, <1>4
  <1>7. QED BY <1>2, <1>5, <1>6

ContinueNamed(r, step, id) == req' = [req EXCEPT ![r].pc = step, ![r].id = id]

\* ... with new names.
LEMMA GoneNamed ==
    ASSUME IInv, NEW r \in Requests, req[r].pc # "idle", NEW step, NEW value,
           ContinueNamed(r, step, value)
    PROVE  /\ req'[r].pc = step /\ req'[r].on = req[r].on
           /\ req'[r].id = value /\ req'[r].seen = req[r].seen
  <1> DEFINE ids == Pictures \cup (SUBSET Pictures) \cup LeadIds \cup Properties
                      \cup {Undefined, Null}
             seens == {"published"} \cup MainPictures \cup LeadStatus
             dtos == PropertyDtos \cup LeadDtos \cup {Null}
             ons == Properties \cup Users \cup {Null}
  <1>1. req \in [Requests -> IdleRequest \cup Handler] BY DEF IInv, SiteTypeOK
  <1>2. PICK h : h = req[r] OBVIOUS
  <1>3. h \in [pc : Steps, on : ons, owner : Scopes, id : ids, dto : dtos, seen : seens]
    BY <1>2, Running DEF Handler, Steps
  <1> HIDE DEF ids, seens, dtos, ons
  <1>4. PICK q : q = [h EXCEPT !.pc = step, !.id = value] OBVIOUS
  <1>5. req'[r] = q BY <1>1, <1>2, <1>4 DEF ContinueNamed
  <1>6. q.pc = step /\ q.on = h.on /\ q.id = value /\ q.seen = h.seen
    BY <1>3, <1>4
  <1>7. QED BY <1>2, <1>5, <1>6

\* An avatar is replaced.
LEMMA NamesAvatar ==
    ASSUME IInv, NamesInv, NEW r \in Requests, AvatarFind(r) \/ AvatarUnlink(r) \/ AvatarWrite(r)
    PROVE  NamesInv'
  <1>1. /\ LocalOK(req[r]) /\ req[r].pc \in {"avatarFind", "avatarUnlink", "avatarWrite"}
    BY Running DEF AvatarFind, AvatarUnlink, AvatarWrite, At
  <1>2. req[r].on \in Users BY <1>1 DEF LocalOK, AvatarSteps
  <1>3. Advance(r, {"avatarSave", "avatarUnlink"})
    BY <1>1, AnswerAdvances, GoingAdvances DEF AvatarFind, AvatarUnlink, AvatarWrite
  <1>4. UNCHANGED <<used, gallery, lost>>
    BY DEF AvatarFind, AvatarUnlink, AvatarWrite, imageVars, storage
  <1>5. \A i \in Pictures : ~HoldsRow(req'[r], i)
    BY <1>3 DEF Advance, HoldsRow, Idle
  <1>6. \A i \in Pictures : i \in files /\ i \notin files' => OfAvatar(i)
    BY <1>1 DEF AvatarFind, AvatarUnlink, AvatarWrite, At, imageVars, storage, OfAvatar,
                HoldsAvatar
  <1>7. \A i \in Pictures : HoldsAvatar(req'[r], i) => OfAvatar(i)
    <2>1. CASE AvatarFind(r)
      <3>1. PICK step, value : ContinueWith(r, step, value) /\ value = avatar[req[r].on]
        BY <2>1 DEF AvatarFind
      <3>2. req'[r].seen = avatar[req[r].on] BY <1>1, <3>1, GoneWith
      <3>3. QED BY <1>2, <1>3, <3>2 DEF Advance, Idle, HoldsAvatar, OfAvatar
    <2>2. CASE AvatarUnlink(r)
      <3>1. req'[r].pc = "avatarSave" BY <1>1, <2>2, GoneOn DEF AvatarUnlink
      <3>2. QED BY <3>1 DEF HoldsAvatar
    <2>3. CASE AvatarWrite(r)
      <3>1. req'[r] = Idle BY <2>3 DEF AvatarWrite, Answer, IInv, SiteTypeOK
      <3>2. QED BY <3>1 DEF HoldsAvatar, Idle
    <2>4. QED BY <2>1, <2>2, <2>3
  <1>8. \A i \in Pictures : (\E u \in Users : avatar'[u] = i) => OfAvatar(i)
    <2>1. CASE AvatarWrite(r)
      <3>1. \A u \in Users : avatar'[u] = IF u = req[r].on THEN req[r].id ELSE avatar[u]
        BY <2>1 DEF AvatarWrite, IInv, SiteTypeOK
      <3>2. QED BY <2>1, <3>1 DEF AvatarWrite, At, OfAvatar, HoldsAvatar
    <2>2. CASE avatar' = avatar BY <2>2 DEF OfAvatar
    <2>3. QED BY <2>1, <2>2 DEF AvatarFind, AvatarUnlink, imageVars
  <1>9. \A i \in Pictures :
          gallery'[i] # Null \/ i \in lost' \/ HoldsRow(req'[r], i) => OfGallery(i)
    BY <1>4, <1>5 DEF OfGallery
  <1>10. \A i \in Pictures :
          (\E u \in Users : avatar'[u] = i) \/ HoldsAvatar(req'[r], i) => OfAvatar(i)
    BY <1>7, <1>8
  <1>11. \A s \in Requests \ {r} : req'[s] = req[s] BY <1>3 DEF Advance
  <1>12. QED BY <1>4, <1>6, <1>9, <1>10, <1>11, NamesMove

\* New files have new names.
LEMMA NamesSave ==
    ASSUME IInv, NamesInv, NEW r \in Requests, Save(r) \/ SaveFail(r) \/ AvatarSave(r)
    PROVE  NamesInv'
  <1>1. req[r].pc # "idle" BY DEF Save, SaveFail, ImageFail, AvatarSave, At
  <1>2. UNCHANGED <<gallery, avatar, lost>> /\ used \subseteq used' /\ files \subseteq files'
    BY DEF Save, SaveFail, AvatarSave, AvatarSaved
  <1>3. \A s \in Requests \ {r} : req'[s] = req[s]
    <2>1. Advance(r, {"rows", "avatarWrite"})
      BY <1>1, AnswerAdvances, GoingAdvances
         DEF Save, SaveFail, ImageFail, AvatarSave, AvatarSaved
    <2>2. QED BY <2>1 DEF Advance
  <1>4. ASSUME NEW i \in Pictures
        PROVE  /\ HoldsRow(req'[r], i) => i \in (used' \cap files') \ used
               /\ HoldsAvatar(req'[r], i) => i \in used' \ used
               /\ ~(HoldsRow(req'[r], i) /\ HoldsAvatar(req'[r], i))
    <2>1. CASE Save(r)
      <3>1. PICK batch \in SUBSET Fresh :
              /\ used' = used \cup batch /\ files' = files \cup batch
              /\ ContinueNamed(r, "rows", batch)
        BY <2>1 DEF Save, Batches, ContinueNamed
      <3>2. req'[r].pc = "rows" /\ req'[r].id = batch BY <1>1, <3>1, GoneNamed
      <3>3. QED BY <3>1, <3>2 DEF HoldsRow, HoldsAvatar, Fresh
    <2>2. CASE AvatarSave(r)
      <3>1. PICK x \in Fresh :
              /\ used' = used \cup {x}
              /\ ContinueNamed(r, "avatarWrite", x)
        BY <2>2 DEF AvatarSave, AvatarSaved, ContinueNamed
      <3>2. req'[r].pc = "avatarWrite" /\ req'[r].id = x BY <1>1, <3>1, GoneNamed
      <3>3. QED BY <3>1, <3>2 DEF HoldsRow, HoldsAvatar, Fresh
    <2>3. CASE SaveFail(r)
      <3>1. req'[r] = Idle BY <2>3 DEF SaveFail, ImageFail, Answer, IInv, SiteTypeOK
      <3>2. QED BY <3>1 DEF HoldsRow, HoldsAvatar, Idle
    <2>4. QED BY <2>1, <2>2, <2>3
  <1>5. ASSUME NEW i \in Pictures
        PROVE  /\ OfGallery(i)' => OfGallery(i) \/ HoldsRow(req'[r], i)
               /\ OfAvatar(i)' => OfAvatar(i) \/ HoldsAvatar(req'[r], i)
    BY <1>2, <1>3 DEF OfGallery, OfAvatar
  <1>6. QED BY <1>2, <1>4, <1>5, NamesKept DEF NamesInv

\* Every step keeps the names apart.
LEMMA NextNamesInv == IInv /\ NamesInv /\ [SiteNext]_siteVars => NamesInv'
  <1> SUFFICES ASSUME IInv, NamesInv, [SiteNext]_siteVars PROVE NamesInv'
    OBVIOUS
  <1>1. CASE UNCHANGED siteVars
    <2>1. {} \cap {"rows", "avatarWrite", "avatarUnlink"} = {} OBVIOUS
    <2>2. QED BY <1>1, <2>1, NamesStay DEF siteVars, imageVars
  <1>2. CASE LeadsNext /\ UNCHANGED imageVars
    <2>1. LeadSteps \cap {"rows", "avatarWrite", "avatarUnlink"} = {} BY DEF LeadSteps
    <2>2. QED BY <1>2, <2>1, LeadsAdvance, NamesStay DEF imageVars
  <1>3. CASE CatalogueNext /\ UNCHANGED <<imageVars, leadVars>>
    <2>1. CatalogueSteps \cap {"rows", "avatarWrite", "avatarUnlink"} = {}
      BY DEF CatalogueSteps
    <2>2. QED BY <1>3, <2>1, CatalogueAdvances, NamesStay DEF imageVars
  <1>4. CASE ImagesNext
    <2>1. ASSUME NEW r \in Requests,
                 \/ \E p \in Properties, owner \in Users : UploadStart(r, p, owner)
                 \/ \E i \in Pictures, owner \in Users : DeleteStart(r, i, owner)
                 \/ \E u \in Users : AvatarStart(r, u)
          PROVE  NamesInv'
      <3>1. Advance(r, {"uploadFind", "imageFind", "avatarFind"}) /\ UNCHANGED imageVars
        BY <2>1, BeginAdvances DEF UploadStart, DeleteStart, AvatarStart
      <3>2. {"uploadFind", "imageFind", "avatarFind"}
              \cap {"rows", "avatarWrite", "avatarUnlink"} = {}
        OBVIOUS
      <3>3. QED BY <3>1, <3>2, NamesStay DEF imageVars
    <2>2. ASSUME NEW u \in Users, NEW url \in {"external", Null}, ProfileWrite(u, url)
          PROVE  NamesInv'
      <3>1. {} \cap {"rows", "avatarWrite", "avatarUnlink"} = {} OBVIOUS
      <3>2. \A v \in Users : avatar'[v] \in {avatar[v], "external", Null}
        BY <2>2 DEF ProfileWrite, IInv, SiteTypeOK
      <3>3. UNCHANGED <<req, overlapped, files, used, gallery, lost>>
        BY <2>2 DEF ProfileWrite, storage
      <3>4. QED BY <3>1, <3>2, <3>3, NamesStay
    <2>3. QED
      BY <1>4, <2>1, <2>2, NamesQuiet, NamesSaveRows, NamesDelete, NamesAvatar, NamesSave
         DEF ImagesNext
  <1>5. QED BY <1>1, <1>2, <1>3, <1>4 DEF SiteNext

\* No picture is of anything at the start.
LEMMA InitNamesInv == SiteInit => NamesInv
  BY CatalogueAssumption
     DEF SiteInit, CatalogueInit, ImagesInit, NamesInv, OfGallery, OfAvatar, HoldsRow,
         HoldsAvatar, Idle

\* The file of every row is there, except those a DELETE set out to remove.
THEOREM RowsKeepTheirFiles == SiteSpec => []RowsHaveFiles
  <1>1. NamesInv => RowsHaveFiles BY DEF NamesInv, RowsHaveFiles, OfGallery
  <1>2. QED BY <1>1, InitNamesInv, InitIInv, NextIInv, NextNamesInv, PTL DEF SiteSpec
-----------------------------------------------------------------------------
(***************************************************************************)
(* The files of the avatars.  The picture that a handler has saved is the  *)
(* avatar of nobody yet; an avatar is of one user, and only an upload of   *)
(* that user removes its file, which then saves another or fails.          *)
(***************************************************************************)
Saving(h) == h.pc \in {"avatarSave", "avatarWrite"}

AvatarInv ==
    /\ \A r \in Requests : req[r].pc = "avatarWrite" =>
         /\ req[r].id \in files
         /\ \A u \in Users : avatar[u] # req[r].id
         /\ \A s \in Requests \ {r} : ~HoldsAvatar(req[s], req[r].id)
    /\ \A u, v \in Users : u # v /\ avatar[u] \in Pictures => avatar[u] # avatar[v]
    /\ \A r \in Requests : req[r].pc = "avatarUnlink" /\ req[r].seen \in Pictures =>
         \A u \in Users \ {req[r].on} : avatar[u] # req[r].seen
    /\ \A u \in Users : avatar[u] \in Pictures =>
         \/ avatar[u] \in files \/ u \in failed
         \/ \E r \in Requests : Saving(req[r]) /\ req[r].on = u

\* The request r is not about to replace an avatar, or no longer.
Away(r) ==
    /\ \A s \in Requests \ {r} : req'[s] = req[s]
    /\ req'[r].pc \notin {"avatarUnlink", "avatarSave", "avatarWrite"}
    /\ Saving(req[r]) => req[r].on \in failed'

\* Steps that leave the avatars alone, or set one to no picture.
LEMMA AvatarsStay ==
    ASSUME IInv, AvatarInv, failed \subseteq failed',
           \A u \in Users : avatar'[u] \in {avatar[u], "external", Null},
           \A i \in Pictures : i \in files /\ i \notin files' => ~OfAvatar(i),
           UNCHANGED req \/ \E r \in Requests : Away(r)
    PROVE  AvatarInv'
  <1>1. \A u \in Users : avatar'[u] \in Pictures => avatar'[u] = avatar[u]
    BY CatalogueAssumption
  <1>2. \A r \in Requests :
          req'[r].pc \in {"avatarUnlink", "avatarSave", "avatarWrite"} => req'[r] = req[r]
    BY DEF Away
  <1>3. ASSUME NEW r \in Requests, req'[r].pc = "avatarWrite"
        PROVE  /\ req'[r].id \in files'
               /\ \A u \in Users : avatar'[u] # req'[r].id
               /\ \A s \in Requests \ {r} : ~HoldsAvatar(req'[s], req'[r].id)
    <2>1. req'[r] = req[r] BY <1>2, <1>3
    <2>2. req[r].id \in Pictures BY <1>3, <2>1 DEF IInv, SiteTypeOK, LocalOK
    <2>3. OfAvatar(req[r].id) BY <1>3, <2>1 DEF OfAvatar, HoldsAvatar
    <2>4. req'[r].id \in files' BY <1>3, <2>1, <2>2, <2>3 DEF AvatarInv
    <2>5. \A u \in Users : avatar'[u] # req'[r].id
      BY <1>1, <1>3, <2>1, <2>2 DEF AvatarInv
    <2>6. \A s \in Requests \ {r} : ~HoldsAvatar(req'[s], req'[r].id)
      BY <1>2, <1>3, <2>1 DEF AvatarInv, HoldsAvatar
    <2>7. QED BY <2>4, <2>5, <2>6
  <1>4. ASSUME NEW r \in Requests, req'[r].pc = "avatarUnlink", req'[r].seen \in Pictures
        PROVE  \A u \in Users \ {req'[r].on} : avatar'[u] # req'[r].seen
    BY <1>1, <1>2, <1>4 DEF AvatarInv
  <1>5. \A u, v \in Users : u # v /\ avatar'[u] \in Pictures => avatar'[u] # avatar'[v]
    BY <1>1 DEF AvatarInv
  <1>6. ASSUME NEW u \in Users, avatar'[u] \in Pictures
        PROVE  \/ avatar'[u] \in files' \/ u \in failed'
               \/ \E r \in Requests : Saving(req'[r]) /\ req'[r].on = u
    <2>1. avatar'[u] = avatar[u] BY <1>1, <1>6
    <2>2. CASE avatar[u] \in files BY <1>6, <2>1, <2>2 DEF OfAvatar
    <2>3. CASE u \in failed BY <2>3
    <2>4. ASSUME NEW r \in Requests, Saving(req[r]), req[r].on = u
          PROVE  u \in failed' \/ (Saving(req'[r]) /\ req'[r].on = u)
      BY <2>4 DEF Away
    <2>5. QED BY <1>6, <2>1, <2>2, <2>3, <2>4 DEF AvatarInv
  <1>7. QED BY <1>3, <1>4, <1>5, <1>6 DEF AvatarInv

\* The file of the old avatar is looked up.
LEMMA AvatarsFind ==
    ASSUME IInv, AvatarInv, NEW r \in Requests, AvatarFind(r)
    PROVE  AvatarInv'
  <1>1. /\ LocalOK(req[r]) /\ req[r].pc = "avatarFind"
        /\ UNCHANGED <<files, avatar, failed>>
    BY Running DEF AvatarFind, At, imageVars
  <1>2. PICK step, value :
          /\ ContinueWith(r, step, value) /\ value = avatar[req[r].on]
          /\ step \in {"avatarSave", "avatarUnlink"}
    BY DEF AvatarFind
  <1>3. /\ req'[r].pc = step /\ req'[r].on = req[r].on /\ req'[r].seen = avatar[req[r].on]
        /\ req[r].on \in Users
    BY <1>1, <1>2, GoneWith DEF LocalOK, AvatarSteps
  <1>4. \A s \in Requests \ {r} : req'[s] = req[s]
    BY <1>2 DEF ContinueWith, IInv, SiteTypeOK
  <1>5. ASSUME NEW s \in Requests, req'[s].pc = "avatarWrite"
        PROVE  /\ req'[s].id \in files'
               /\ \A u \in Users : avatar'[u] # req'[s].id
               /\ \A t \in Requests \ {s} : ~HoldsAvatar(req'[t], req'[s].id)
    <2>1. s # r BY <1>2, <1>3, <1>5
    <2>2. ASSUME NEW t \in Requests \ {s} PROVE ~HoldsAvatar(req'[t], req'[s].id)
      <3>1. CASE t = r
        BY <1>1, <1>2, <1>3, <1>4, <1>5, <2>1, <3>1 DEF AvatarInv, HoldsAvatar
      <3>2. CASE t # r BY <1>4, <1>5, <2>1, <3>2 DEF AvatarInv
      <3>3. QED BY <3>1, <3>2
    <2>3. QED BY <1>1, <1>4, <1>5, <2>1, <2>2 DEF AvatarInv
  <1>6. ASSUME NEW s \in Requests, req'[s].pc = "avatarUnlink", req'[s].seen \in Pictures
        PROVE  \A u \in Users \ {req'[s].on} : avatar'[u] # req'[s].seen
    BY <1>1, <1>3, <1>4, <1>6 DEF AvatarInv
  <1>7. ASSUME NEW u \in Users, avatar'[u] \in Pictures
        PROVE  \/ avatar'[u] \in files' \/ u \in failed'
               \/ \E s \in Requests : Saving(req'[s]) /\ req'[s].on = u
    BY <1>1, <1>4, <1>7 DEF AvatarInv, Saving
  <1>8. QED BY <1>1, <1>5, <1>6, <1>7 DEF AvatarInv

\* The file of the old avatar goes.
LEMMA AvatarsUnlink ==
    ASSUME IInv, AvatarInv, NEW r \in Requests, AvatarUnlink(r)
    PROVE  AvatarInv'
  <1>1. /\ LocalOK(req[r]) /\ req[r].pc = "avatarUnlink"
        /\ UNCHANGED <<avatar, failed>>
        /\ \A i : i \in files /\ i \notin files' => i = req[r].seen
    BY Running DEF AvatarUnlink, At
  <1>2. req'[r].pc = "avatarSave" /\ req'[r].on = req[r].on
    BY <1>1, GoneOn DEF AvatarUnlink
  <1>3. \A s \in Requests \ {r} : req'[s] = req[s]
    BY DEF AvatarUnlink, Continue, IInv, SiteTypeOK
  <1>4. ASSUME NEW s \in Requests, req'[s].pc = "avatarWrite"
        PROVE  /\ req'[s].id \in files'
               /\ \A u \in Users : avatar'[u] # req'[s].id
               /\ \A t \in Requests \ {s} : ~HoldsAvatar(req'[t], req'[s].id)
    <2>1. s # r /\ req'[s] = req[s] BY <1>2, <1>3, <1>4
    <2>2. \A t \in Requests \ {s} : ~HoldsAvatar(req[t], req[s].id) /\ req[s].id \in files
      BY <1>4, <2>1 DEF AvatarInv
    <2>3. req[s].id # req[r].seen BY <1>1, <2>1, <2>2 DEF HoldsAvatar
    <2>4. \A t \in Requests \ {s} : ~HoldsAvatar(req'[t], req'[s].id)
      BY <1>2, <1>3, <2>1, <2>2 DEF HoldsAvatar
    <2>5. req[s].id \in files
      BY <1>4, <2>1 DEF AvatarInv
    <2>6. QED BY <1>1, <1>4, <2>1, <2>3, <2>4, <2>5 DEF AvatarInv
  <1>5. ASSUME NEW s \in Requests, req'[s].pc = "avatarUnlink", req'[s].seen \in Pictures
        PROVE  \A u \in Users \ {req'[s].on} : avatar'[u] # req'[s].seen
    BY <1>1, <1>2, <1>3, <1>5 DEF AvatarInv
  <1>6. ASSUME NEW u \in Users, avatar'[u] \in Pictures
        PROVE  \/ avatar'[u] \in files' \/ u \in failed'
               \/ \E s \in Requests : Saving(req'[s]) /\ req'[s].on = u
    <2>1. CASE avatar[u] \in files /\ avatar[u] \notin files'
      <3>1. req[r].on = u BY <1>1, <1>6, <2>1 DEF AvatarInv
      <3>2. QED BY <1>2, <3>1 DEF Saving
    <2>2. CASE avatar[u] \in files /\ avatar[u] \in files' BY <1>1, <2>2
    <2>3. CASE u \in failed BY <1>1, <2>3
    <2>4. ASSUME NEW s \in Requests, Saving(req[s]), req[s].on = u
          PROVE  Saving(req'[s]) /\ req'[s].on = u
      BY <1>1, <1>3, <2>4 DEF Saving
    <2>5. QED BY <1>1, <1>6, <2>1, <2>2, <2>3, <2>4 DEF AvatarInv
  <1>7. QED BY <1>1, <1>4, <1>5, <1>6 DEF AvatarInv

\* The file of the new avatar has a new name.
LEMMA AvatarsSave ==
    ASSUME IInv, NamesInv, AvatarInv, NEW r \in Requests, AvatarSave(r)
    PROVE  AvatarInv'
  <1>1. /\ LocalOK(req[r]) /\ req[r].pc = "avatarSave"
        /\ UNCHANGED <<avatar, failed>> /\ files \subseteq files'
    BY Running DEF AvatarSave, AvatarSaved, At
  <1>2. PICK i \in Fresh : files' = files \cup {i} /\ ContinueNamed(r, "avatarWrite", i)
    BY DEF AvatarSave, AvatarSaved, ContinueNamed
  <1>3. req'[r].pc = "avatarWrite" /\ req'[r].on = req[r].on /\ req'[r].id = i
    BY <1>1, <1>2, GoneNamed
  <1>4. \A s \in Requests \ {r} : req'[s] = req[s]
    BY <1>2 DEF ContinueNamed, IInv, SiteTypeOK
  <1>5. ~OfAvatar(i) BY <1>2 DEF NamesInv, Fresh
  <1>6. ASSUME NEW s \in Requests, req'[s].pc = "avatarWrite"
        PROVE  /\ req'[s].id \in files'
               /\ \A u \in Users : avatar'[u] # req'[s].id
               /\ \A t \in Requests \ {s} : ~HoldsAvatar(req'[t], req'[s].id)
    <2>1. CASE s = r
      <3>1. \A t \in Requests \ {s} : ~HoldsAvatar(req'[t], i)
        BY <1>4, <1>5, <2>1 DEF OfAvatar
      <3>2. QED BY <1>1, <1>2, <1>3, <1>5, <2>1, <3>1 DEF OfAvatar
    <2>2. CASE s # r
      <3>1. req'[s] = req[s] BY <1>4, <2>2
      <3>2. OfAvatar(req[s].id) BY <1>6, <3>1 DEF OfAvatar, HoldsAvatar
      <3>3. \A t \in Requests \ {s} : ~HoldsAvatar(req'[t], req'[s].id)
        BY <1>3, <1>4, <1>5, <1>6, <3>1, <3>2 DEF AvatarInv, HoldsAvatar
      <3>4. QED BY <1>1, <1>6, <3>1, <3>3 DEF AvatarInv
    <2>3. QED BY <2>1, <2>2
  <1>7. ASSUME NEW s \in Requests, req'[s].pc = "avatarUnlink", req'[s].seen \in Pictures
        PROVE  \A u \in Users \ {req'[s].on} : avatar'[u] # req'[s].seen
    BY <1>1, <1>3, <1>4, <1>7 DEF AvatarInv
  <1>8. ASSUME NEW u \in Users, avatar'[u] \in Pictures
        PROVE  \/ avatar'[u] \in files' \/ u \in failed'
               \/ \E s \in Requests : Saving(req'[s]) /\ req'[s].on = u
    <2>1. ASSUME NEW s \in Requests, Saving(req[s]), req[s].on = u
          PROVE  Saving(req'[s]) /\ req'[s].on = u
      BY <1>3, <1>4, <2>1 DEF Saving
    <2>2. QED BY <1>1, <1>8, <2>1 DEF AvatarInv
  <1>9. QED BY <1>1, <1>6, <1>7, <1>8 DEF AvatarInv

\* The avatar becomes the picture that was saved.
LEMMA AvatarsWrite ==
    ASSUME IInv, AvatarInv, NEW r \in Requests, AvatarWrite(r)
    PROVE  AvatarInv'
  <1>1. /\ LocalOK(req[r]) /\ req[r].pc = "avatarWrite"
        /\ UNCHANGED <<files, failed>>
    BY Running DEF AvatarWrite, At, storage
  <1>2. PICK u \in Users, i \in Pictures : u = req[r].on /\ i = req[r].id
    BY <1>1 DEF LocalOK, AvatarSteps, IInv, SiteTypeOK
  <1>3. \A v \in Users : avatar'[v] = IF v = u THEN i ELSE avatar[v]
    BY <1>2 DEF AvatarWrite, IInv, SiteTypeOK
  <1>4. \A s \in Requests : req'[s] = IF s = r THEN Idle ELSE req[s]
    BY DEF AvatarWrite, Answer, IInv, SiteTypeOK
  <1>5. /\ i \in files /\ \A v \in Users : avatar[v] # i
        /\ \A s \in Requests \ {r} : ~HoldsAvatar(req[s], i)
    BY <1>1, <1>2 DEF AvatarInv
  <1>6. ASSUME NEW s \in Requests, req'[s].pc = "avatarWrite"
        PROVE  /\ req'[s].id \in files'
               /\ \A v \in Users : avatar'[v] # req'[s].id
               /\ \A t \in Requests \ {s} : ~HoldsAvatar(req'[t], req'[s].id)
    <2>1. s # r /\ req'[s] = req[s] BY <1>4, <1>6 DEF Idle
    <2>2. req[s].id # i BY <1>5, <1>6, <2>1 DEF HoldsAvatar
    <2>3. \A v \in Users : avatar'[v] # req'[s].id
      BY <1>3, <1>6, <2>1, <2>2 DEF AvatarInv
    <2>4. \A t \in Requests \ {s} : ~HoldsAvatar(req'[t], req'[s].id)
      BY <1>4, <1>6, <2>1 DEF AvatarInv, HoldsAvatar, Idle
    <2>5. QED BY <1>1, <1>6, <2>1, <2>3, <2>4 DEF AvatarInv
  <1>7. ASSUME NEW s \in Requests, req'[s].pc = "avatarUnlink", req'[s].seen \in Pictures
        PROVE  \A v \in Users \ {req'[s].on} : avatar'[v] # req'[s].seen
    <2>1. s # r /\ req'[s] = req[s] BY <1>4, <1>7 DEF Idle
    <2>2. req[s].seen # i BY <1>5, <1>7, <2>1 DEF HoldsAvatar
    <2>3. QED BY <1>3, <1>7, <2>1, <2>2 DEF AvatarInv
  <1>8. \A v, w \in Users : v # w /\ avatar'[v] \in Pictures => avatar'[v] # avatar'[w]
    BY <1>3, <1>5 DEF AvatarInv
  <1>9. ASSUME NEW v \in Users, avatar'[v] \in Pictures
        PROVE  \/ avatar'[v] \in files' \/ v \in failed'
               \/ \E s \in Requests : Saving(req'[s]) /\ req'[s].on = v
    <2>1. CASE v = u BY <1>1, <1>3, <1>5, <2>1
    <2>2. CASE v # u
      <3>1. ASSUME NEW s \in Requests, Saving(req[s]), req[s].on = v
            PROVE  Saving(req'[s]) /\ req'[s].on = v
        BY <1>2, <1>4, <2>2, <3>1
      <3>2. QED BY <1>1, <1>3, <1>9, <2>2, <3>1 DEF AvatarInv
    <2>3. QED BY <2>1, <2>2
  <1>10. QED BY <1>6, <1>7, <1>8, <1>9 DEF AvatarInv

\* A handler of a property, or one that fails.
LEMMA AvatarsAway ==
    ASSUME IInv, NamesInv, AvatarInv, NEW r \in Requests,
           \/ UploadFind(r) \/ Save(r) \/ SaveFail(r) \/ SaveRows(r) \/ SaveMain(r)
           \/ DeleteFind(r) \/ Unlink(r) \/ DeleteRow(r) \/ DeleteRemaining(r) \/ DeleteMain(r)
           \/ /\ ImageFail(r, (UploadSteps \ {"save"}) \cup DeleteSteps \cup AvatarSteps)
              /\ UNCHANGED <<storage, gallery, avatar, lost>>
    PROVE  AvatarInv'
  <1>1. LocalOK(req[r]) /\ req[r].pc # "idle"
    BY Running
       DEF UploadFind, Save, SaveFail, SaveRows, SaveMain, DeleteFind, Unlink, DeleteRow,
           DeleteRemaining, DeleteMain, ImageFail, At, UploadSteps, DeleteSteps, AvatarSteps
  <1>2. avatar' = avatar /\ failed \subseteq failed'
    BY DEF UploadFind, Save, SaveFail, SaveRows, SaveMain, DeleteFind, Unlink, DeleteRow,
           DeleteRemaining, DeleteMain, ImageFail, imageVars
  <1>3. \A i \in Pictures : i \in files /\ i \notin files' => i \in lost
    BY <1>1
       DEF UploadFind, Save, SaveFail, SaveRows, SaveMain, DeleteFind, Unlink, DeleteRow,
           DeleteRemaining, DeleteMain, ImageFail, imageVars, storage, At, LocalOK, DeleteSteps
  <1>4. Advance(r, {"save", "rows", "main", "unlink", "deleteRow", "remaining", "setMain"})
    <2>1. CASE UploadFind(r) \/ SaveRows(r) \/ DeleteFind(r) \/ DeleteRow(r)
      BY <1>1, <2>1, AnswerAdvances, GoingAdvances DEF UploadFind, SaveRows, DeleteFind, DeleteRow
    <2>2. CASE Save(r) \/ Unlink(r) \/ DeleteRemaining(r)
      BY <1>1, <2>2, GoingAdvances DEF Save, Unlink, DeleteRemaining
    <2>3. QED
      BY <2>1, <2>2, AnswerAdvances DEF SaveFail, SaveMain, DeleteMain, ImageFail
  <1>5. Saving(req[r]) => req[r].on \in failed'
    BY DEF Saving, UploadFind, Save, SaveFail, SaveRows, SaveMain, DeleteFind, Unlink, DeleteRow,
           DeleteRemaining, DeleteMain, ImageFail, At
  <1>6. Away(r) BY <1>4, <1>5 DEF Advance, Away, Idle
  <1>7. \A i \in Pictures : i \in lost => ~OfAvatar(i) BY DEF NamesInv, OfGallery
  <1>8. QED BY <1>2, <1>3, <1>6, <1>7, AvatarsStay

\* Every step keeps the avatars.
LEMMA NextAvatarInv == IInv /\ NamesInv /\ AvatarInv /\ [SiteNext]_siteVars => AvatarInv'
  <1> SUFFICES ASSUME IInv, NamesInv, AvatarInv, [SiteNext]_siteVars PROVE AvatarInv'
    OBVIOUS
  <1>1. CASE UNCHANGED siteVars BY <1>1, AvatarsStay DEF siteVars, imageVars
  <1>2. CASE LeadsNext /\ UNCHANGED imageVars
    <2>1. \E r \in Requests : Away(r)
      BY <1>2, LeadsAdvance DEF Advance, Away, Saving, LeadSteps, Idle
    <2>2. QED BY <1>2, <2>1, AvatarsStay DEF imageVars
  <1>3. CASE CatalogueNext /\ UNCHANGED <<imageVars, leadVars>>
    <2>1. UNCHANGED req \/ \E r \in Requests : Away(r)
      BY <1>3, CatalogueAdvances DEF Advance, Away, Saving, CatalogueSteps, Idle
    <2>2. QED BY <1>3, <2>1, AvatarsStay DEF imageVars
  <1>4. CASE ImagesNext
    <2>1. ASSUME NEW r \in Requests,
                 \/ \E p \in Properties, owner \in Users : UploadStart(r, p, owner)
                 \/ \E i \in Pictures, owner \in Users : DeleteStart(r, i, owner)
                 \/ \E u \in Users : AvatarStart(r, u)
          PROVE  AvatarInv'
      <3>1. /\ Advance(r, {"uploadFind", "imageFind", "avatarFind"}) /\ UNCHANGED imageVars
            /\ req[r].pc = "idle"
        BY <2>1, BeginAdvances DEF UploadStart, DeleteStart, AvatarStart, Begin, At
      <3>2. Away(r) BY <3>1 DEF Advance, Away, Saving, Idle
      <3>3. QED BY <3>1, <3>2, AvatarsStay DEF imageVars
    <2>2. ASSUME NEW u \in Users, NEW url \in {"external", Null}, ProfileWrite(u, url)
          PROVE  AvatarInv'
      <3>1. \A v \in Users : avatar'[v] \in {avatar[v], "external", Null}
        BY <2>2 DEF ProfileWrite, IInv, SiteTypeOK
      <3>2. UNCHANGED <<req, files, failed>> BY <2>2 DEF ProfileWrite, storage
      <3>3. QED BY <3>1, <3>2, AvatarsStay
    <2>3. QED
      BY <1>4, <2>1, <2>2, AvatarsFind, AvatarsUnlink, AvatarsSave, AvatarsWrite, AvatarsAway
         DEF ImagesNext
  <1>5. QED BY <1>1, <1>2, <1>3, <1>4 DEF SiteNext

\* Nobody has an avatar at the start.
LEMMA InitAvatarInv == SiteInit => AvatarInv
  BY CatalogueAssumption
     DEF SiteInit, CatalogueInit, ImagesInit, AvatarInv, Idle

\* The avatar of a user is a picture that exists, unless an upload of that user
\* is in flight or one has failed.
THEOREM AvatarsAreShown == SiteSpec => []AvatarIsShown
  <1>1. AvatarInv => AvatarIsShown
    <2>1. \A r \in Requests, u \in Users :
            Saving(req[r]) /\ req[r].on = u => r \in InFlightOn(u)
      BY DEF Saving, InFlightOn, At
    <2>2. QED BY <2>1 DEF AvatarInv, AvatarIsShown
  <1>2. QED
    BY <1>1, InitAvatarInv, InitNamesInv, InitIInv, NextIInv, NextNamesInv, NextAvatarInv, PTL
       DEF SiteSpec
-----------------------------------------------------------------------------
(***************************************************************************)
(* The rows of the pictures.  Names that are not yet rows are known to     *)
(* their upload alone; a DELETE is about the property its row is of; and   *)
(* a row whose picture is lost has its DELETE still in flight, unless one  *)
(* of the property's handlers failed or two of them overlapped.            *)
(***************************************************************************)
Unlinking(h) == h.pc \in {"unlink", "deleteRow"}

RowsInv ==
    /\ \A r \in Requests, i \in Pictures : HoldsRow(req[r], i) =>
         /\ gallery[i] = Null /\ i \notin lost /\ i \in files
         /\ \A s \in Requests :
              /\ s # r => ~HoldsRow(req[s], i)
              /\ req[s].pc \in DeleteSteps => req[s].id # i
    /\ \A r \in Requests : req[r].pc \in DeleteSteps => gallery[req[r].id] \in {req[r].on, Null}
    /\ \A i \in lost : gallery[i] # Null =>
         \/ gallery[i] \in overlapped \cup failed
         \/ \E r \in Requests : Unlinking(req[r]) /\ req[r].on = gallery[i] /\ req[r].id = i

\* The request r takes no new names, and gives up no DELETE unless it fails.
KeepsOn(r) ==
    /\ \A s \in Requests \ {r} : req'[s] = req[s]
    /\ \A i \in Pictures : HoldsRow(req'[r], i) => HoldsRow(req[r], i)
    /\ req'[r].pc \in DeleteSteps =>
         req[r].pc \in DeleteSteps /\ req'[r].id = req[r].id /\ req'[r].on = req[r].on
    /\ Unlinking(req[r]) =>
         \/ req[r].on \in failed'
         \/ Unlinking(req'[r]) /\ req'[r].on = req[r].on /\ req'[r].id = req[r].id

\* Steps that write no row of a picture.
LEMMA RowsStay ==
    ASSUME IInv, NamesInv, RowsInv, UNCHANGED <<gallery, lost>>,
           overlapped \subseteq overlapped', failed \subseteq failed',
           \A i \in Pictures : i \in files /\ i \notin files' => OfAvatar(i) \/ i \in lost,
           UNCHANGED req \/ \E r \in Requests : KeepsOn(r)
    PROVE  RowsInv'
  <1>1. ASSUME NEW r \in Requests, NEW i \in Pictures, HoldsRow(req'[r], i)
        PROVE  /\ HoldsRow(req[r], i)
               /\ gallery'[i] = Null /\ i \notin lost' /\ i \in files'
               /\ \A s \in Requests :
                    /\ s # r => ~HoldsRow(req'[s], i)
                    /\ req'[s].pc \in DeleteSteps => req'[s].id # i
    <2>1. HoldsRow(req[r], i) BY <1>1 DEF KeepsOn
    <2>2. i \in files /\ i \notin lost /\ ~OfAvatar(i)
      BY <2>1 DEF RowsInv, NamesInv, OfGallery
    <2>3. ASSUME NEW s \in Requests
          PROVE  /\ s # r => ~HoldsRow(req'[s], i)
                 /\ req'[s].pc \in DeleteSteps => req'[s].id # i
      BY <2>1 DEF RowsInv, KeepsOn
    <2>4. QED BY <2>1, <2>2, <2>3 DEF RowsInv
  <1>2. ASSUME NEW r \in Requests, req'[r].pc \in DeleteSteps
        PROVE  gallery'[req'[r].id] \in {req'[r].on, Null}
    BY <1>2 DEF KeepsOn, RowsInv
  <1>3. ASSUME NEW i \in lost', gallery'[i] # Null
        PROVE  \/ gallery'[i] \in overlapped' \cup failed'
               \/ \E r \in Requests :
                    Unlinking(req'[r]) /\ req'[r].on = gallery'[i] /\ req'[r].id = i
    <2>1. CASE gallery[i] \in overlapped \cup failed BY <2>1
    <2>2. ASSUME NEW s \in Requests, Unlinking(req[s]), req[s].on = gallery[i], req[s].id = i
          PROVE  \/ gallery'[i] \in failed'
                 \/ Unlinking(req'[s]) /\ req'[s].on = gallery'[i] /\ req'[s].id = i
      BY <2>2 DEF KeepsOn
    <2>3. QED BY <1>3, <2>1, <2>2 DEF RowsInv
  <1>4. QED BY <1>1, <1>2, <1>3 DEF RowsInv

\* A DELETE of a picture begins.
LEMMA RowsDeleteStart ==
    ASSUME IInv, RowsInv, NEW r \in Requests, NEW x \in Pictures, NEW owner,
           DeleteStart(r, x, owner)
    PROVE  RowsInv'
  <1>1. UNCHANGED <<files, gallery, lost, failed>> /\ overlapped \subseteq overlapped'
    BY DEF DeleteStart, Begin, imageVars
  <1>2. /\ req'[r].pc = "imageFind" /\ req'[r].on = gallery[x] /\ req'[r].id = x
        /\ \A s \in Requests \ {r} : req'[s] = req[s]
        /\ req[r].pc = "idle" /\ gallery[x] # Null
    BY DEF DeleteStart, Begin, At, IInv, SiteTypeOK
  <1>3. ASSUME NEW s \in Requests, NEW i \in Pictures, HoldsRow(req'[s], i)
        PROVE  /\ gallery'[i] = Null /\ i \notin lost' /\ i \in files'
               /\ \A t \in Requests :
                    /\ t # s => ~HoldsRow(req'[t], i)
                    /\ req'[t].pc \in DeleteSteps => req'[t].id # i
    <2>1. s # r /\ HoldsRow(req[s], i) BY <1>2, <1>3 DEF HoldsRow
    <2>2. ASSUME NEW t \in Requests
          PROVE  /\ t # s => ~HoldsRow(req'[t], i)
                 /\ req'[t].pc \in DeleteSteps => req'[t].id # i
      <3>1. CASE t = r BY <1>2, <2>1, <3>1 DEF RowsInv, HoldsRow
      <3>2. CASE t # r BY <1>2, <2>1, <3>2 DEF RowsInv
      <3>3. QED BY <3>1, <3>2
    <2>3. QED BY <1>1, <2>1, <2>2 DEF RowsInv
  <1>4. ASSUME NEW s \in Requests, req'[s].pc \in DeleteSteps
        PROVE  gallery'[req'[s].id] \in {req'[s].on, Null}
    BY <1>1, <1>2, <1>4 DEF RowsInv
  <1>5. ASSUME NEW i \in lost', gallery'[i] # Null
        PROVE  \/ gallery'[i] \in overlapped' \cup failed'
               \/ \E s \in Requests :
                    Unlinking(req'[s]) /\ req'[s].on = gallery'[i] /\ req'[s].id = i
    <2>1. ASSUME NEW s \in Requests, Unlinking(req[s]) PROVE req'[s] = req[s]
      BY <1>2, <2>1 DEF Unlinking
    <2>2. QED BY <1>1, <1>5, <2>1 DEF RowsInv
  <1>6. QED BY <1>3, <1>4, <1>5 DEF RowsInv

\* An upload takes new names.
LEMMA RowsSave ==
    ASSUME IInv, NamesInv, RowsInv, NEW r \in Requests, Save(r)
    PROVE  RowsInv'
  <1>1. /\ UNCHANGED <<gallery, lost, failed, overlapped>> /\ files \subseteq files'
        /\ req[r].pc = "save"
    BY DEF Save, At
  <1>2. PICK batch \in SUBSET Fresh :
          files' = files \cup batch /\ ContinueNamed(r, "rows", batch)
    BY DEF Save, Batches, ContinueNamed
  <1>3. req'[r].pc = "rows" /\ req'[r].id = batch BY <1>1, <1>2, GoneNamed
  <1>4. \A s \in Requests \ {r} : req'[s] = req[s]
    BY <1>2 DEF ContinueNamed, IInv, SiteTypeOK
  <1>5. \A i \in batch : i \notin used /\ ~OfGallery(i) BY <1>2 DEF Fresh, NamesInv
  <1>6. \A s \in Requests : req[s].pc \in DeleteSteps => req[s].id \in used
    <2>1. ASSUME NEW s \in Requests, req[s].pc \in DeleteSteps PROVE req[s].id \in used
      BY <2>1 DEF IInv, LocalOK
    <2>2. QED BY <2>1
  <1>7. ASSUME NEW s \in Requests, NEW i \in Pictures, HoldsRow(req'[s], i)
        PROVE  /\ gallery'[i] = Null /\ i \notin lost' /\ i \in files'
               /\ \A t \in Requests :
                    /\ t # s => ~HoldsRow(req'[t], i)
                    /\ req'[t].pc \in DeleteSteps => req'[t].id # i
    <2>1. CASE s = r
      <3>1. i \in batch BY <1>3, <1>7, <2>1 DEF HoldsRow
      <3>2. \A t \in Requests : ~HoldsRow(req[t], i) BY <1>5, <3>1 DEF OfGallery
      <3>3. ASSUME NEW t \in Requests
            PROVE  /\ t # s => ~HoldsRow(req'[t], i)
                   /\ req'[t].pc \in DeleteSteps => req'[t].id # i
        BY <1>3, <1>4, <1>5, <1>6, <2>1, <3>1, <3>2 DEF DeleteSteps
      <3>4. QED BY <1>1, <1>2, <1>5, <3>1, <3>3 DEF OfGallery
    <2>2. CASE s # r
      <3>1. HoldsRow(req[s], i) BY <1>4, <1>7, <2>2
      <3>2. i \notin batch BY <1>5, <3>1 DEF OfGallery
      <3>3. ASSUME NEW t \in Requests
            PROVE  /\ t # s => ~HoldsRow(req'[t], i)
                   /\ req'[t].pc \in DeleteSteps => req'[t].id # i
        <4>1. CASE t = r BY <1>3, <3>2, <4>1 DEF HoldsRow, DeleteSteps
        <4>2. CASE t # r BY <1>4, <3>1, <4>2 DEF RowsInv
        <4>3. QED BY <4>1, <4>2
      <3>4. QED BY <1>1, <3>1, <3>3 DEF RowsInv
    <2>3. QED BY <2>1, <2>2
  <1>8. ASSUME NEW s \in Requests, req'[s].pc \in DeleteSteps
        PROVE  gallery'[req'[s].id] \in {req'[s].on, Null}
    BY <1>1, <1>3, <1>4, <1>8 DEF RowsInv, DeleteSteps
  <1>9. ASSUME NEW i \in lost', gallery'[i] # Null
        PROVE  \/ gallery'[i] \in overlapped' \cup failed'
               \/ \E s \in Requests :
                    Unlinking(req'[s]) /\ req'[s].on = gallery'[i] /\ req'[s].id = i
    <2>1. ASSUME NEW s \in Requests, Unlinking(req[s]) PROVE req'[s] = req[s]
      BY <1>1, <1>4, <2>1 DEF Unlinking
    <2>2. QED BY <1>1, <1>9, <2>1 DEF RowsInv
  <1>10. QED BY <1>7, <1>8, <1>9 DEF RowsInv

\* The names of a batch become rows.
LEMMA RowsSaveRows ==
    ASSUME IInv, RowsInv, NEW r \in Requests, SaveRows(r)
    PROVE  RowsInv'
  <1>1. /\ UNCHANGED <<files, lost, failed, overlapped>>
        /\ req[r].pc = "rows"
        /\ \A i \in Pictures : gallery'[i] = IF i \in req[r].id THEN req[r].on ELSE gallery[i]
    BY DEF SaveRows, At
  <1>2. req'[r].pc \in {"main", "idle"} /\ \A s \in Requests \ {r} : req'[s] = req[s]
    <2>1. Advance(r, {"main"})
      BY <1>1, AnswerAdvances, GoingAdvances DEF SaveRows
    <2>2. QED BY <2>1 DEF Advance, Idle
  <1>3. \A i \in Pictures : i \in req[r].id <=> HoldsRow(req[r], i) BY <1>1 DEF HoldsRow
  <1>4. ASSUME NEW s \in Requests, NEW i \in Pictures, HoldsRow(req'[s], i)
        PROVE  /\ gallery'[i] = Null /\ i \notin lost' /\ i \in files'
               /\ \A t \in Requests :
                    /\ t # s => ~HoldsRow(req'[t], i)
                    /\ req'[t].pc \in DeleteSteps => req'[t].id # i
    <2>1. s # r /\ HoldsRow(req[s], i) BY <1>2, <1>4 DEF HoldsRow
    <2>2. i \notin req[r].id BY <1>3, <2>1 DEF RowsInv
    <2>3. ASSUME NEW t \in Requests
          PROVE  /\ t # s => ~HoldsRow(req'[t], i)
                 /\ req'[t].pc \in DeleteSteps => req'[t].id # i
      <3>1. CASE t = r BY <1>2, <3>1 DEF HoldsRow, DeleteSteps
      <3>2. CASE t # r BY <1>2, <2>1, <3>2 DEF RowsInv
      <3>3. QED BY <3>1, <3>2
    <2>4. QED BY <1>1, <2>1, <2>2, <2>3 DEF RowsInv
  <1>5. ASSUME NEW s \in Requests, req'[s].pc \in DeleteSteps
        PROVE  gallery'[req'[s].id] \in {req'[s].on, Null}
    <2>1. s # r /\ req'[s] = req[s] BY <1>2, <1>5 DEF DeleteSteps
    <2>2. req[s].id \in Pictures BY <1>5, <2>1 DEF IInv, LocalOK
    <2>3. req[s].id \notin req[r].id BY <1>3, <1>5, <2>1, <2>2 DEF RowsInv
    <2>4. QED BY <1>1, <1>5, <2>1, <2>2, <2>3 DEF RowsInv
  <1>6. ASSUME NEW i \in lost', gallery'[i] # Null
        PROVE  \/ gallery'[i] \in overlapped' \cup failed'
               \/ \E s \in Requests :
                    Unlinking(req'[s]) /\ req'[s].on = gallery'[i] /\ req'[s].id = i
    <2>1. ASSUME NEW s \in Requests, Unlinking(req[s]) PROVE req'[s] = req[s]
      BY <1>1, <1>2, <2>1 DEF Unlinking
    <2>2. i \in Pictures /\ i \in lost BY <1>1, <1>6 DEF IInv, SiteTypeOK
    <2>3. i \notin req[r].id BY <1>3, <2>2 DEF RowsInv
    <2>4. QED BY <1>1, <1>6, <2>1, <2>2, <2>3 DEF RowsInv
  <1>7. QED BY <1>4, <1>5, <1>6 DEF RowsInv

\* A DELETE has found its picture.
LEMMA RowsDeleteFind ==
    ASSUME IInv, RowsInv, NEW r \in Requests, DeleteFind(r)
    PROVE  RowsInv'
  <1>1. /\ UNCHANGED <<files, gallery, failed, overlapped>>
        /\ LocalOK(req[r]) /\ req[r].pc = "imageFind" /\ req[r].id \in Pictures
    BY Running DEF DeleteFind, At, storage, LocalOK, DeleteSteps
  <1>2. /\ \A s \in Requests \ {r} : req'[s] = req[s]
        /\ \/ req'[r] = Idle /\ lost' = lost
           \/ /\ req'[r].pc = "unlink" /\ req'[r].on = req[r].on /\ req'[r].id = req[r].id
              /\ lost' = lost \cup {req[r].id} /\ gallery[req[r].id] # Null
    <2>1. CASE Answer(r) /\ UNCHANGED lost BY <2>1 DEF Answer, IInv, SiteTypeOK
    <2>2. CASE /\ gallery[req[r].id] # Null /\ Continue(r, "unlink")
               /\ lost' = lost \cup {req[r].id}
      BY <1>1, <2>2, GoneOn DEF Continue, IInv, SiteTypeOK
    <2>3. QED BY <2>1, <2>2 DEF DeleteFind
  <1>3. ASSUME NEW s \in Requests, NEW i \in Pictures, HoldsRow(req'[s], i)
        PROVE  /\ gallery'[i] = Null /\ i \notin lost' /\ i \in files'
               /\ \A t \in Requests :
                    /\ t # s => ~HoldsRow(req'[t], i)
                    /\ req'[t].pc \in DeleteSteps => req'[t].id # i
    <2>1. s # r /\ HoldsRow(req[s], i) BY <1>2, <1>3 DEF HoldsRow, Idle
    <2>2. i # req[r].id BY <1>1, <2>1 DEF RowsInv, DeleteSteps
    <2>3. ASSUME NEW t \in Requests
          PROVE  /\ t # s => ~HoldsRow(req'[t], i)
                 /\ req'[t].pc \in DeleteSteps => req'[t].id # i
      <3>1. CASE t = r BY <1>2, <2>2, <3>1 DEF HoldsRow, Idle, DeleteSteps
      <3>2. CASE t # r BY <1>2, <2>1, <3>2 DEF RowsInv
      <3>3. QED BY <3>1, <3>2
    <2>4. QED BY <1>1, <1>2, <2>1, <2>2, <2>3 DEF RowsInv
  <1>4. ASSUME NEW s \in Requests, req'[s].pc \in DeleteSteps
        PROVE  gallery'[req'[s].id] \in {req'[s].on, Null}
    <2>1. CASE s = r BY <1>1, <1>2, <1>4, <2>1 DEF RowsInv, DeleteSteps, Idle
    <2>2. CASE s # r BY <1>1, <1>2, <1>4, <2>2 DEF RowsInv
    <2>3. QED BY <2>1, <2>2
  <1>5. ASSUME NEW i \in lost', gallery'[i] # Null
        PROVE  \/ gallery'[i] \in overlapped' \cup failed'
               \/ \E s \in Requests :
                    Unlinking(req'[s]) /\ req'[s].on = gallery'[i] /\ req'[s].id = i
    <2>1. CASE i \in lost
      <3>1. ASSUME NEW s \in Requests, Unlinking(req[s]) PROVE req'[s] = req[s]
        BY <1>1, <1>2, <3>1 DEF Unlinking
      <3>2. QED BY <1>1, <1>5, <2>1, <3>1 DEF RowsInv
    <2>2. CASE i \notin lost
      <3>1. req'[r].pc = "unlink" /\ req'[r].on = req[r].on /\ req'[r].id = i /\ i = req[r].id
        BY <1>2, <1>5, <2>2
      <3>2. gallery[i] = req[r].on BY <1>1, <1>5, <3>1 DEF RowsInv, DeleteSteps
      <3>3. QED BY <1>1, <3>1, <3>2 DEF Unlinking
    <2>3. QED BY <2>1, <2>2
  <1>6. QED BY <1>3, <1>4, <1>5 DEF RowsInv

\* A DELETE removes the row.
LEMMA RowsDeleteRow ==
    ASSUME IInv, RowsInv, NEW r \in Requests, DeleteRow(r)
    PROVE  RowsInv'
  <1>1. /\ UNCHANGED <<files, lost, failed, overlapped>>
        /\ LocalOK(req[r]) /\ req[r].pc = "deleteRow" /\ req[r].id \in Pictures
        /\ \A i \in Pictures : gallery'[i] = IF i = req[r].id THEN Null ELSE gallery[i]
    BY Running DEF DeleteRow, At, storage, LocalOK, DeleteSteps, IInv, SiteTypeOK
  <1>2. /\ \A s \in Requests \ {r} : req'[s] = req[s]
        /\ \/ req'[r] = Idle
           \/ req'[r].pc = "remaining" /\ req'[r].on = req[r].on /\ req'[r].id = req[r].id
    <2>1. CASE Answer(r) BY <2>1 DEF Answer, IInv, SiteTypeOK
    <2>2. CASE Continue(r, "remaining")
      BY <1>1, <2>2, GoneOn DEF Continue, IInv, SiteTypeOK
    <2>3. QED BY <2>1, <2>2 DEF DeleteRow
  <1>3. ASSUME NEW s \in Requests, NEW i \in Pictures, HoldsRow(req'[s], i)
        PROVE  /\ gallery'[i] = Null /\ i \notin lost' /\ i \in files'
               /\ \A t \in Requests :
                    /\ t # s => ~HoldsRow(req'[t], i)
                    /\ req'[t].pc \in DeleteSteps => req'[t].id # i
    <2>1. s # r /\ HoldsRow(req[s], i) BY <1>2, <1>3 DEF HoldsRow, Idle
    <2>2. i # req[r].id BY <1>1, <2>1 DEF RowsInv, DeleteSteps
    <2>3. ASSUME NEW t \in Requests
          PROVE  /\ t # s => ~HoldsRow(req'[t], i)
                 /\ req'[t].pc \in DeleteSteps => req'[t].id # i
      <3>1. CASE t = r BY <1>2, <2>2, <3>1 DEF HoldsRow, Idle, DeleteSteps
      <3>2. CASE t # r BY <1>2, <2>1, <3>2 DEF RowsInv
      <3>3. QED BY <3>1, <3>2
    <2>4. QED BY <1>1, <2>1, <2>3 DEF RowsInv
  <1>4. ASSUME NEW s \in Requests, req'[s].pc \in DeleteSteps
        PROVE  gallery'[req'[s].id] \in {req'[s].on, Null}
    <2>1. CASE s = r BY <1>1, <1>2, <1>4, <2>1 DEF DeleteSteps, Idle
    <2>2. CASE s # r
      <3>1. req'[s] = req[s] BY <1>2, <2>2
      <3>2. req[s].id \in Pictures BY <1>4, <3>1 DEF IInv, LocalOK
      <3>3. QED BY <1>1, <1>4, <3>1, <3>2 DEF RowsInv
    <2>3. QED BY <2>1, <2>2
  <1>5. ASSUME NEW i \in lost', gallery'[i] # Null
        PROVE  \/ gallery'[i] \in overlapped' \cup failed'
               \/ \E s \in Requests :
                    Unlinking(req'[s]) /\ req'[s].on = gallery'[i] /\ req'[s].id = i
    <2>1. i \in Pictures /\ i \in lost BY <1>1, <1>5 DEF IInv, SiteTypeOK
    <2>2. i # req[r].id /\ gallery'[i] = gallery[i] BY <1>1, <1>5, <2>1
    <2>3. ASSUME NEW s \in Requests, req[s].id = i PROVE req'[s] = req[s]
      BY <1>2, <2>2, <2>3
    <2>4. QED BY <1>1, <1>5, <2>1, <2>2, <2>3 DEF RowsInv
  <1>6. QED BY <1>3, <1>4, <1>5 DEF RowsInv

\* The other handlers of Images.
LEMMA RowsOther ==
    ASSUME IInv, NamesInv, RowsInv, NEW r \in Requests,
           \/ UploadFind(r) \/ SaveFail(r) \/ SaveMain(r)
           \/ Unlink(r) \/ DeleteRemaining(r) \/ DeleteMain(r)
           \/ AvatarFind(r) \/ AvatarUnlink(r) \/ AvatarSave(r) \/ AvatarWrite(r)
           \/ /\ ImageFail(r, (UploadSteps \ {"save"}) \cup DeleteSteps \cup AvatarSteps)
              /\ UNCHANGED <<storage, gallery, avatar, lost>>
    PROVE  RowsInv'
  <1>1. /\ LocalOK(req[r]) /\ req[r].pc # "idle"
        /\ \/ req[r].pc \in {"uploadFind", "save", "main", "unlink", "remaining", "setMain",
                             "avatarFind", "avatarUnlink", "avatarSave", "avatarWrite"}
           \/ req[r].on \in failed'
    BY Running
       DEF UploadFind, SaveFail, SaveMain, Unlink, DeleteRemaining, DeleteMain, AvatarFind,
           AvatarUnlink, AvatarSave, AvatarWrite, ImageFail, At, UploadSteps, DeleteSteps,
           AvatarSteps
  <1>2. UNCHANGED <<gallery, lost, overlapped>> /\ failed \subseteq failed'
    BY DEF UploadFind, SaveFail, SaveMain, Unlink, DeleteRemaining, DeleteMain, AvatarFind,
           AvatarUnlink, AvatarSave, AvatarSaved, AvatarWrite, ImageFail, imageVars, storage
  <1>3. \A i \in Pictures : i \in files /\ i \notin files' => OfAvatar(i) \/ i \in lost
    BY <1>1
       DEF UploadFind, SaveFail, SaveMain, Unlink, DeleteRemaining, DeleteMain, AvatarFind,
           AvatarUnlink, AvatarSave, AvatarSaved, AvatarWrite, ImageFail, imageVars, storage,
           At, LocalOK, DeleteSteps, OfAvatar, HoldsAvatar
  <1>4. /\ \A s \in Requests \ {r} : req'[s] = req[s]
        /\ \/ req'[r] = Idle /\ (Unlinking(req[r]) => req[r].on \in failed')
           \/ /\ req'[r].pc \in {"save", "avatarUnlink", "avatarSave", "avatarWrite"}
              /\ ~Unlinking(req[r])
           \/ /\ req'[r].pc \in {"deleteRow", "setMain"} /\ req[r].pc \in {"unlink", "remaining"}
              /\ req'[r].pc = "deleteRow" <=> req[r].pc = "unlink"
              /\ req'[r].on = req[r].on /\ req'[r].id = req[r].id
    <2>1. CASE Answer(r)
      <3>1. req'[r] = Idle /\ \A s \in Requests \ {r} : req'[s] = req[s]
        BY <2>1 DEF Answer, IInv, SiteTypeOK
      <3>2. CASE req[r].on \in failed' BY <3>1, <3>2
      <3>3. CASE ~Unlinking(req[r]) BY <3>1, <3>3
      <3>4. CASE Unlink(r)
        <4>1. req'[r].pc = "deleteRow" BY <1>1, <3>4, GoneOn DEF Unlink
        <4>2. QED BY <3>1, <4>1 DEF Idle
      <3>5. QED
        BY <1>1, <3>2, <3>3, <3>4
           DEF UploadFind, SaveFail, SaveMain, DeleteRemaining, DeleteMain, AvatarFind,
               AvatarUnlink, AvatarSave, AvatarWrite, ImageFail, At, Unlinking
    <2>2. ASSUME NEW step, NEW value, ContinueWith(r, step, value)
          PROVE  /\ \A s \in Requests \ {r} : req'[s] = req[s]
                 /\ req'[r].pc = step /\ req'[r].on = req[r].on /\ req'[r].id = req[r].id
      BY <1>1, <2>2, GoneWith DEF ContinueWith, IInv, SiteTypeOK
    <2>3. ASSUME NEW step, Continue(r, step)
          PROVE  /\ \A s \in Requests \ {r} : req'[s] = req[s]
                 /\ req'[r].pc = step /\ req'[r].on = req[r].on /\ req'[r].id = req[r].id
      BY <1>1, <2>3, GoneOn DEF Continue, IInv, SiteTypeOK
    <2>4. CASE UploadFind(r) \/ DeleteRemaining(r) \/ AvatarFind(r)
      BY <2>1, <2>2, <2>4 DEF UploadFind, DeleteRemaining, AvatarFind, At, Unlinking
    <2>5. CASE Unlink(r) \/ AvatarUnlink(r)
      BY <2>3, <2>5 DEF Unlink, AvatarUnlink, At, Unlinking
    <2>6. CASE AvatarSave(r)
      <3>1. PICK i : ContinueNamed(r, "avatarWrite", i)
        BY <2>6 DEF AvatarSave, AvatarSaved, ContinueNamed
      <3>2. req'[r].pc = "avatarWrite" BY <1>1, <3>1, GoneNamed
      <3>3. \A s \in Requests \ {r} : req'[s] = req[s]
        BY <3>1 DEF ContinueNamed, IInv, SiteTypeOK
      <3>4. QED BY <2>6, <3>2, <3>3 DEF AvatarSave, At, Unlinking
    <2>7. QED
      BY <2>1, <2>4, <2>5, <2>6 DEF SaveFail, SaveMain, DeleteMain, AvatarWrite, ImageFail
  <1>5. KeepsOn(r)
    BY <1>4 DEF KeepsOn, HoldsRow, Idle, Unlinking, DeleteSteps
  <1>6. QED BY <1>2, <1>3, <1>5, RowsStay

\* Every step keeps the rows.
LEMMA NextRowsInv == IInv /\ NamesInv /\ RowsInv /\ [SiteNext]_siteVars => RowsInv'
  <1> SUFFICES ASSUME IInv, NamesInv, RowsInv, [SiteNext]_siteVars PROVE RowsInv'
    OBVIOUS
  <1>1. ASSUME NEW steps, NEW r \in Requests, Advance(r, steps), steps \cap DeleteSteps = {},
               "rows" \notin steps, ~Unlinking(req[r])
        PROVE  KeepsOn(r)
    BY <1>1 DEF Advance, KeepsOn, HoldsRow, Idle, DeleteSteps
  <1>2. CASE UNCHANGED siteVars BY <1>2, RowsStay DEF siteVars, imageVars
  <1>3. CASE LeadsNext /\ UNCHANGED imageVars
    <2>1. PICK r \in Requests : Advance(r, LeadSteps) /\ req[r].pc \in LeadSteps \cup {"idle"}
      BY <1>3, LeadsAdvance
    <2>2. KeepsOn(r) BY <1>1, <2>1 DEF LeadSteps, DeleteSteps, Unlinking
    <2>3. overlapped \subseteq overlapped' BY <2>1 DEF Advance
    <2>4. QED BY <1>3, <2>2, <2>3, RowsStay DEF imageVars
  <1>4. CASE CatalogueNext /\ UNCHANGED <<imageVars, leadVars>>
    <2>1. ASSUME NEW r \in Requests, Advance(r, CatalogueSteps),
                 req[r].pc \in CatalogueSteps \cup {"idle"}
          PROVE  KeepsOn(r) /\ overlapped \subseteq overlapped'
      <3>1. /\ CatalogueSteps \cap DeleteSteps = {} /\ "rows" \notin CatalogueSteps
            /\ ~Unlinking(req[r])
        BY <2>1 DEF CatalogueSteps, DeleteSteps, Unlinking
      <3>2. QED BY <1>1, <2>1, <3>1 DEF Advance
    <2>2. QED BY <1>4, <2>1, CatalogueAdvances, RowsStay DEF imageVars
  <1>5. CASE ImagesNext
    <2>1. ASSUME NEW r \in Requests,
                 \/ \E p \in Properties, owner \in Users : UploadStart(r, p, owner)
                 \/ \E u \in Users : AvatarStart(r, u)
          PROVE  RowsInv'
      <3>1. /\ Advance(r, {"uploadFind", "avatarFind"}) /\ UNCHANGED imageVars
            /\ req[r].pc = "idle"
        BY <2>1, BeginAdvances DEF UploadStart, AvatarStart, Begin, At
      <3>2. KeepsOn(r) BY <1>1, <3>1 DEF DeleteSteps, Unlinking
      <3>3. overlapped \subseteq overlapped' BY <3>1 DEF Advance
      <3>4. QED BY <3>1, <3>2, <3>3, RowsStay DEF imageVars
    <2>2. ASSUME NEW u \in Users, NEW url \in {"external", Null}, ProfileWrite(u, url)
          PROVE  RowsInv'
      <3>1. UNCHANGED <<req, overlapped, files, gallery, lost, failed>>
        BY <2>2 DEF ProfileWrite, storage
      <3>2. QED BY <3>1, RowsStay
    <2>3. QED
      BY <1>5, <2>1, <2>2, RowsDeleteStart, RowsSave, RowsSaveRows, RowsDeleteFind,
         RowsDeleteRow, RowsOther
         DEF ImagesNext
  <1>6. QED BY <1>2, <1>3, <1>4, <1>5 DEF SiteNext

\* There are no rows and no handlers at the start.
LEMMA InitRowsInv == SiteInit => RowsInv
  BY DEF SiteInit, CatalogueInit, ImagesInit, RowsInv, HoldsRow, Idle, DeleteSteps

-----------------------------------------------------------------------------
(***************************************************************************)
(* The main picture.  As long as no two handlers of a property overlap and *)
(* none fails, the main picture is one of its pictures and there, or a     *)
(* DELETE on its way will replace it.                                      *)
(***************************************************************************)
Good(p, i) == gallery[i] = p /\ i \in files

Clean(p) == p \notin overlapped \cup failed

\* The same of the next state.
GoodNext(p, i) == gallery'[i] = p /\ i \in files'

CleanNext(p) == p \notin overlapped' \cup failed'

\* The handler with locals h will replace the main picture of p.
Replacing(h, p) ==
    /\ h.on = p
    /\ \/ h.pc \in {"remaining", "setMain"}
       \/ Unlinking(h) /\ h.id = props[p].imagenPrincipal /\ gallery[h.id] = p

Replaced(p) == \E r \in Requests : Replacing(req[r], p)

MainOK(p) ==
    Exists(p) /\ props[p].imagenPrincipal \in Pictures =>
      \/ Good(p, props[p].imagenPrincipal)
      \/ Replaced(p)

ShownInv ==
    /\ \A r \in Requests : req[r].pc = "main" /\ Clean(req[r].on) =>
         \A i \in req[r].id : Good(req[r].on, i)
    /\ \A r \in Requests : req[r].pc = "setMain" /\ Clean(req[r].on) /\ req[r].seen # Null =>
         Good(req[r].on, req[r].seen)
    /\ \A p \in Properties : Clean(p) => MainOK(p)

\* A handler on a clean property is alone.
LEMMA Alone ==
    ASSUME IInv, PubInv, NEW r \in Requests, req[r].pc # "idle", req[r].on \in Properties,
           Clean(req[r].on), NEW s \in Requests, s # r, req[s].pc # "idle"
    PROVE  req[s].on # req[r].on
  BY CatalogueAssumption DEF PubInv, Clean

\* What the handlers at their last step and on their way have in their locals.
LEMMA MainLocals ==
    ASSUME IInv, NEW r \in Requests
    PROVE  /\ req[r].pc \in UploadSteps \cup DeleteSteps => req[r].on \in Properties
           /\ req[r].pc = "main" => req[r].id \subseteq Pictures
           /\ req[r].pc = "setMain" => req[r].seen \in Pictures \cup {Null}
           /\ req[r].pc \in DeleteSteps => req[r].id \in Pictures
  BY DEF IInv, SiteTypeOK, LocalOK

\* The request r is not about to write a main picture, or no longer.
Calm(r) ==
    /\ \A s \in Requests \ {r} : req'[s] = req[s]
    /\ req'[r].pc \notin {"main", "setMain"}
    /\ req[r].pc \in {"unlink", "deleteRow", "remaining", "setMain"} => req[r].on \in failed'

\* Steps that leave the rows of the pictures and their files.
LEMMA ShownStay ==
    ASSUME IInv, NamesInv, ShownInv, UNCHANGED gallery,
           overlapped \subseteq overlapped', failed \subseteq failed',
           \A i \in Pictures : i \in files /\ i \notin files' => OfAvatar(i),
           \A p \in Properties : props'[p] # Null =>
             \/ props'[p].imagenPrincipal \in {"external", Null}
             \/ Exists(p) /\ props'[p].imagenPrincipal = props[p].imagenPrincipal,
           UNCHANGED req \/ \E r \in Requests : Calm(r)
    PROVE  ShownInv'
  <1>1. ASSUME NEW p \in Properties, NEW i \in Pictures, Good(p, i) PROVE GoodNext(p, i)
    <2>1. gallery[i] # Null BY <1>1, CatalogueAssumption DEF Good
    <2>2. ~OfAvatar(i) BY <2>1 DEF NamesInv, OfGallery
    <2>3. QED BY <1>1, <2>2 DEF Good, GoodNext
  <1>2. ASSUME NEW r \in Requests, req'[r].pc = "main", CleanNext(req'[r].on)
        PROVE  \A i \in req'[r].id : GoodNext(req'[r].on, i)
    <2>1. req'[r] = req[r] /\ Clean(req[r].on) BY <1>2 DEF Calm, Clean, CleanNext
    <2>2. req[r].on \in Properties /\ req[r].id \subseteq Pictures
      BY <1>2, <2>1, MainLocals DEF UploadSteps
    <2>3. ASSUME NEW i \in req[r].id PROVE GoodNext(req[r].on, i)
      <3>1. Good(req[r].on, i) BY <1>2, <2>1 DEF ShownInv
      <3>2. QED BY <1>1, <2>2, <3>1
    <2>4. QED BY <2>1, <2>3 DEF Good
  <1>3. ASSUME NEW r \in Requests, req'[r].pc = "setMain", CleanNext(req'[r].on),
               req'[r].seen # Null
        PROVE  GoodNext(req'[r].on, req'[r].seen)
    <2>1. req'[r] = req[r] /\ Clean(req[r].on) BY <1>3 DEF Calm, Clean, CleanNext
    <2>2. req[r].on \in Properties /\ req[r].seen \in Pictures
      BY <1>3, <2>1, MainLocals DEF DeleteSteps
    <2>3. Good(req[r].on, req[r].seen) BY <1>3, <2>1 DEF ShownInv
    <2>4. GoodNext(req[r].on, req[r].seen) BY <1>1, <2>2, <2>3
    <2>5. QED BY <2>1, <2>4 DEF Good
  <1>4. ASSUME NEW p \in Properties, CleanNext(p) PROVE MainOK(p)'
    <2>1. SUFFICES ASSUME props'[p] # Null, props'[p].imagenPrincipal \in Pictures
                   PROVE  \/ GoodNext(p, props'[p].imagenPrincipal)
                          \/ Replaced(p)'
      BY DEF MainOK, Exists, Good, GoodNext
    <2>2. Exists(p) /\ props'[p].imagenPrincipal = props[p].imagenPrincipal
      BY <2>1, CatalogueAssumption
    <2>3. Clean(p) BY <1>4 DEF Clean, CleanNext
    <2>4. CASE Good(p, props[p].imagenPrincipal)
      BY <1>1, <2>1, <2>2, <2>4 DEF Good
    <2>5. ASSUME NEW r \in Requests, Replacing(req[r], p) PROVE Replaced(p)'
      <3>1. req'[r] = req[r] BY <1>4, <2>5 DEF Calm, Clean, CleanNext, Replacing, Unlinking
      <3>2. QED BY <2>2, <2>5, <3>1 DEF Replaced, Replacing, Unlinking
    <2>6. QED BY <2>1, <2>2, <2>3, <2>4, <2>5 DEF ShownInv, MainOK, Replaced
  <1>5. QED BY <1>2, <1>3, <1>4 DEF ShownInv, Good, GoodNext, Clean, CleanNext

\* A step of a handler on property p: only the pictures of p are at stake, and
\* if p is still clean the other handlers are on other properties.
LEMMA ShownMove ==
    ASSUME IInv, PubInv, ShownInv, NEW r \in Requests, req[r].pc # "idle",
           NEW p \in Properties, req[r].on = p,
           \A s \in Requests \ {r} : req'[s] = req[s],
           UNCHANGED overlapped, failed \subseteq failed',
           \A i \in Pictures : gallery[i] \notin {Null, p} =>
             gallery'[i] = gallery[i] /\ (i \in files => i \in files'),
           \A x \in Properties \ {p} : props'[x] = props[x],
           req'[r].pc \in {"main", "setMain"} => req'[r].on = p,
           CleanNext(p) => MainOK(p)',
           CleanNext(p) /\ req'[r].pc = "main" => \A i \in req'[r].id : GoodNext(p, i),
           CleanNext(p) /\ req'[r].pc = "setMain" /\ req'[r].seen # Null =>
             GoodNext(p, req'[r].seen)
    PROVE  ShownInv'
  <1>1. ASSUME NEW x \in Properties, x # p, NEW i \in Pictures, Good(x, i) PROVE GoodNext(x, i)
    BY <1>1, CatalogueAssumption DEF Good, GoodNext
  <1>2. ASSUME NEW x, CleanNext(x) PROVE Clean(x) BY <1>2 DEF Clean, CleanNext
  <1>3. ASSUME NEW s \in Requests, s # r, req[s].pc \in UploadSteps \cup DeleteSteps,
               CleanNext(req[s].on)
        PROVE  req[s].on \in Properties /\ req[s].on # p
    <2>1. req[s].on \in Properties BY <1>3, MainLocals
    <2>2. req[s].pc # "idle" BY <1>3 DEF UploadSteps, DeleteSteps
    <2>3. Clean(req[s].on) BY <1>2, <1>3
    <2>4. QED BY <1>3, <2>1, <2>2, <2>3, Alone
  <1>4. ASSUME NEW s \in Requests, req'[s].pc = "main", CleanNext(req'[s].on)
        PROVE  \A i \in req'[s].id : GoodNext(req'[s].on, i)
    <2>1. CASE s = r
      <3>1. req'[r].on = p BY <1>4, <2>1
      <3>2. CleanNext(p) BY <1>4, <2>1, <3>1 DEF Clean
      <3>3. QED BY <1>4, <2>1, <3>1, <3>2 DEF Good
    <2>2. CASE s # r
      <3>1. req'[s] = req[s] BY <2>2
      <3>2. CleanNext(req[s].on) BY <1>4, <3>1 DEF Clean
      <3>3. req[s].on \in Properties /\ req[s].on # p /\ req[s].id \subseteq Pictures
        BY <1>3, <1>4, <2>2, <3>1, <3>2, MainLocals DEF UploadSteps
      <3>4. ASSUME NEW i \in req[s].id PROVE GoodNext(req[s].on, i)
        <4>1. Good(req[s].on, i) BY <1>2, <1>4, <3>1, <3>2 DEF ShownInv
        <4>2. QED BY <1>1, <3>3, <4>1
      <3>5. QED BY <3>1, <3>4 DEF Good
    <2>3. QED BY <2>1, <2>2
  <1>5. ASSUME NEW s \in Requests, req'[s].pc = "setMain", CleanNext(req'[s].on),
               req'[s].seen # Null
        PROVE  GoodNext(req'[s].on, req'[s].seen)
    <2>1. CASE s = r
      <3>1. req'[r].on = p BY <1>5, <2>1
      <3>2. CleanNext(p) BY <1>5, <2>1, <3>1 DEF Clean
      <3>3. QED BY <1>5, <2>1, <3>1, <3>2 DEF Good
    <2>2. CASE s # r
      <3>1. req'[s] = req[s] BY <2>2
      <3>2. CleanNext(req[s].on) BY <1>5, <3>1 DEF Clean
      <3>3. req[s].on \in Properties /\ req[s].on # p /\ req[s].seen \in Pictures
        BY <1>3, <1>5, <2>2, <3>1, <3>2, MainLocals DEF DeleteSteps
      <3>4. Good(req[s].on, req[s].seen) BY <1>2, <1>5, <3>1, <3>2 DEF ShownInv
      <3>5. GoodNext(req[s].on, req[s].seen) BY <1>1, <3>3, <3>4
      <3>6. QED BY <3>1, <3>5 DEF Good
    <2>3. QED BY <2>1, <2>2
  <1>6. ASSUME NEW x \in Properties, CleanNext(x) PROVE MainOK(x)'
    <2>1. CASE x = p BY <1>6, <2>1
    <2>2. CASE x # p
      <3>1. SUFFICES ASSUME props[x] # Null, props[x].imagenPrincipal \in Pictures
                     PROVE  \/ GoodNext(x, props[x].imagenPrincipal)
                            \/ Replaced(x)'
        BY <2>2 DEF MainOK, Exists, Good, GoodNext
      <3>2. Clean(x) BY <1>2, <1>6
      <3>3. props'[x] = props[x] BY <2>2
      <3>4. CASE Good(x, props[x].imagenPrincipal)
        <4>1. PICK i \in Pictures : i = props[x].imagenPrincipal BY <3>1
        <4>2. GoodNext(x, i) BY <1>1, <2>2, <3>4, <4>1
        <4>3. QED BY <3>3, <4>1, <4>2 DEF Good
      <3>5. ASSUME NEW s \in Requests, Replacing(req[s], x) PROVE Replaced(x)'
        <4>1. s # r BY <2>2, <3>5 DEF Replacing
        <4>2. req'[s] = req[s] BY <4>1
        <4>3. Unlinking(req[s]) => req[s].id \in Pictures
          BY MainLocals DEF Unlinking, DeleteSteps
        <4>4. QED
          BY <2>2, <3>3, <3>5, <4>2, <4>3, CatalogueAssumption
             DEF Replaced, Replacing, Unlinking
      <3>6. QED BY <3>1, <3>2, <3>4, <3>5 DEF ShownInv, MainOK, Exists, Replaced
    <2>3. QED BY <2>1, <2>2
  <1>7. QED BY <1>4, <1>5, <1>6 DEF ShownInv, Good, GoodNext, Clean, CleanNext

\* What MainOK says of a clean property whose only handler is r.
LEMMA MainAlone ==
    ASSUME IInv, PubInv, ShownInv, NEW r \in Requests, req[r].pc # "idle",
           NEW p \in Properties, req[r].on = p, Clean(p), Exists(p),
           props[p].imagenPrincipal \in Pictures
    PROVE  Good(p, props[p].imagenPrincipal) \/ Replacing(req[r], p)
  <1>1. ASSUME NEW s \in Requests, Replacing(req[s], p) PROVE s = r
    <2>1. req[s].pc # "idle" /\ req[s].on = p BY <1>1 DEF Replacing, Unlinking
    <2>2. QED BY <2>1, Alone
  <1>2. QED BY <1>1 DEF ShownInv, MainOK, Replaced

\* The rows of an upload.
LEMMA ShownSaveRows ==
    ASSUME IInv, PubInv, RowsInv, ShownInv, NEW r \in Requests, SaveRows(r)
    PROVE  ShownInv'
  <1>1. /\ req[r].pc = "rows" /\ LocalOK(req[r])
        /\ UNCHANGED <<props, overlapped, files, failed>>
        /\ \A i \in Pictures : gallery'[i] = IF i \in req[r].id THEN req[r].on ELSE gallery[i]
    BY Running DEF SaveRows, At
  <1>2. PICK p \in Properties : p = req[r].on BY <1>1, MainLocals DEF UploadSteps
  <1>3. req[r].id \subseteq Pictures BY <1>1 DEF LocalOK, IInv, SiteTypeOK
  <1>4. \A i \in Pictures : i \in req[r].id => gallery[i] = Null /\ i \in files
    BY <1>1 DEF RowsInv, HoldsRow
  <1>5. /\ \A s \in Requests \ {r} : req'[s] = req[s]
        /\ \/ req'[r] = Idle
           \/ req'[r].pc = "main" /\ req'[r].on = p /\ req'[r].id = req[r].id
    <2>1. CASE Answer(r) BY <2>1 DEF Answer, IInv, SiteTypeOK
    <2>2. CASE Continue(r, "main")
      BY <1>1, <1>2, <2>2, GoneOn DEF Continue, IInv, SiteTypeOK
    <2>3. QED BY <2>1, <2>2 DEF SaveRows
  <1>6. \A i \in req[r].id : GoodNext(p, i) BY <1>1, <1>2, <1>3, <1>4 DEF Good, GoodNext
  <1>7. ASSUME CleanNext(p) PROVE MainOK(p)'
    <2>1. SUFFICES ASSUME Exists(p), props[p].imagenPrincipal \in Pictures
                   PROVE  GoodNext(p, props[p].imagenPrincipal)
      BY <1>1 DEF MainOK, Exists, Replaced, Good, GoodNext
    <2>2. Clean(p) BY <1>1, <1>7 DEF Clean, CleanNext
    <2>3. ~Replacing(req[r], p) BY <1>1 DEF Replacing, Unlinking
    <2>4. Good(p, props[p].imagenPrincipal) BY <1>1, <1>2, <2>1, <2>2, <2>3, MainAlone
    <2>5. QED BY <1>1, <1>2, <2>1, <2>4 DEF Good, GoodNext
  <1>8. \A i \in Pictures : gallery[i] \notin {Null, p} =>
          gallery'[i] = gallery[i] /\ (i \in files => i \in files')
    BY <1>1, <1>4
  <1>9. QED BY <1>1, <1>2, <1>5, <1>6, <1>7, <1>8, ShownMove DEF Idle

\* The writes of the main picture.
LEMMA ShownMain ==
    ASSUME IInv, PubInv, ShownInv, NEW r \in Requests, SaveMain(r) \/ DeleteMain(r)
    PROVE  ShownInv'
  <1>1. /\ req[r].pc \in {"main", "setMain"}
        /\ UNCHANGED <<overlapped, files, gallery, failed>> /\ Answer(r)
    BY DEF SaveMain, DeleteMain, At, imageVars
  <1>2. PICK p \in Properties : p = req[r].on
    BY <1>1, MainLocals DEF UploadSteps, DeleteSteps
  <1>3. Exists(p) /\ props[p] \in PropertyRow
    BY <1>2, MainWritten DEF Exists, IInv, SiteTypeOK
  <1>4. PICK i \in MainPictures :
          /\ props' = [props EXCEPT ![p].imagenPrincipal = i]
          /\ Clean(p) /\ i \in Pictures => Good(p, i)
    <2>1. CASE SaveMain(r)
      <3>1. PICK i \in req[r].id : props' = [props EXCEPT ![p].imagenPrincipal = i]
        BY <1>2, <2>1 DEF SaveMain
      <3>2. req[r].pc = "main" BY <2>1 DEF SaveMain, At
      <3>3. i \in MainPictures BY <3>2, MainLocals DEF MainPictures
      <3>4. Clean(p) => Good(p, i) BY <1>2, <3>2 DEF ShownInv
      <3>5. QED BY <3>1, <3>3, <3>4
    <2>2. CASE DeleteMain(r)
      <3>1. props' = [props EXCEPT ![p].imagenPrincipal = req[r].seen] /\ req[r].pc = "setMain"
        BY <1>2, <2>2 DEF DeleteMain, At
      <3>2. req[r].seen \in MainPictures BY <3>1, MainLocals DEF MainPictures
      <3>3. Clean(p) /\ req[r].seen \in Pictures => Good(p, req[r].seen)
        BY <1>2, <3>1, CatalogueAssumption DEF ShownInv
      <3>4. QED BY <3>1, <3>2, <3>3
    <2>3. QED BY <2>1, <2>2
  <1>5. /\ \A x \in Properties \ {p} : props'[x] = props[x]
        /\ props'[p] = [props[p] EXCEPT !.imagenPrincipal = i]
    BY <1>4 DEF IInv, SiteTypeOK
  <1>6. props'[p].imagenPrincipal = i BY <1>3, <1>5 DEF PropertyRow
  <1>7. CleanNext(p) => MainOK(p)' BY <1>1, <1>4, <1>6 DEF MainOK, Clean, CleanNext, Good, GoodNext
  <1>8. req'[r] = Idle /\ \A s \in Requests \ {r} : req'[s] = req[s]
    BY <1>1 DEF Answer, IInv, SiteTypeOK
  <1>9. QED BY <1>1, <1>2, <1>5, <1>7, <1>8, ShownMove DEF Idle

\* The file of a picture is removed.
LEMMA ShownUnlink ==
    ASSUME IInv, PubInv, RowsInv, ShownInv, NEW r \in Requests, Unlink(r)
    PROVE  ShownInv'
  <1>1. /\ req[r].pc = "unlink" /\ UNCHANGED <<props, overlapped, gallery, failed>>
        /\ \A i \in Pictures : i \in files /\ i # req[r].id => i \in files'
    BY DEF Unlink, At
  <1>2. PICK p \in Properties : p = req[r].on BY <1>1, MainLocals DEF DeleteSteps
  <1>3. gallery[req[r].id] \in {p, Null} BY <1>1, <1>2 DEF RowsInv, DeleteSteps
  <1>4. /\ req'[r].pc = "deleteRow" /\ req'[r].on = p /\ req'[r].id = req[r].id
        /\ \A s \in Requests \ {r} : req'[s] = req[s]
    BY <1>1, <1>2, GoneOn DEF Unlink, Continue, IInv, SiteTypeOK
  <1>5. ASSUME CleanNext(p) PROVE MainOK(p)'
    <2>1. SUFFICES ASSUME Exists(p), props[p].imagenPrincipal \in Pictures
                   PROVE  GoodNext(p, props[p].imagenPrincipal) \/ Replacing(req[r], p)'
      BY <1>1 DEF MainOK, Exists, Replaced, Good, GoodNext
    <2>2. Clean(p) BY <1>1, <1>5 DEF Clean, CleanNext
    <2>3. Good(p, props[p].imagenPrincipal) \/ Replacing(req[r], p)
      BY <1>1, <1>2, <2>1, <2>2, MainAlone
    <2>4. CASE req[r].id = props[p].imagenPrincipal /\ gallery[req[r].id] = p
      BY <1>1, <1>4, <2>4 DEF Replacing, Unlinking
    <2>5. CASE req[r].id # props[p].imagenPrincipal \/ gallery[req[r].id] # p
      <3>1. ~Replacing(req[r], p) BY <1>1, <2>5 DEF Replacing
      <3>2. QED BY <1>1, <2>1, <2>3, <2>5, <3>1 DEF Good, GoodNext
    <2>6. QED BY <2>4, <2>5
  <1>6. \A i \in Pictures : gallery[i] \notin {Null, p} =>
          gallery'[i] = gallery[i] /\ (i \in files => i \in files')
    BY <1>1, <1>3
  <1>7. QED BY <1>1, <1>2, <1>4, <1>5, <1>6, ShownMove

\* The row of a picture is removed.
LEMMA ShownDeleteRow ==
    ASSUME IInv, PubInv, RowsInv, ShownInv, NEW r \in Requests, DeleteRow(r)
    PROVE  ShownInv'
  <1>1. /\ req[r].pc = "deleteRow" /\ UNCHANGED <<props, overlapped, files, failed>>
        /\ \A i \in Pictures : gallery'[i] = IF i = req[r].id THEN Null ELSE gallery[i]
    BY DEF DeleteRow, At, storage, IInv, SiteTypeOK
  <1>2. PICK p \in Properties : p = req[r].on BY <1>1, MainLocals DEF DeleteSteps
  <1>3. gallery[req[r].id] \in {p, Null} BY <1>1, <1>2 DEF RowsInv, DeleteSteps
  <1>4. /\ \A s \in Requests \ {r} : req'[s] = req[s]
        /\ \/ req'[r] = Idle /\ gallery[req[r].id] = Null
           \/ req'[r].pc = "remaining" /\ req'[r].on = p
    <2>1. CASE gallery[req[r].id] # Null
      BY <1>1, <1>2, <2>1, GoneOn DEF DeleteRow, Continue, IInv, SiteTypeOK
    <2>2. CASE gallery[req[r].id] = Null
      BY <2>2 DEF DeleteRow, Answer, IInv, SiteTypeOK
    <2>3. QED BY <2>1, <2>2
  <1>5. ASSUME CleanNext(p) PROVE MainOK(p)'
    <2>1. SUFFICES ASSUME Exists(p), props[p].imagenPrincipal \in Pictures
                   PROVE  GoodNext(p, props[p].imagenPrincipal) \/ Replacing(req[r], p)'
      BY <1>1 DEF MainOK, Exists, Replaced, Good, GoodNext
    <2>2. Clean(p) BY <1>1, <1>5 DEF Clean, CleanNext
    <2>3. Good(p, props[p].imagenPrincipal) \/ Replacing(req[r], p)
      BY <1>1, <1>2, <2>1, <2>2, MainAlone
    <2>4. CASE gallery[req[r].id] # Null
      BY <1>4, <2>4 DEF Replacing
    <2>5. CASE gallery[req[r].id] = Null
      <3>1. ~Replacing(req[r], p)
        BY <1>1, <2>5, CatalogueAssumption DEF Replacing
      <3>2. req[r].id # props[p].imagenPrincipal
        BY <2>3, <2>5, <3>1, CatalogueAssumption DEF Good
      <3>3. QED BY <1>1, <2>1, <2>3, <3>1, <3>2 DEF Good, GoodNext
    <2>6. QED BY <2>4, <2>5
  <1>6. \A i \in Pictures : gallery[i] \notin {Null, p} =>
          gallery'[i] = gallery[i] /\ (i \in files => i \in files')
    BY <1>1, <1>3
  <1>7. QED BY <1>1, <1>2, <1>4, <1>5, <1>6, ShownMove DEF Idle

\* The next main picture is chosen.
LEMMA ShownRemaining ==
    ASSUME IInv, PubInv, NamesInv, RowsInv, ShownInv, NEW r \in Requests, DeleteRemaining(r)
    PROVE  ShownInv'
  <1>1. req[r].pc = "remaining" /\ UNCHANGED <<props, overlapped, files, gallery, failed>>
    BY DEF DeleteRemaining, At, imageVars
  <1>2. PICK p \in Properties : p = req[r].on BY <1>1, MainLocals DEF DeleteSteps
  <1>3. PICK i : ContinueWith(r, "setMain", i) /\ i \in Gallery(p) \cup {Null}
    BY <1>2 DEF DeleteRemaining, Remaining
  <1>4. /\ req'[r].pc = "setMain" /\ req'[r].on = p /\ req'[r].seen = i
        /\ \A s \in Requests \ {r} : req'[s] = req[s]
    BY <1>1, <1>2, <1>3, GoneWith, ZenonT(60) DEF ContinueWith, IInv, SiteTypeOK
  <1>5. ASSUME Clean(p), i # Null PROVE Good(p, i)
    <2>1. i \in Pictures /\ gallery[i] = p BY <1>3, <1>5 DEF Gallery
    <2>2. gallery[i] # Null BY <2>1, CatalogueAssumption
    <2>3. i \in files \cup lost BY <2>1, <2>2 DEF NamesInv, OfGallery
    <2>4. ASSUME NEW s \in Requests, Unlinking(req[s]) PROVE req[s].on # p
      <3>1. s # r /\ req[s].pc # "idle" BY <1>1, <2>4 DEF Unlinking
      <3>2. QED BY <1>1, <1>2, <1>5, <3>1, Alone
    <2>5. i \notin lost BY <1>5, <2>1, <2>2, <2>4 DEF RowsInv, Clean
    <2>6. QED BY <2>1, <2>3, <2>5 DEF Good
  <1>6. MainOK(p)' BY <1>4 DEF MainOK, Replaced, Replacing
  <1>7. CleanNext(p) /\ req'[r].seen # Null => GoodNext(p, req'[r].seen)
    BY <1>1, <1>4, <1>5 DEF Clean, CleanNext, Good, GoodNext
  <1>8. QED BY <1>1, <1>2, <1>4, <1>6, <1>7, ShownMove

\* The other handlers of Images.
LEMMA ShownOther ==
    ASSUME IInv, NamesInv, ShownInv, NEW r \in Requests,
           \/ UploadFind(r) \/ Save(r) \/ SaveFail(r) \/ DeleteFind(r)
           \/ AvatarFind(r) \/ AvatarUnlink(r) \/ AvatarSave(r) \/ AvatarWrite(r)
           \/ /\ ImageFail(r, (UploadSteps \ {"save"}) \cup DeleteSteps \cup AvatarSteps)
              /\ UNCHANGED <<storage, gallery, avatar, lost>>
    PROVE  ShownInv'
  <1>1. req[r].pc # "idle"
    BY DEF UploadFind, Save, SaveFail, DeleteFind, AvatarFind, AvatarUnlink, AvatarSave,
           AvatarWrite, ImageFail, At, UploadSteps, DeleteSteps, AvatarSteps
  <1>2. UNCHANGED <<props, overlapped, gallery>> /\ failed \subseteq failed'
    BY DEF UploadFind, Save, SaveFail, DeleteFind, AvatarFind, AvatarUnlink, AvatarSave,
           AvatarSaved, AvatarWrite, ImageFail, imageVars, storage
  <1>3. \A i \in Pictures : i \in files /\ i \notin files' => OfAvatar(i)
    BY DEF UploadFind, Save, SaveFail, DeleteFind, AvatarFind, AvatarUnlink, AvatarSave,
           AvatarSaved, AvatarWrite, ImageFail, imageVars, storage, At, OfAvatar, HoldsAvatar
  <1>4. Advance(r, {"save", "rows", "unlink", "avatarUnlink", "avatarSave", "avatarWrite"})
    <2>1. CASE UploadFind(r) \/ DeleteFind(r) \/ AvatarFind(r)
      BY <1>1, <2>1, AnswerAdvances, GoingAdvances DEF UploadFind, DeleteFind, AvatarFind
    <2>2. CASE Save(r) \/ AvatarUnlink(r) \/ AvatarSave(r)
      BY <1>1, <2>2, GoingAdvances DEF Save, AvatarUnlink, AvatarSave, AvatarSaved
    <2>3. QED BY <2>1, <2>2, AnswerAdvances DEF SaveFail, AvatarWrite, ImageFail
  <1>5. req[r].pc \in {"unlink", "deleteRow", "remaining", "setMain"} => req[r].on \in failed'
    BY DEF UploadFind, Save, SaveFail, DeleteFind, AvatarFind, AvatarUnlink, AvatarSave,
           AvatarWrite, ImageFail, At
  <1>6. Calm(r) BY <1>4, <1>5 DEF Advance, Calm, Idle
  <1>7. QED BY <1>2, <1>3, <1>6, ShownStay DEF Exists

\* What Catalogue writes of a main picture is none of its pictures.
LEMMA CatalogueMains ==
    ASSUME IInv, CatalogueNext
    PROVE  \A p \in Properties : props'[p] # Null =>
             \/ props'[p].imagenPrincipal \in {"external", Null}
             \/ Exists(p) /\ props'[p].imagenPrincipal = props[p].imagenPrincipal
  <1>1. ASSUME NEW x \in Properties, NEW row, props' = [props EXCEPT ![x] = row],
               \/ row.imagenPrincipal \in {"external", Null}
               \/ Exists(x) /\ row.imagenPrincipal = props[x].imagenPrincipal
        PROVE  \A p \in Properties : props'[p] # Null =>
                 \/ props'[p].imagenPrincipal \in {"external", Null}
                 \/ Exists(p) /\ props'[p].imagenPrincipal = props[p].imagenPrincipal
    BY <1>1 DEF Exists, IInv, SiteTypeOK
  <1>2. ASSUME NEW owner \in Users, NEW p \in Properties, NEW picture \in {"external", Null},
               PropertyCreate(owner, p, picture)
        PROVE  \E row : /\ props' = [props EXCEPT ![p] = row]
                        /\ row.imagenPrincipal \in {"external", Null}
    <2>1. PICK row : row = NewProperty(owner, picture) OBVIOUS
    <2>2. row.imagenPrincipal = picture BY <2>1 DEF NewProperty
    <2>3. QED BY <1>2, <2>1, <2>2 DEF PropertyCreate
  <1>3. ASSUME NEW r \in Requests, PropertyWrite(r) \/ PropertyRemove(r)
        PROVE  \E x \in Properties : \E row :
                 /\ props' = [props EXCEPT ![x] = row]
                 /\ \/ row.imagenPrincipal \in {"external", Null}
                    \/ Exists(x) /\ row.imagenPrincipal = props[x].imagenPrincipal
    <2>1. LocalOK(req[r]) /\ req[r].pc \in {"propertyWrite", "propertyRemove"}
      BY <1>3, Running DEF PropertyWrite, PropertyRemove, At
    <2>2. PICK x \in Properties : x = req[r].on /\ Exists(x) /\ props[x] \in PropertyRow
      BY <2>1 DEF LocalOK, CatalogueSteps, Exists, IInv, SiteTypeOK
    <2>3. CASE PropertyWrite(r)
      <3>1. req[r].dto \in PropertyDtos /\ req[r].dto.publicado # Null
        BY <2>1, <2>3 DEF PropertyWrite, At, LocalOK
      <3>2. PICK row : row = PropertyPatched(props[x], req[r]) OBVIOUS
      <3>3. row.imagenPrincipal
              = IfGiven(req[r].dto.imagenPrincipal, props[x].imagenPrincipal)
        BY <2>2, <3>1, <3>2, PatchedProperty
      <3>4. req[r].dto.imagenPrincipal \in {"external", Undefined, Null}
        BY <3>1, CatalogueAssumption
      <3>5. props' = [props EXCEPT ![x] = row] BY <2>2, <2>3, <3>2 DEF PropertyWrite
      <3>6. QED BY <2>2, <3>3, <3>4, <3>5 DEF IfGiven
    <2>4. CASE PropertyRemove(r)
      <3>1. PICK row : row = [props[x] EXCEPT !.isActive = FALSE] OBVIOUS
      <3>2. row.imagenPrincipal = props[x].imagenPrincipal BY <2>2, <3>1 DEF PropertyRow
      <3>3. props' = [props EXCEPT ![x] = row] BY <2>2, <2>4, <3>1 DEF PropertyRemove
      <3>4. QED BY <2>2, <3>2, <3>3
    <2>5. QED BY <1>3, <2>3, <2>4
  <1>4. CASE UNCHANGED props BY <1>4 DEF Exists
  <1>5. CASE \E owner \in Users, p \in Properties, picture \in {"external", Null} :
               PropertyCreate(owner, p, picture)
    BY <1>1, <1>2, <1>5
  <1>6. CASE \E r \in Requests : PropertyWrite(r) \/ PropertyRemove(r)
    BY <1>1, <1>3, <1>6
  <1>7. QED
    BY <1>4, <1>5, <1>6
       DEF CatalogueNext, PropertyPatchStart, PropertyRemoveStart, PropertyFind, PropertyFail

\* Every step keeps what is shown.
LEMMA NextShownInv ==
    IInv /\ PubInv /\ NamesInv /\ RowsInv /\ ShownInv /\ [SiteNext]_siteVars => ShownInv'
  <1> SUFFICES ASSUME IInv, PubInv, NamesInv, RowsInv, ShownInv, [SiteNext]_siteVars
               PROVE  ShownInv'
    OBVIOUS
  <1>1. CASE UNCHANGED siteVars BY <1>1, ShownStay DEF siteVars, imageVars, Exists
  <1>2. CASE LeadsNext /\ UNCHANGED imageVars
    <2>1. UNCHANGED props
      BY <1>2
         DEF LeadsNext, FormStart, LeadStart, LeadRemoveStart, LeadPatchStart, FormRead,
             LeadProperty, LeadInsert, LeadFind, LeadMove, LeadWrite, LeadFindRemove, LeadRemove,
             LeadFail, Unchanged
    <2>2. PICK r \in Requests : Advance(r, LeadSteps) /\ req[r].pc \in LeadSteps \cup {"idle"}
      BY <1>2, LeadsAdvance
    <2>3. Calm(r) /\ overlapped \subseteq overlapped'
      BY <2>2 DEF Advance, Calm, LeadSteps, Idle
    <2>4. QED BY <1>2, <2>1, <2>3, ShownStay DEF imageVars, Exists
  <1>3. CASE CatalogueNext /\ UNCHANGED <<imageVars, leadVars>>
    <2>1. ASSUME NEW r \in Requests, Advance(r, CatalogueSteps),
                 req[r].pc \in CatalogueSteps \cup {"idle"}
          PROVE  Calm(r) /\ overlapped \subseteq overlapped'
      BY <2>1 DEF Advance, Calm, CatalogueSteps, Idle
    <2>2. overlapped \subseteq overlapped' /\ (UNCHANGED req \/ \E r \in Requests : Calm(r))
      BY <1>3, <2>1, CatalogueAdvances
    <2>3. QED BY <1>3, <2>2, CatalogueMains, ShownStay DEF imageVars
  <1>4. CASE ImagesNext
    <2>1. ASSUME NEW r \in Requests,
                 \/ \E p \in Properties, owner \in Users : UploadStart(r, p, owner)
                 \/ \E i \in Pictures, owner \in Users : DeleteStart(r, i, owner)
                 \/ \E u \in Users : AvatarStart(r, u)
          PROVE  ShownInv'
      <3>1. /\ Advance(r, {"uploadFind", "imageFind", "avatarFind"})
            /\ UNCHANGED <<props, imageVars>> /\ req[r].pc = "idle"
        BY <2>1, BeginAdvances DEF UploadStart, DeleteStart, AvatarStart, Begin, At
      <3>2. Calm(r) /\ overlapped \subseteq overlapped' BY <3>1 DEF Advance, Calm, Idle
      <3>3. QED BY <3>1, <3>2, ShownStay DEF imageVars, Exists
    <2>2. ASSUME NEW u \in Users, NEW url \in {"external", Null}, ProfileWrite(u, url)
          PROVE  ShownInv'
      <3>1. UNCHANGED <<props, req, overlapped, files, gallery, failed>>
        BY <2>2 DEF ProfileWrite, storage
      <3>2. QED BY <3>1, ShownStay DEF Exists
    <2>3. QED
      BY <1>4, <2>1, <2>2, ShownSaveRows, ShownMain, ShownUnlink, ShownDeleteRow,
         ShownRemaining, ShownOther
         DEF ImagesNext
  <1>5. QED BY <1>1, <1>2, <1>3, <1>4 DEF SiteNext

\* The properties of the start have no main picture.
LEMMA InitShownInv == SiteInit => ShownInv
  <1> SUFFICES ASSUME SiteInit PROVE ShownInv
    OBVIOUS
  <1>1. \A r \in Requests : req[r].pc = "idle" BY DEF SiteInit, CatalogueInit, Idle
  <1>2. \A p \in Properties : Exists(p) => props[p].imagenPrincipal = Null
    BY DEF SiteInit, CatalogueInit, NewProperty, Exists
  <1>3. QED BY <1>1, <1>2, CatalogueAssumption DEF ShownInv, MainOK

\* Once its handlers are over, the main picture of a property is one of its
\* pictures and its file is there, unless two of them overlapped or one failed.
THEOREM MainPicturesAreShown == SiteSpec => []MainIsShown
  <1>1. SiteInit => PubInv
    BY CatalogueAssumption
       DEF SiteInit, CatalogueInit, PubInv, PublicationDated, Idle, Exists, NewProperty
  <1>2. ShownInv => MainIsShown
    <2>1. ASSUME NEW r \in Requests, NEW p \in Properties, Replacing(req[r], p)
          PROVE  InFlightOn(p) # {}
      <3>1. r \in InFlightOn(p) BY <2>1 DEF Replacing, Unlinking, InFlightOn, At
      <3>2. QED BY <3>1
    <2>2. QED
      BY <2>1 DEF ShownInv, MainOK, Replaced, MainIsShown, Clean, Good, Gallery
  <1>3. QED
    BY <1>1, <1>2, InitIInv, InitNamesInv, InitRowsInv, InitShownInv, NextIInv, NextPubInv,
       NextNamesInv, NextRowsInv, NextShownInv, PTL
       DEF SiteSpec
=============================================================================
