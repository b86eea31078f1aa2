------------------------- MODULE LeaseHistoryProofs -------------------------
(***************************************************************************)
(* Proofs about LeaseHistory: the dates of a contract and the estado of a  *)
(* property, for any number of requests in flight.  The history only       *)
(* observes the handlers of Leases, so the invariant of LeasesProofs holds *)
(* here too, and with it what a step may do to the locals and the rows.    *)
(***************************************************************************)
EXTENDS LeaseHistory, LeasesProofs

LEMMA HistorySteps ==
    /\ HistoryInit => Init
    /\ [HistoryNext]_historyVars => [Next]_vars
  BY DEF HistoryInit, HistoryNext, historyVars, vars

LEMMA HistoryInvariant == HistorySpec => []IInv
  <1>1. HistoryInit => IInv BY HistorySteps, InitIInv
  <1>2. IInv /\ [HistoryNext]_historyVars => IInv' BY HistorySteps, NextStep
  <1>3. QED BY <1>1, <1>2, PTL DEF HistorySpec

-----------------------------------------------------------------------------
(***************************************************************************)
(* Dates.  While a PATCH is in flight, what it is going to write still     *)
(* fits the row, although the check was made on an earlier one.            *)
(***************************************************************************)
InOrder(row) == row.fechaInicio < row.fechaFin

Fits(row, dto) ==
    Written(row.fechaInicio, dto.fechaInicio) < Written(row.fechaFin, dto.fechaFin)

PatchFits(q) == q.pc \in PatchSteps /\ q.id \notin skewed => Fits(contracts[q.id], q.dto)

CreateFits(q) == q.pc \in CreateSteps => q.dto.fechaInicio < q.dto.fechaFin

DatesInv ==
    /\ \A c \in Contracts : Skewing(c) => c \in skewed
    /\ DatesOrdered
    /\ \A r \in Requests : CreateFits(req[r]) /\ PatchFits(req[r])

\* What an accepted body leaves, if it gives no null.
LEMMA AcceptedFits ==
    ASSUME NEW row \in ContractRow, NEW dto \in PatchDtos, Null \notin Dates(dto),
           InOrder(row), DatesAccepted(row, dto)
    PROVE  Fits(row, dto)
  <1>1. /\ dto.fechaInicio \in Int \cup {Undefined} /\ dto.fechaFin \in Int \cup {Undefined}
        /\ dto.fechaInicio # Null /\ dto.fechaFin # Null
    BY DtosAssumption DEF PatchDto, Dates
  <1>2. row.fechaInicio \in Int /\ row.fechaFin \in Int BY DEF ContractRow
  <1>3. QED
    BY <1>1, <1>2, MarkersAssumption DEF Fits, InOrder, DatesAccepted, Given, Written

\* A row that does not change its dates, and a body that gives both, fit as before.
LEMMA StillFits ==
    ASSUME NEW row \in ContractRow, NEW new \in ContractRow, NEW dto \in PatchDtos,
           Null \notin Dates(dto), Fits(row, dto),
           \/ new.fechaInicio = row.fechaInicio /\ new.fechaFin = row.fechaFin
           \/ Undefined \notin Dates(dto)
           \/ Dates(dto) = {Undefined} /\ InOrder(new)
    PROVE  Fits(new, dto)
  <1>1. /\ dto.fechaInicio \in Int \cup {Undefined} /\ dto.fechaFin \in Int \cup {Undefined}
        /\ dto.fechaInicio # Null /\ dto.fechaFin # Null
    BY DtosAssumption DEF PatchDto, Dates
  <1>2. CASE new.fechaInicio = row.fechaInicio /\ new.fechaFin = row.fechaFin
    BY <1>2 DEF Fits
  <1>3. CASE Undefined \notin Dates(dto)
    BY <1>1, <1>3 DEF Fits, Written, Dates
  <1>4. CASE Dates(dto) = {Undefined} /\ InOrder(new)
    <2>1. dto.fechaInicio = Undefined /\ dto.fechaFin = Undefined BY <1>4 DEF Dates
    <2>2. QED BY <1>4, <2>1 DEF Fits, Written, InOrder
  <1>5. QED BY <1>2, <1>3, <1>4

\* How the dates of a contract come about in a step.
LEMMA DatesMove ==
    ASSUME IInv, Next, NEW c \in Contracts, Present(contracts', c)
    PROVE  \/ \E r \in Requests :
                At(r, "createInsert") /\ ~Present(contracts, c)
                  /\ contracts'[c] = NewContract(req[r])
           \/ /\ Present(contracts, c)
              /\ contracts'[c].fechaInicio = contracts[c].fechaInicio
              /\ contracts'[c].fechaFin = contracts[c].fechaFin
           \/ /\ Present(contracts, c)
              /\ \E r \in Requests :
                   /\ Patching(r, c) /\ req'[r] = Idle
                   /\ contracts'[c] = Patched(contracts[c], req[r].dto)
  <1>1. CASE contracts'[c] = contracts[c] BY <1>1 DEF Present
  <1>2. ASSUME NEW r \in Requests, PatchWrite(r), contracts'[c] # contracts[c]
        PROVE  /\ Present(contracts, c) /\ Patching(r, c) /\ req'[r] = Idle
               /\ contracts'[c] = Patched(contracts[c], req[r].dto)
    BY <1>2, AnswerIsIdle
       DEF PatchWrite, At, Patching, PatchSteps, IInv, TypeOK, LocalsOK, LocalOK
  <1>3. ASSUME NEW r \in Requests, CancelCommit(r), contracts'[c] # contracts[c]
        PROVE  /\ Present(contracts, c)
               /\ contracts'[c].fechaInicio = contracts[c].fechaInicio
               /\ contracts'[c].fechaFin = contracts[c].fechaFin
    <2>1. /\ contracts'[c] = Cancelled(contracts[c])
          /\ Present(contracts, c) /\ contracts[c] \in ContractRow
      BY <1>3 DEF CancelCommit, At, IInv, TypeOK, LocalsOK, LocalOK, Present
    <2>2. QED BY <2>1 DEF Cancelled, ContractRow
  <1>4. ASSUME NEW r \in Requests, CreateInsert(r), contracts'[c] # contracts[c]
        PROVE  At(r, "createInsert") /\ ~Present(contracts, c)
                 /\ contracts'[c] = NewContract(req[r])
    BY <1>4 DEF CreateInsert, IInv, TypeOK
  <1>5. QED BY <1>1, <1>2, <1>3, <1>4, WhoWrites

\* Contracts that were not skewed stay in order.
LEMMA OrderStep ==
    ASSUME IInv, DatesInv, Next, NEW c \in Contracts, c \notin skewed, Present(contracts', c)
    PROVE  InOrder(contracts'[c])
  <1>1. ASSUME NEW r \in Requests, At(r, "createInsert"), contracts'[c] = NewContract(req[r])
        PROVE  InOrder(contracts'[c])
    BY <1>1 DEF NewContract, InOrder, DatesInv, CreateFits, At, CreateSteps
  <1>2. CASE /\ Present(contracts, c)
             /\ contracts'[c].fechaInicio = contracts[c].fechaInicio
             /\ contracts'[c].fechaFin = contracts[c].fechaFin
    BY <1>2 DEF InOrder, DatesInv, DatesOrdered
  <1>3. ASSUME NEW r \in Requests, Patching(r, c), Present(contracts, c),
               contracts'[c] = Patched(contracts[c], req[r].dto)
        PROVE  InOrder(contracts'[c])
    <2>1. contracts[c] \in ContractRow BY <1>3 DEF IInv, TypeOK, Present
    <2>2. Fits(contracts[c], req[r].dto) BY <1>3 DEF DatesInv, PatchFits, Patching
    <2>3. QED BY <1>3, <2>1, <2>2 DEF InOrder, Fits, Patched, ContractRow
  <1>4. QED BY <1>1, <1>2, <1>3, DatesMove

\* A PATCH in flight on a contract that is not skewed goes on fitting.
LEMMA FitsStep ==
    ASSUME IInv, IInv', DatesInv, Next, NEW r \in Requests, NEW c \in Contracts,
           c \notin skewed, ~Skewing(c), ~Skewing(c)', Patching(r, c)'
    PROVE  Fits(contracts'[c], req'[r].dto)
  <1>1. /\ req'[r] \in PatchRequest /\ req'[r].dto \in PatchDtos
        /\ Present(contracts', c) /\ contracts'[c] \in ContractRow
    <2>1. PICK q \in Request : q = req'[r] BY DEF IInv, TypeOK
    <2>2. q.pc \in PatchSteps /\ q.id = c BY <2>1 DEF Patching
    <2>3. q \in PatchRequest BY <2>2, RequestShape DEF PatchSteps
    <2>4. Present(contracts', c)
      BY <2>1, <2>2 DEF IInv, LocalsOK, LocalOK, PatchSteps, Present
    <2>5. QED BY <2>1, <2>3, <2>4 DEF PatchRequest, IInv, TypeOK, Present
  <1>2. Null \notin Dates(req'[r].dto) BY DEF Skewing, Patching
  <1>3. InOrder(contracts'[c]) BY <1>1, OrderStep
  <1>4. CASE req'[r] = req[r]
    <2>1. Patching(r, c) /\ Present(contracts, c) /\ contracts[c] \in ContractRow
      BY <1>4 DEF Patching, IInv, TypeOK, LocalsOK, LocalOK, PatchSteps, Present
    <2>2. Fits(contracts[c], req'[r].dto) BY <1>4, <2>1 DEF DatesInv, PatchFits, Patching
    <2>3. ASSUME NEW s \in Requests, Patching(s, c), req'[s] = Idle,
                 contracts'[c] = Patched(contracts[c], req[s].dto)
          PROVE  \/ contracts'[c].fechaInicio = contracts[c].fechaInicio
                      /\ contracts'[c].fechaFin = contracts[c].fechaFin
                 \/ Undefined \notin Dates(req'[r].dto)
                 \/ Dates(req'[r].dto) = {Undefined}
      <3>1. s # r BY <1>4, <2>1, <2>3 DEF Patching, Idle, PatchSteps
      <3>2. CASE Dates(req[s].dto) = {Undefined}
        <4>1. req[s].dto.fechaInicio = Undefined /\ req[s].dto.fechaFin = Undefined
          BY <3>2 DEF Dates
        <4>2. /\ contracts'[c].fechaInicio = Written(contracts[c].fechaInicio, Undefined)
              /\ contracts'[c].fechaFin = Written(contracts[c].fechaFin, Undefined)
          BY <2>1, <2>3, <4>1 DEF Patched, ContractRow
        <4>3. QED BY <4>2, MarkersAssumption DEF Written
      <3>3. CASE Dates(req[s].dto) # {Undefined}
        BY <1>4, <2>1, <2>3, <3>1, <3>3 DEF Skewing
      <3>4. QED BY <3>2, <3>3
    <2>4. \/ contracts'[c].fechaInicio = contracts[c].fechaInicio
               /\ contracts'[c].fechaFin = contracts[c].fechaFin
          \/ Undefined \notin Dates(req'[r].dto)
          \/ Dates(req'[r].dto) = {Undefined}
      BY <1>1, <2>1, <2>3, DatesMove
    <2>5. QED BY <1>1, <1>2, <1>3, <2>1, <2>2, <2>4, StillFits
  <1>5. CASE Moves(r) /\ UNCHANGED tables
    <2>1. PatchMove(r) /\ req'[r].id = c
      BY <1>1, <1>5
         DEF Moves, CreateMove, CancelMove, OtherMove, CreateRequest, CreateSteps, CancelRequest,
             CancelSteps, PropertyPatchRequest, PropertyRemoveRequest, TenantRemoveRequest,
             PatchSteps, Patching
    <2>2. contracts' = contracts BY <1>5 DEF tables
    <2>3. CASE DatesAccepted(contracts[c], req'[r].dto)
      BY <1>1, <1>2, <1>3, <2>2, <2>3, AcceptedFits
    <2>4. CASE req[r] \in PatchRequest /\ req'[r].id = req[r].id /\ req'[r].dto = req[r].dto
      BY <2>1, <2>2, <2>4 DEF DatesInv, PatchFits, PatchRequest
    <2>5. QED BY <2>1, <2>3, <2>4 DEF PatchMove
  <1>6. req'[r] # Idle BY DEF Patching, Idle, PatchSteps
  <1>7. QED BY <1>4, <1>5, <1>6, WhoMoves

LEMMA DatesStep ==
    ASSUME IInv, IInv', DatesInv, HistoryNext
    PROVE  DatesInv'
  <1>1. Next /\ skewed \subseteq skewed' /\ \A c \in Contracts : Skewing(c)' => c \in skewed'
    BY DEF HistoryNext
  <1>2. DatesOrdered' BY <1>1, OrderStep DEF DatesOrdered, InOrder
  <1>3. ASSUME NEW r \in Requests PROVE CreateFits(req'[r])
    <2>1. CASE req'[r] = req[r] BY <2>1 DEF DatesInv
    <2>2. CASE req'[r] = Idle BY <2>2 DEF CreateFits, Idle, CreateSteps
    <2>3. CASE Moves(r)
      <3>1. CASE CreateMove(r)
        BY <3>1 DEF CreateMove, DatesInv, CreateFits, CreateRequest
      <3>2. CASE ~CreateMove(r)
        BY <2>3, <3>2
           DEF Moves, PatchMove, CancelMove, OtherMove, CreateFits, CreateSteps, PatchRequest,
               PatchSteps, CancelRequest, CancelSteps, PropertyPatchRequest,
               PropertyRemoveRequest, TenantRemoveRequest
      <3>3. QED BY <3>1, <3>2
    <2>4. QED BY <1>1, <2>1, <2>2, <2>3, WhoMoves
  <1>4. ASSUME NEW r \in Requests PROVE PatchFits(req[r])'
    <2> SUFFICES ASSUME req'[r].pc \in PatchSteps, req'[r].id \notin skewed'
                 PROVE  Fits(contracts'[req'[r].id], req'[r].dto)
      BY DEF PatchFits
    <2>1. PICK q \in Request : q = req'[r] BY DEF IInv, TypeOK
    <2>2. q \in PatchRequest BY <2>1, RequestShape DEF PatchSteps
    <2>3. PICK c \in Contracts : c = req'[r].id BY <2>1, <2>2 DEF PatchRequest
    <2>4. Patching(r, c)' BY <2>3 DEF Patching
    <2>5. c \notin skewed /\ ~Skewing(c) /\ ~Skewing(c)'
      BY <1>1, <2>3 DEF DatesInv
    <2>6. QED BY <1>1, <2>3, <2>4, <2>5, FitsStep
  <1>5. QED BY <1>1, <1>2, <1>3, <1>4 DEF DatesInv, CreateFits

\* A contract ends after it starts, for any number of PATCHes, POSTs and
\* DELETEs in flight, as long as the PATCHes of its dates do not overlap and
\* give no null: the check on the row as read then still holds at the write.
THEOREM DatesStayOrdered == HistorySpec => []DatesOrdered
  <1>1. HistoryInit => DatesInv
    BY DEF HistoryInit, Init, DatesInv, DatesOrdered, CreateFits, PatchFits, Present, Idle,
           Skewing, Patching, CreateSteps, PatchSteps
  <1>2. IInv /\ IInv' /\ DatesInv /\ [HistoryNext]_historyVars => DatesInv'
    <2>1. CASE HistoryNext BY <2>1, DatesStep
    <2>2. CASE UNCHANGED historyVars
      BY <2>2 DEF historyVars, DatesInv, DatesOrdered, CreateFits, PatchFits, Present, Skewing,
                  Patching
    <2>3. QED BY <2>1, <2>2
  <1>3. DatesInv => DatesOrdered BY DEF DatesInv
  <1>4. QED BY <1>1, <1>2, <1>3, HistoryInvariant, PTL DEF HistorySpec

-----------------------------------------------------------------------------
(***************************************************************************)
(* Occupancy.  While property p has not been crossed it has one active     *)
(* contract at most, a POST past its check relies on there being none, and *)
(* a DELETE on its own contract still being the one.  So a DELETE and a    *)
(* POST past its check never meet on p, and neither can mislead the other. *)
(***************************************************************************)
InForce(c, p) ==
    Present(contracts, c) /\ contracts[c].propertyId = p /\ contracts[c].isActive

LetOK(p) ==
    /\ Present(properties, p) => (properties[p].estado = "OCUPADA" <=> HasActiveContract(p))
    /\ \A c, d \in Contracts : Occupies(c, p) /\ Occupies(d, p) => c = d
    /\ \A c \in Contracts : InForce(c, p) => contracts[c].estado = "ACTIVO"

HandlerOK(q, p) ==
    /\ q.pc \in Checked /\ q.dto.propertyId = p => ~HasActiveContract(p)
    /\ q.pc \in CancelSteps /\ q.propertyId = p =>
         Occupies(q.id, p) /\ (q.pc = "cancelCommit" => q.estado = "OCUPADA")

CancelKnows(q) == q.pc \in CancelSteps => contracts[q.id].propertyId = q.propertyId

OccInv ==
    /\ \A r \in Requests : CancelKnows(req[r])
    /\ \A p \in Properties : Crossing(p) => p \in crossed
    /\ \A p \in Properties \ crossed : LetOK(p) /\ \A r \in Requests : HandlerOK(req[r], p)

\* A step that leaves the view from p alone leaves the handlers that do not move.
LEMMA ViewStays ==
    ASSUME NEW p \in Properties, LetOK(p),
           \A c \in Contracts :
             /\ InForce(c, p)' <=> InForce(c, p)
             /\ InForce(c, p) => contracts'[c].estado = contracts[c].estado,
           Present(properties', p) =>
             Present(properties, p) /\ properties'[p].estado = properties[p].estado
    PROVE  /\ LetOK(p)'
           /\ \A c \in Contracts : Occupies(c, p)' <=> Occupies(c, p)
           /\ HasActiveContract(p)' <=> HasActiveContract(p)
  <1>1. \A c \in Contracts : Occupies(c, p)' <=> Occupies(c, p)
    BY DEF Occupies, InForce
  <1>2. HasActiveContract(p)' <=> HasActiveContract(p) BY <1>1 DEF HasActiveContract
  <1>3. QED BY <1>1, <1>2 DEF LetOK

\* The locals of a handler that moves without writing.
LEMMA MovedOK ==
    ASSUME IInv, NEW p \in Properties, LetOK(p), NEW r \in Requests, HandlerOK(req[r], p),
           Moves(r), UNCHANGED tables, ~Crossing(p)'
    PROVE  HandlerOK(req'[r], p)
  <1>1. CASE CreateMove(r)
    <2>1. req'[r].pc \in CreateSteps /\ req'[r].pc \notin CancelSteps
      BY <1>1 DEF CreateMove, CreateRequest, CreateSteps, CancelSteps
    <2>2. ASSUME req'[r].pc \in Checked, req'[r].dto.propertyId = p PROVE ~HasActiveContract(p)
      <3>1. IsActivo(req'[r].dto) BY <2>1, <2>2 DEF Crossing, Creating
      <3>2. QED
        BY <1>1, <2>2, <3>1 DEF CreateMove, HandlerOK, Checked
    <2>3. QED BY <2>1, <2>2 DEF HandlerOK
  <1>2. CASE PatchMove(r)
    BY <1>2 DEF PatchMove, PatchRequest, PatchSteps, HandlerOK, Checked, CancelSteps
  <1>3. CASE CancelMove(r)
    <2>1. req'[r] \in CancelRequest /\ req'[r].pc \notin Checked
      BY <1>3 DEF CancelMove, CancelRequest, CancelSteps, Checked
    <2>2. PICK c \in Contracts : c = req'[r].id BY <2>1 DEF CancelRequest
    <2>3. CASE /\ contracts[c] # Null /\ contracts[c].isActive
               /\ req'[r].pc = "cancelBegin" /\ req'[r].propertyId = contracts[c].propertyId
      BY <2>1, <2>2, <2>3 DEF HandlerOK, LetOK, InForce, Occupies, OccupyingStatus, Present
    <2>4. CASE /\ req[r] \in CancelRequest
               /\ req'[r].id = req[r].id /\ req'[r].propertyId = req[r].propertyId
               /\ req'[r].estado = properties[req[r].propertyId].estado
      <3> SUFFICES ASSUME req[r].propertyId = p
                   PROVE  Occupies(c, p) /\ req'[r].estado = "OCUPADA"
        BY <2>1, <2>2, <2>4 DEF HandlerOK
      <3>1. Occupies(c, p) BY <2>2, <2>4 DEF HandlerOK, CancelRequest
      <3>2. Present(properties, p) /\ HasActiveContract(p)
        BY <3>1 DEF IInv, OwnersAgree, Occupies, HasActiveContract
      <3>3. QED BY <2>4, <3>1, <3>2 DEF LetOK
    <2>5. QED BY <1>3, <2>2, <2>3, <2>4 DEF CancelMove
  <1>4. CASE OtherMove(r)
    BY <1>4 DEF OtherMove, PropertyPatchRequest, PropertyRemoveRequest, TenantRemoveRequest,
                HandlerOK, Checked, CancelSteps
  <1>5. QED BY <1>1, <1>2, <1>3, <1>4 DEF Moves

\* A step that leaves the view from p alone keeps all that is known about p.
LEMMA QuietStep ==
    ASSUME IInv, NEW p \in Properties, LetOK(p), \A r \in Requests : HandlerOK(req[r], p),
           Next, ~Crossing(p)',
           \A c \in Contracts :
             /\ InForce(c, p)' <=> InForce(c, p)
             /\ InForce(c, p) => contracts'[c].estado = contracts[c].estado,
           Present(properties', p) =>
             Present(properties, p) /\ properties'[p].estado = properties[p].estado
    PROVE  LetOK(p)' /\ \A r \in Requests : HandlerOK(req[r], p)'
  <1>1. /\ LetOK(p)'
        /\ \A c \in Contracts : Occupies(c, p)' <=> Occupies(c, p)
        /\ HasActiveContract(p)' <=> HasActiveContract(p)
    BY ViewStays
  <1>2. ASSUME NEW r \in Requests PROVE HandlerOK(req[r], p)'
    <2>1. HandlerOK(req'[r], p)
      <3>1. CASE req'[r] = req[r] BY <3>1
      <3>2. CASE req'[r] = Idle BY <3>2 DEF Idle, HandlerOK, Checked, CancelSteps
      <3>3. CASE Moves(r) /\ UNCHANGED tables BY <3>3, MovedOK
      <3>4. QED BY <3>1, <3>2, <3>3, WhoMoves
    <2>2. req'[r].pc \in CancelSteps => req'[r].id \in Contracts
      <3>1. IInv' BY NextStep
      <3>2. PICK q \in Request : q = req'[r] BY <3>1 DEF IInv, TypeOK
      <3>3. QED BY <3>2, RequestShape DEF CancelRequest, CancelSteps
    <2>3. QED BY <1>1, <2>1, <2>2 DEF HandlerOK
  <1>3. QED BY <1>1, <1>2

\* The commit of a POST on p: there was no active contract, and no other POST
\* or DELETE of p is in flight.
LEMMA InsertOcc ==
    ASSUME IInv, NEW p \in Properties, LetOK(p), \A s \in Requests : HandlerOK(req[s], p),
           ~Crossing(p), NEW r \in Requests, CreateInsert(r), req[r].dto.propertyId = p
    PROVE  LetOK(p)' /\ \A s \in Requests : HandlerOK(req[s], p)'
  <1> DEFINE q == req[r]
             new == NewContract(q)
  <1>1. /\ q \in CreateRequest /\ q.codigo \in Codes /\ q.dto \in CreateDtos
        /\ Present(properties, p) /\ q.pc = "createInsert"
    BY RequestShape
       DEF IInv, TypeOK, LocalsOK, LocalOK, CreateInsert, At, CreateSteps, CreateRequest, Owned
  <1>2. IsActivo(q.dto) BY <1>1 DEF Crossing, Creating, CreateSteps
  <1>3. ~HasActiveContract(p) BY <1>1 DEF HandlerOK, Checked
  <1>4. new.estado = "ACTIVO" /\ new.isActive /\ new.propertyId = p /\ new # Null
    <2>1. q.dto \in CreateDto BY <1>1, DtosAssumption
    <2>2. new \in ContractRow
      BY <1>1, <2>1 DEF NewContract, ContractRow, CreateRequest, CreateDto, ContractStatus
    <2>3. new.isActive /\ new.propertyId = p BY DEF NewContract
    <2>4. new.estado = "ACTIVO" BY <1>2 DEF NewContract, IsActivo
    <2>5. QED BY <2>2, <2>3, <2>4, NullAssumption
  <1>5. PICK c \in Contracts :
          ~Present(contracts, c) /\ contracts' = [contracts EXCEPT ![c] = new]
    BY DEF CreateInsert
  <1>6. /\ contracts'[c] = new
        /\ \A d \in Contracts : d # c => contracts'[d] = contracts[d]
    BY <1>5 DEF IInv, TypeOK
  <1>7. properties'[p].estado = "OCUPADA"
    <2>1. properties' = [properties EXCEPT ![p] = [properties[p] EXCEPT !.estado = "OCUPADA"]]
      BY <1>2 DEF CreateInsert
    <2>2. properties[p] \in PropertyRow BY <1>1 DEF IInv, TypeOK, Present
    <2>3. [properties[p] EXCEPT !.estado = "OCUPADA"].estado = "OCUPADA"
      BY <2>2 DEF PropertyRow
    <2>4. QED BY <2>1, <2>3 DEF IInv, TypeOK
  <1> HIDE DEF new
  <1>8. Occupies(c, p)' /\ \A d \in Contracts : d # c => ~Occupies(d, p)'
    BY <1>3, <1>4, <1>6 DEF Occupies, HasActiveContract, OccupyingStatus, Present
  <1>9. ASSUME NEW d \in Contracts, InForce(d, p)' PROVE contracts'[d].estado = "ACTIVO"
    BY <1>4, <1>6, <1>9 DEF LetOK, InForce, Present
  <1>10. LetOK(p)' BY <1>7, <1>8, <1>9 DEF LetOK, HasActiveContract
  <1>11. ASSUME NEW s \in Requests PROVE HandlerOK(req[s], p)'
    <2>1. CASE s = r
      <3>1. req'[s] = Idle BY <2>1, AnswerIsIdle DEF CreateInsert
      <3>2. QED BY <3>1 DEF Idle, HandlerOK, Checked, CancelSteps
    <2>2. CASE s # r
      <3>1. req'[s] = req[s] BY <2>2 DEF CreateInsert, Answer, IInv, TypeOK
      <3>2. ~(req[s].pc \in CreateSteps /\ req[s].dto.propertyId = p)
        BY <1>1, <2>2 DEF Crossing, Creating, CreateSteps
      <3>3. ASSUME req[s].pc \in CancelSteps, req[s].propertyId = p PROVE FALSE
        <4>1. req[s] \in CancelRequest
          BY <3>3, RequestShape DEF IInv, TypeOK, CancelSteps
        <4>2. QED
          BY <1>3, <3>3, <4>1 DEF HandlerOK, HasActiveContract, CancelRequest
      <3>4. QED BY <3>1, <3>2, <3>3 DEF HandlerOK, Checked, CreateSteps
    <2>3. QED BY <2>1, <2>2
  <1>12. QED BY <1>10, <1>11

\* The commit of a DELETE on p: its contract was the only active one, and no
\* POST of p is past its check.
LEMMA CancelOcc ==
    ASSUME IInv, NEW p \in Properties, LetOK(p), \A s \in Requests : HandlerOK(req[s], p),
           ~Crossing(p), NEW r \in Requests, CancelCommit(r), req[r].propertyId = p
    PROVE  LetOK(p)' /\ \A s \in Requests : HandlerOK(req[s], p)'
  <1>1. req[r] \in CancelRequest /\ req[r].pc = "cancelCommit"
    BY RequestShape DEF IInv, TypeOK, CancelCommit, At
  <1>2. PICK c \in Contracts : c = req[r].id BY <1>1 DEF CancelRequest
  <1>3. Occupies(c, p) /\ req[r].estado = "OCUPADA"
    BY <1>1, <1>2 DEF HandlerOK, CancelSteps
  <1>4. /\ contracts[c] \in ContractRow
        /\ Present(properties, p) /\ properties[p] \in PropertyRow
    BY <1>3 DEF Occupies, Present, IInv, TypeOK, OwnersAgree
  <1>5. properties'[p].estado = "DISPONIBLE"
    BY <1>3, <1>4 DEF CancelCommit, IInv, TypeOK, PropertyRow
  <1>6. /\ ~contracts'[c].isActive
        /\ \A d \in Contracts : d # c => contracts'[d] = contracts[d]
    BY <1>2, <1>4 DEF CancelCommit, Cancelled, IInv, TypeOK, ContractRow
  <1>7. \A d \in Contracts : ~Occupies(d, p)'
    BY <1>3, <1>6 DEF LetOK, Occupies, Present
  <1>8. ASSUME NEW d \in Contracts, InForce(d, p)' PROVE contracts'[d].estado = "ACTIVO"
    BY <1>6, <1>8 DEF LetOK, InForce, Present
  <1>9. LetOK(p)' BY <1>5, <1>7, <1>8 DEF LetOK, HasActiveContract
  <1>10. ASSUME NEW s \in Requests PROVE HandlerOK(req[s], p)'
    <2>1. CASE s = r
      <3>1. req'[s] = Idle BY <2>1, AnswerIsIdle DEF CancelCommit
      <3>2. QED BY <3>1 DEF Idle, HandlerOK, Checked, CancelSteps
    <2>2. CASE s # r
      <3>1. req'[s] = req[s] BY <2>2 DEF CancelCommit, Answer, IInv, TypeOK
      <3>2. ~HasActiveContract(p)' BY <1>7 DEF HasActiveContract
      <3>3. ASSUME req[s].pc \in CancelSteps, req[s].propertyId = p PROVE FALSE
        <4>1. req[s] \in CancelRequest
          BY <3>3, RequestShape DEF IInv, TypeOK, CancelSteps
        <4>2. Occupies(req[s].id, p) BY <3>3 DEF HandlerOK
        <4>3. req[s].id = c BY <1>3, <4>1, <4>2 DEF LetOK, CancelRequest
        <4>4. Cancelling(s, p) /\ Cancelling(r, p)
          BY <1>1, <3>3 DEF Cancelling, CancelSteps
        <4>5. QED BY <1>2, <2>2, <4>3, <4>4 DEF Crossing
      <3>4. QED BY <3>1, <3>2, <3>3 DEF HandlerOK
    <2>3. QED BY <2>1, <2>2
  <1>11. QED BY <1>9, <1>10

\* A DELETE remembers the property of its contract, which no handler changes.
LEMMA KnowsStep ==
    ASSUME IInv, Next, NEW r \in Requests, \A s \in Requests : CancelKnows(req[s])
    PROVE  CancelKnows(req[r])'
  <1> SUFFICES ASSUME req'[r].pc \in CancelSteps
               PROVE  contracts'[req'[r].id].propertyId = req'[r].propertyId
    BY DEF CancelKnows
  <1>1. IInv' /\ (KeepsContracts \/ UNCHANGED vars) BY NextStep
  <1>2. PICK q \in Request : q = req'[r] BY <1>1 DEF IInv, TypeOK
  <1>3. q \in CancelRequest /\ q.id \in Contracts
    BY <1>2, RequestShape DEF CancelRequest, CancelSteps
  <1>4. ASSUME Present(contracts, q.id)
        PROVE  contracts'[q.id].propertyId = contracts[q.id].propertyId
    BY <1>1, <1>3, <1>4 DEF KeepsContracts, KeepsIdentity, vars
  <1>5. CASE req'[r] = req[r]
    BY <1>2, <1>3, <1>4, <1>5 DEF CancelKnows, IInv, LocalsOK, LocalOK, CancelSteps
  <1>6. CASE Moves(r)
    <2>1. CancelMove(r)
      BY <1>2, <1>3, <1>6
         DEF Moves, CreateMove, PatchMove, OtherMove, CreateRequest, CreateSteps, PatchRequest,
             PatchSteps, CancelRequest, CancelSteps, PropertyPatchRequest,
             PropertyRemoveRequest, TenantRemoveRequest
    <2>2. CASE req[r] \in CancelRequest /\ req'[r].id = req[r].id
                 /\ req'[r].propertyId = req[r].propertyId
      BY <1>2, <1>4, <2>2
         DEF CancelKnows, IInv, LocalsOK, LocalOK, CancelSteps, CancelRequest
    <2>3. CASE contracts[req'[r].id] # Null
                 /\ req'[r].propertyId = contracts[req'[r].id].propertyId
      BY <1>2, <1>4, <2>3 DEF Present
    <2>4. QED BY <2>1, <2>2, <2>3 DEF CancelMove
  <1>7. req'[r] # Idle BY DEF Idle, CancelSteps
  <1>8. QED BY <1>5, <1>6, <1>7, WhoMoves

\* One property, seen through a step.
LEMMA PropertyStep ==
    ASSUME IInv, OccInv, Next, NEW p \in Properties, p \notin crossed, ~Crossing(p)'
    PROVE  LetOK(p)' /\ \A r \in Requests : HandlerOK(req[r], p)'
  <1>1. LetOK(p) /\ (\A r \in Requests : HandlerOK(req[r], p)) /\ ~Crossing(p)
    BY DEF OccInv
  <1> DEFINE SameContracts == \A c \in Contracts :
               /\ InForce(c, p)' <=> InForce(c, p)
               /\ InForce(c, p) => contracts'[c].estado = contracts[c].estado
             SameEstado == Present(properties', p) =>
               Present(properties, p) /\ properties'[p].estado = properties[p].estado
             Goal == LetOK(p)' /\ \A r \in Requests : HandlerOK(req[r], p)'
  <1>2. ASSUME SameContracts, SameEstado PROVE Goal
    BY <1>1, <1>2, QuietStep
  <1>3. ASSUME UNCHANGED contracts PROVE SameContracts
    BY <1>3 DEF InForce, Present
  <1>4. CASE UNCHANGED tables
    <2>1. SameContracts BY <1>3, <1>4 DEF tables
    <2>2. SameEstado BY <1>4 DEF tables, Present
    <2>3. QED BY <1>2, <2>1, <2>2
  <1>5. CASE Insert
    <2>1. ASSUME NEW u \in Users, CreateProperty(p, u) PROVE Goal
      <3>1. \A c \in Contracts : Present(contracts, c) => contracts[c].propertyId # p
        BY <2>1 DEF CreateProperty, IInv, OwnersAgree
      <3>2. ~HasActiveContract(p)' /\ ~HasActiveContract(p)
        BY <2>1, <3>1 DEF CreateProperty, HasActiveContract, Occupies, Present
      <3>3. properties'[p].estado = "DISPONIBLE"
        BY <2>1 DEF CreateProperty, IInv, TypeOK
      <3>4. contracts' = contracts /\ req' = req BY <2>1 DEF CreateProperty
      <3>5. LetOK(p)'
        BY <3>1, <3>2, <3>3, <3>4 DEF LetOK, InForce, Occupies, Present
      <3>6. ASSUME NEW r \in Requests PROVE HandlerOK(req[r], p)'
        <4>1. ~(req[r].pc \in CancelSteps /\ req[r].propertyId = p)
          <5>1. SUFFICES ASSUME req[r].pc \in CancelSteps, req[r].propertyId = p PROVE FALSE
            OBVIOUS
          <5>2. req[r].id \in Contracts
            BY <5>1, RequestShape DEF IInv, TypeOK, CancelRequest, CancelSteps
          <5>3. QED BY <1>1, <3>2, <5>1, <5>2 DEF HandlerOK, HasActiveContract
        <4>2. QED BY <3>2, <3>4, <4>1 DEF HandlerOK
      <3>7. QED BY <3>5, <3>6
    <2>2. ASSUME NEW x \in Properties, x # p, NEW u \in Users, CreateProperty(x, u) PROVE Goal
      <3>1. SameContracts BY <1>3, <2>2 DEF CreateProperty
      <3>2. SameEstado BY <2>2 DEF CreateProperty, IInv, TypeOK, Present
      <3>3. QED BY <1>2, <3>1, <3>2
    <2>3. ASSUME NEW x \in Tenants, NEW u \in Users, CreateTenant(x, u) PROVE Goal
      <3>1. SameContracts BY <1>3, <2>3 DEF CreateTenant
      <3>2. SameEstado BY <2>3 DEF CreateTenant, Present
      <3>3. QED BY <1>2, <3>1, <3>2
    <2>4. QED BY <1>5, <2>1, <2>2, <2>3 DEF Insert
  <1>6. ASSUME NEW r \in Requests, CreateInsert(r), req[r].dto.propertyId # p PROVE Goal
    <2>1. PICK c \in Contracts :
            ~Present(contracts, c) /\ contracts' = [contracts EXCEPT ![c] = NewContract(req[r])]
      BY <1>6 DEF CreateInsert
    <2>2. NewContract(req[r]).propertyId # p BY <1>6 DEF NewContract
    <2>3. SameContracts BY <2>1, <2>2 DEF InForce, Present, IInv, TypeOK
    <2>4. properties'[p] = properties[p] BY <1>6 DEF CreateInsert, IInv, TypeOK
    <2>5. SameEstado BY <2>4 DEF Present
    <2>6. QED BY <1>2, <2>3, <2>5
  <1>7. ASSUME NEW r \in Requests, CancelCommit(r), req[r].propertyId # p PROVE Goal
    <2>1. PICK c \in Contracts : c = req[r].id
      BY <1>7, RequestShape DEF IInv, TypeOK, CancelCommit, At, CancelRequest
    <2>2. contracts[c] \in ContractRow
      BY <1>7, <2>1 DEF IInv, TypeOK, LocalsOK, LocalOK, CancelCommit, At, Present
    <2>3. contracts[c].propertyId # p
      BY <1>7, <2>1 DEF OccInv, CancelKnows, CancelCommit, At, CancelSteps
    <2>4. /\ contracts'[c].propertyId = contracts[c].propertyId
          /\ \A d \in Contracts : d # c => contracts'[d] = contracts[d]
      BY <1>7, <2>1, <2>2 DEF CancelCommit, Cancelled, IInv, TypeOK, ContractRow
    <2>5. SameContracts BY <2>3, <2>4 DEF InForce, Present
    <2>6. properties'[p] = properties[p] BY <1>7 DEF CancelCommit, IInv, TypeOK
    <2>7. SameEstado BY <2>6 DEF Present
    <2>8. QED BY <1>2, <2>5, <2>7
  <1>8. ASSUME NEW r \in Requests, PatchWrite(r) PROVE Goal
    <2>1. /\ req[r].id \in Contracts /\ req[r].dto \in PatchDtos
          /\ contracts[req[r].id] \in ContractRow
      BY <1>8, RequestShape
         DEF IInv, TypeOK, LocalsOK, LocalOK, PatchWrite, At, PatchRequest, Present
    <2>2. PICK c \in Contracts : c = req[r].id BY <2>1
    <2>3. /\ contracts'[c] = Patched(contracts[c], req[r].dto)
          /\ \A d \in Contracts : d # c => contracts'[d] = contracts[d]
      BY <1>8, <2>2 DEF PatchWrite, IInv, TypeOK
    <2>4. /\ contracts'[c].propertyId = contracts[c].propertyId
          /\ contracts'[c].isActive = contracts[c].isActive
          /\ Present(contracts', c) /\ Present(contracts, c)
      BY <2>1, <2>2, <2>3, PatchedRow, NullAssumption DEF Present
    <2>5. ASSUME contracts[c].propertyId = p PROVE contracts'[c].estado = contracts[c].estado
      <3>1. Patching(r, c) BY <1>8, <2>2 DEF PatchWrite, At, Patching, PatchSteps
      <3>2. req[r].dto.estado = Undefined BY <1>1, <2>5, <3>1 DEF Crossing
      <3>3. contracts'[c].estado = Written(contracts[c].estado, req[r].dto.estado)
        BY <2>1, <2>2, <2>3 DEF Patched, ContractRow
      <3>4. QED BY <3>2, <3>3, MarkersAssumption DEF Written
    <2>6. SameContracts BY <2>3, <2>4, <2>5 DEF InForce, Present
    <2>7. SameEstado BY <1>8 DEF PatchWrite, Present
    <2>8. QED BY <1>2, <2>6, <2>7
  <1>9. ASSUME NEW r \in Requests, PropertyWrite(r) PROVE Goal
    <2>1. req[r].id # p BY <1>1, <1>9 DEF Crossing, PropertyWrite
    <2>2. properties'[p] = properties[p] BY <1>9, <2>1 DEF PropertyWrite, IInv, TypeOK
    <2>3. SameEstado BY <2>2 DEF Present
    <2>4. SameContracts BY <1>3, <1>9 DEF PropertyWrite
    <2>5. QED BY <1>2, <2>3, <2>4
  <1>10. ASSUME NEW r \in Requests, PropertyRemove(r) PROVE Goal
    <2>1. req[r].id \in Properties /\ properties[req[r].id] \in PropertyRow
      BY <1>10, RequestShape
         DEF IInv, TypeOK, LocalsOK, LocalOK, PropertyRemove, At, PropertyRemoveRequest, Present
    <2>2. SameEstado
      BY <1>10, <2>1, NullAssumption DEF PropertyRemove, IInv, TypeOK, PropertyRow, Present
    <2>3. SameContracts BY <1>3, <1>10 DEF PropertyRemove
    <2>4. QED BY <1>2, <2>2, <2>3
  <1>11. ASSUME NEW r \in Requests, TenantRemove(r) PROVE Goal
    <2>1. SameEstado BY <1>11 DEF TenantRemove, Present
    <2>2. SameContracts BY <1>3, <1>11 DEF TenantRemove
    <2>3. QED BY <1>2, <2>1, <2>2
  <1>12. ASSUME NEW r \in Requests, CreateInsert(r) \/ CancelCommit(r) PROVE Goal
    BY <1>1, <1>6, <1>7, <1>12, InsertOcc, CancelOcc
  <1>13. ASSUME NEW r \in Requests, Proceed(r) PROVE Goal
    BY <1>4, <1>8, <1>9, <1>10, <1>11, <1>12, <1>13
       DEF Proceed, CreateFindProperty, CreateFindTenant, CreateCount, CreateCode, CreateRejected,
           PatchFindProperty, PatchFindTenant, CancelBegin
  <1>14. ASSUME NEW r \in Requests, Arrive(r) \/ Fail(r) PROVE Goal
    BY <1>4, <1>14, ArriveMoves DEF Fail
  <1>15. QED BY <1>5, <1>13, <1>14 DEF Next

\* The estado of a property is OCUPADA exactly while it has an active contract,
\* with any number of requests in flight, until an overlap of two POSTs for it
\* or of two DELETEs of one contract, or an estado set by hand.
THEOREM OccupancyStays == HistorySpec => []OccupancyAgrees
  <1>1. HistoryInit => OccInv
    BY DEF HistoryInit, Init, OccInv, CancelKnows, LetOK, HandlerOK, InForce, Occupies,
           HasActiveContract, Crossing, Creating, Cancelling, Patching, At, Present, Idle,
           CreateSteps, PatchSteps, CancelSteps, Checked
  <1>2. IInv /\ OccInv /\ [HistoryNext]_historyVars => OccInv'
    <2> SUFFICES ASSUME IInv, OccInv, [HistoryNext]_historyVars PROVE OccInv'
      OBVIOUS
    <2>1. CASE HistoryNext
      <3>1. /\ Next /\ crossed \subseteq crossed'
            /\ \A p \in Properties : Crossing(p)' => p \in crossed'
        BY <2>1 DEF HistoryNext
      <3>2. \A r \in Requests : CancelKnows(req[r])' BY <3>1, KnowsStep DEF OccInv
      <3>3. ASSUME NEW p \in Properties, p \notin crossed'
            PROVE  LetOK(p)' /\ \A r \in Requests : HandlerOK(req[r], p)'
        BY <3>1, <3>3, PropertyStep
      <3>4. QED BY <3>1, <3>2, <3>3 DEF OccInv
    <2>2. CASE UNCHANGED historyVars
      BY <2>2
         DEF historyVars, OccInv, CancelKnows, LetOK, HandlerOK, InForce, Occupies,
             HasActiveContract, Crossing, Creating, Cancelling, Patching, At, Present
    <2>3. QED BY <2>1, <2>2
  <1>3. OccInv => OccupancyAgrees BY DEF OccInv, LetOK, OccupancyAgrees
  <1>4. QED BY <1>1, <1>2, <1>3, HistoryInvariant, PTL DEF HistorySpec
=============================================================================
