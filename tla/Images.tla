------------------------------- MODULE Images -------------------------------
(***************************************************************************)
(* The uploads of RentFlowAPI: UploadsService and LocalStorageService.  A  *)
(* picture is a file under uploads/ and a row, or the avatar of a user;    *)
(* files and rows are written one after the other and in no transaction.   *)
(***************************************************************************)
EXTENDS Catalogue

CONSTANT MaxFiles \* how many files one upload brings at most (a bound)

VARIABLES
    files,   \* the files that exist
    used,    \* the file names that have been generated
    gallery, \* gallery[i]: the property of the row of picture i, or Null
    avatar,  \* avatar[u]: the avatar of user u
    lost,    \* history: the pictures a DELETE has set out to remove
    failed   \* history: the properties and users one of whose handlers failed

storage == <<files, used>>
imageVars == <<files, used, gallery, avatar, lost, failed>>

\* The rows of one property.
Gallery(p) == {i \in Pictures : gallery[i] = p}

\* generateSafeFilename: a random name.
Fresh == Pictures \ used

\* A file more or less makes no difference to the others of its folder.
ImageFail(r, steps) ==
    /\ req[r].pc \in steps
    /\ Answer(r)
    /\ failed' = failed \cup {req[r].on}
    /\ UNCHANGED <<props, arrived, overlapped>>

-----------------------------------------------------------------------------
(***************************************************************************)
(* POST /uploads/property/:propertyId.                                     *)
(***************************************************************************)
UploadStart(r, p, owner) ==
    /\ Exists(p)
    /\ Begin(r, "uploadFind", p, owner, Null, Null)
    /\ UNCHANGED <<props, imageVars>>

UploadFind(r) ==
    LET h == req[r] IN
    /\ At(r, "uploadFind")
    /\ IF PropertyFound(h.on, h.owner) THEN ContinueWith(r, "save", props[h.on].imagenPrincipal)
       ELSE Answer(r)
    /\ UNCHANGED <<props, arrived, overlapped, imageVars>>

\* The files of the request; a handler waits here when no name is left.
Batches == {batch \in SUBSET Fresh : Cardinality(batch) \in 1 .. MaxFiles}

\* Mutant: nobody waits for writeFile, whose error is lost.
SaveUnawaited(r) ==
    /\ At(r, "save")
    /\ \E batch \in Batches :
         /\ files' \in {files, files \cup batch}
         /\ used' = used \cup batch
         /\ req' = [req EXCEPT ![r].pc = "rows", ![r].id = batch]
    /\ UNCHANGED <<props, arrived, overlapped, gallery, avatar, lost, failed>>

Save(r) ==
    /\ At(r, "save")
    /\ \E batch \in Batches :
         /\ files' = files \cup batch
         /\ used' = used \cup batch
         /\ req' = [req EXCEPT ![r].pc = "rows", ![r].id = batch]
    /\ UNCHANGED <<props, arrived, overlapped, gallery, avatar, lost, failed>>

\* Promise.all: one file is not written, the others may be.
SaveFail(r) ==
    /\ ImageFail(r, {"save"})
    /\ \E batch \in Batches : \E written \in (SUBSET batch) \ {batch} :
         files' = files \cup written /\ used' = used \cup written
    /\ UNCHANGED <<gallery, avatar, lost>>

\* Mutant: the rows are created one by one, and some are not.
SaveSomeRows(r) ==
    LET h == req[r] IN
    /\ At(r, "rows")
    /\ \E some \in SUBSET h.id :
         gallery' = [i \in Pictures |-> IF i \in some THEN h.on ELSE gallery[i]]
    /\ IF h.seen = Null THEN Continue(r, "main") ELSE Answer(r)
    /\ UNCHANGED <<props, arrived, overlapped, files, used, avatar, lost, failed>>

\* The rows of all files, in one transaction.
SaveRows(r) ==
    LET h == req[r] IN
    /\ At(r, "rows")
    /\ gallery' = [i \in Pictures |-> IF i \in h.id THEN h.on ELSE gallery[i]]
    /\ IF h.seen = Null THEN Continue(r, "main") ELSE Answer(r)
    /\ UNCHANGED <<props, arrived, overlapped, files, used, avatar, lost, failed>>

\* savedFiles[0]: any of them.
SaveMain(r) ==
    /\ At(r, "main")
    /\ \E i \in req[r].id : props' = [props EXCEPT ![req[r].on].imagenPrincipal = i]
    /\ Answer(r)
    /\ UNCHANGED <<arrived, overlapped, imageVars>>

UploadSteps == {"uploadFind", "save", "rows", "main"}

-----------------------------------------------------------------------------
(***************************************************************************)
(* DELETE /uploads/property/:imageId.                                      *)
(***************************************************************************)
DeleteStart(r, i, owner) ==
    /\ gallery[i] # Null
    /\ Begin(r, "imageFind", gallery[i], owner, i, Null)
    /\ UNCHANGED <<props, imageVars>>

\* The property may have been removed.
DeleteFind(r) ==
    LET h == req[r] IN
    /\ At(r, "imageFind")
    /\ IF gallery[h.id] # Null /\ props[h.on].ownerId = h.owner
         THEN Continue(r, "unlink") /\ lost' = lost \cup {h.id}
         ELSE Answer(r) /\ UNCHANGED lost
    /\ UNCHANGED <<props, arrived, overlapped, storage, gallery, avatar, failed>>

\* storage.delete: an error is only logged, and the file stays.
Unlink(r) ==
    /\ At(r, "unlink")
    /\ files' \in {files, files \ {req[r].id}}
    /\ Continue(r, "deleteRow")
    /\ UNCHANGED <<props, arrived, overlapped, used, gallery, avatar, lost, failed>>

\* delete({ where: { id } }) throws if another DELETE was faster.
DeleteRow(r) ==
    LET h == req[r] IN
    /\ At(r, "deleteRow")
    /\ gallery' = [gallery EXCEPT ![h.id] = Null]
    /\ IF gallery[h.id] # Null THEN Continue(r, "remaining") ELSE Answer(r)
    /\ UNCHANGED <<props, arrived, overlapped, storage, avatar, lost, failed>>

\* The latest picture left, any of them here; Null if there is none.
Remaining(p) == Gallery(p)

DeleteRemaining(r) ==
    LET rest == Remaining(req[r].on) IN
    /\ At(r, "remaining")
    /\ \E i \in IF rest = {} THEN {Null} ELSE rest : ContinueWith(r, "setMain", i)
    /\ UNCHANGED <<props, arrived, overlapped, imageVars>>

\* imagenPrincipal is replaced, whichever picture was deleted.
DeleteMain(r) ==
    /\ At(r, "setMain")
    /\ props' = [props EXCEPT ![req[r].on].imagenPrincipal = req[r].seen]
    /\ Answer(r)
    /\ UNCHANGED <<arrived, overlapped, imageVars>>

DeleteSteps == {"imageFind", "unlink", "deleteRow", "remaining", "setMain"}

-----------------------------------------------------------------------------
(***************************************************************************)
(* POST /uploads/avatar and the avatar of PATCH /users/me.                 *)
(***************************************************************************)
AvatarStart(r, u) ==
    /\ Begin(r, "avatarFind", u, u, Null, Null)
    /\ UNCHANGED <<props, imageVars>>

AvatarFind(r) ==
    LET h == req[r] IN
    /\ At(r, "avatarFind")
    /\ ContinueWith(r, IF avatar[h.on] = Null THEN "avatarSave" ELSE "avatarUnlink", avatar[h.on])
    /\ UNCHANGED <<props, arrived, overlapped, imageVars>>

\* The name at the end of an external URL is none of ours.
AvatarUnlink(r) ==
    /\ At(r, "avatarUnlink")
    /\ files' \in {files, files \ {req[r].seen}}
    /\ Continue(r, "avatarSave")
    /\ UNCHANGED <<props, arrived, overlapped, used, gallery, avatar, lost, failed>>

AvatarSaved(r, i, written) ==
    /\ i \in Fresh
    /\ used' = used \cup {i}
    /\ files' \in written
    /\ req' = [req EXCEPT ![r].pc = "avatarWrite", ![r].id = i]
    /\ UNCHANGED <<props, arrived, overlapped, gallery, avatar, lost, failed>>

\* Mutant: nobody waits for writeFile, whose error is lost.
AvatarSaveUnawaited(r) ==
    At(r, "avatarSave") /\ \E i \in Fresh : AvatarSaved(r, i, {files, files \cup {i}})

AvatarSave(r) == At(r, "avatarSave") /\ \E i \in Fresh : AvatarSaved(r, i, {files \cup {i}})

AvatarWrite(r) ==
    /\ At(r, "avatarWrite")
    /\ avatar' = [avatar EXCEPT ![req[r].on] = req[r].id]
    /\ Answer(r)
    /\ UNCHANGED <<props, arrived, overlapped, storage, gallery, lost, failed>>

\* updateProfile with a URL, or null, for the avatar: one write.
ProfileWrite(u, url) ==
    /\ arrived < MaxArrivals
    /\ arrived' = arrived + 1
    /\ avatar' = [avatar EXCEPT ![u] = url]
    /\ UNCHANGED <<props, req, overlapped, storage, gallery, lost, failed>>

AvatarSteps == {"avatarFind", "avatarUnlink", "avatarSave", "avatarWrite"}

ImagesInit ==
    /\ files = {} /\ used = {} /\ lost = {} /\ failed = {}
    /\ gallery = [i \in Pictures |-> Null]
    /\ avatar = [u \in Users |-> Null]

ImagesNext ==
    \/ \E r \in Requests :
         \/ \E p \in Properties, owner \in Users : UploadStart(r, p, owner)
         \/ \E i \in Pictures, owner \in Users : DeleteStart(r, i, owner)
         \/ \E u \in Users : AvatarStart(r, u)
         \/ UploadFind(r) \/ Save(r) \/ SaveFail(r) \/ SaveRows(r) \/ SaveMain(r)
         \/ DeleteFind(r) \/ Unlink(r) \/ DeleteRow(r) \/ DeleteRemaining(r) \/ DeleteMain(r)
         \/ AvatarFind(r) \/ AvatarUnlink(r) \/ AvatarSave(r) \/ AvatarWrite(r)
         \/ /\ ImageFail(r, (UploadSteps \ {"save"}) \cup DeleteSteps \cup AvatarSteps)
            /\ UNCHANGED <<storage, gallery, avatar, lost>>
    \/ \E u \in Users, url \in {"external", Null} : ProfileWrite(u, url)

-----------------------------------------------------------------------------
(***************************************************************************)
(* Properties.                                                             *)
(***************************************************************************)
\* No upload, in whatever order and however it fails, leaves a row whose file
\* was never written: a row without a file is one that a DELETE set out to
\* remove.
RowsHaveFiles == \A i \in Pictures : gallery[i] # Null /\ i \notin files => i \in lost

\* The main picture of a property is one of its own pictures and its file
\* exists, unless two of its handlers overlapped or one failed midway.  (Two
\* DELETEs that overlap can make a deleted picture the main one.)
MainIsShown ==
    \A p \in Properties : Exists(p) /\ p \notin overlapped \cup failed /\ InFlightOn(p) = {} =>
        LET main == props[p].imagenPrincipal
        IN  main \in Pictures => main \in Gallery(p) /\ main \in files

\* The avatar of a user is a picture that exists once the uploads of that user
\* are over and none failed, however they overlapped.
AvatarIsShown ==
    \A u \in Users : InFlightOn(u) = {} /\ avatar[u] \in Pictures /\ avatar[u] \notin files =>
        u \in failed
=============================================================================
