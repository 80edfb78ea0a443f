---------------------------- MODULE PhotoWorker ----------------------------
(***************************************************************************)
(* The photo thread of DisplayProbeWorker (photoRun), the one job slot the *)
(* UI thread fills under photoMutex_, and the gallery state both of them   *)
(* keep under mutex_.                                                      *)
(*                                                                         *)
(* UI operations hold mutex_ throughout and take photoMutex_ inside it, so *)
(* each is one action.  photoRun takes the two mutexes one after the other *)
(* and runs a job under neither: the slot is freed (ClearSlot) before the  *)
(* job's results are posted (PostSave, PostLoad, PostDelete).              *)
(*                                                                         *)
(* A photo is a number; the buffer photoFrame_, a thumbnail and a stored   *)
(* entry are the photo they show, 0 when they show none.  The store is     *)
(* called through StoreCalls; PhotoStore models its files.                 *)
(***************************************************************************)
EXTENDS Integers, Sequences

CONSTANTS
  MaxEntries,  \* kMaxPhotoEntries
  OldPhotos,   \* photos 1..OldPhotos are on the card before the start
  MaxSaves     \* bound: shutter presses the slot accepts

ASSUME WorkerAssumption ==
  /\ MaxEntries \in Nat \ {0}
  /\ OldPhotos \in 0..MaxEntries
  /\ MaxSaves \in Nat

VARIABLES
  \* under mutex_
  scene, galleryPhotoCount, galleryIndex, galleryLoadedIndex,
  galleryThumbnail,      \* 0 while galleryHasThumbnail_ is false
  photoStatus,
  messageTimed,          \* photoMessageUntilMs_ > 0
  storageReady, initialized, savedCount, failedCount,
  \* under photoMutex_
  stopPhase,             \* how far stop() has come on the UI thread
  photoRunning, storageConfigured, photoPending, photoInUse, photoJob, photoGalleryIndex,
  photoFrame,            \* written by requestPhoto and by the photo thread
  \* the photo thread and what it has on its stack, and its store
  pc, taken, ok, storeState, entries,
  \* history
  queued,                \* saves accepted into the slot
  overlapped             \* a job was accepted between ClearSlot and the posting

uiVars    == <<scene, galleryPhotoCount, galleryIndex, galleryLoadedIndex, galleryThumbnail>>
messageVars == <<photoStatus, messageTimed>>
resultVars  == <<storageReady, initialized, savedCount, failedCount>>
slotVars  == <<photoPending, photoJob, photoGalleryIndex, queued, overlapped>>
gateVars  == <<stopPhase, photoRunning, storageConfigured>>
workVars  == <<pc, taken, ok>>
storeVars == <<storeState, entries>>
vars == <<uiVars, messageVars, resultVars, slotVars, photoInUse, photoFrame, gateVars, workVars,
          storeVars>>

-----------------------------------------------------------------------------
Photos == 1..(OldPhotos + MaxSaves)
Scenes == {"Camera", "Controls", "Browser", "Gallery", "Diagnostics", "DeleteConfirm"}
Statuses == {"Idle", "Saving", "Saved", "Failed", "Busy", "Loading", "Deleted",
             "VideoDisabled", "Unavailable", "NoFrame"}
Jobs == {"None", "Save", "Load", "Delete"}
OnCard == [i \in 1..OldPhotos |-> i]

\* photoStore_
Store == INSTANCE StoreCalls WITH storageState <- storeState, Found <- {OnCard}

\* The photo the next accepted request captures.
NextPhoto == OldPhotos + queued + 1

-----------------------------------------------------------------------------
(***************************************************************************)
(* The job slot.  Names with an underscore are mutants.                    *)
(***************************************************************************)
SlotFree_whileInUse == photoRunning /\ ~photoPending        \* mutant: forgets photoInUse_
SlotFree == photoRunning /\ ~photoPending /\ ~photoInUse

\* The window in which the slot is free and the last job's results are not out.
Unposted == pc = "post"

FillSlot(job, index, early) ==
  /\ photoPending' = TRUE
  /\ photoJob' = job
  /\ photoGalleryIndex' = index
  /\ overlapped' = (overlapped \/ early)

\* queueGalleryLoadLocked and queueGalleryDeleteLocked, given the gallery index
\* and count in force; when they refuse, the status is what the caller leaves.
\* early: the caller has not seen the results of the job before.
QueueGallery_unready(job, index, count, accepted, refused, early) ==   \* mutant: any store
  IF count > 0 /\ SlotFree
    THEN FillSlot(job, index, early) /\ photoStatus' = accepted /\ UNCHANGED queued
    ELSE UNCHANGED slotVars /\ photoStatus' = refused
QueueGallery(job, index, count, accepted, refused, early) ==
  IF storageReady /\ count > 0 /\ SlotFree
    THEN FillSlot(job, index, early) /\ photoStatus' = accepted /\ UNCHANGED queued
    ELSE UNCHANGED slotVars /\ photoStatus' = refused

-----------------------------------------------------------------------------
\* start() has created the photo thread, or failed to and given storage up.
Init ==
  /\ \E created \in BOOLEAN :
       /\ photoRunning = created
       /\ pc = IF created THEN "gate" ELSE "exited"
       /\ initialized = ~created
  /\ stopPhase = "no"
  /\ scene = "Camera" /\ galleryPhotoCount = 0 /\ galleryIndex = 0
  /\ galleryLoadedIndex = -1 /\ galleryThumbnail = 0
  /\ photoStatus = "Idle" /\ messageTimed = FALSE
  /\ storageReady = FALSE /\ savedCount = 0 /\ failedCount = 0
  /\ storageConfigured \in BOOLEAN    \* the verdict may be in before the worker is made
  /\ photoPending = FALSE /\ photoInUse = FALSE /\ photoJob = "None" /\ photoGalleryIndex = 0
  /\ photoFrame = 0
  /\ taken = [job |-> "None", index |-> 0] /\ ok = FALSE
  /\ storeState = "NotConfigured" /\ entries = <<>>
  /\ queued = 0 /\ overlapped = FALSE

(***************************************************************************)
(* The UI thread: requestPhoto, key and configureStorage, until the same   *)
(* thread calls stop().                                                    *)
(***************************************************************************)
UiFree == stopPhase = "no"

\* Refused for want of a frame or of storage, or because the slot is taken.
PhotoRefused ==
  /\ UiFree
  /\ \/ photoStatus' = "NoFrame"
     \/ ~storageReady /\ photoStatus' = "Unavailable"
     \/ storageReady /\ ~SlotFree /\ photoStatus' = "Busy"
  /\ messageTimed' = TRUE
  /\ UNCHANGED <<uiVars, resultVars, slotVars, photoInUse, photoFrame, gateVars, workVars,
                 storeVars>>

PhotoQueued ==
  /\ UiFree
  /\ queued < MaxSaves
  /\ storageReady /\ SlotFree
  /\ photoFrame' = NextPhoto
  /\ FillSlot("Save", photoGalleryIndex, Unposted)
  /\ queued' = queued + 1
  /\ photoStatus' = "Saving" /\ messageTimed' = FALSE
  /\ UNCHANGED <<uiVars, resultVars, photoInUse, gateVars, workVars, storeVars>>

\* Previous or Next in the gallery; in the other scenes they select a style.
KeyNavigate(direction) ==
  /\ UiFree
  /\ scene = "Gallery" /\ galleryPhotoCount > 0
  /\ galleryIndex' = (galleryIndex + direction + galleryPhotoCount) % galleryPhotoCount
  /\ galleryLoadedIndex' = -1 /\ galleryThumbnail' = 0
  /\ QueueGallery("Load", galleryIndex', galleryPhotoCount, "Loading", photoStatus, Unposted)
  /\ UNCHANGED <<scene, galleryPhotoCount, messageTimed, resultVars, photoInUse, photoFrame,
                 gateVars, workVars, storeVars>>

KeyConfirmDelete ==
  /\ UiFree
  /\ scene = "DeleteConfirm"
  /\ QueueGallery("Delete", galleryIndex, galleryPhotoCount, "Saving", "Busy", Unposted)
  /\ UNCHANGED <<uiVars, messageTimed, resultVars, photoInUse, photoFrame, gateVars, workVars,
                 storeVars>>

\* Playback: into the gallery, at the newest photo, unless it is shown already.
KeyGalleryOpen ==
  /\ UiFree
  /\ scene # "Gallery"
  /\ scene' = "Gallery"
  /\ galleryIndex' = 0
  /\ IF galleryThumbnail = 0 \/ galleryLoadedIndex # 0
       THEN /\ galleryThumbnail' = 0 /\ galleryLoadedIndex' = -1
            /\ QueueGallery("Load", 0, galleryPhotoCount, "Loading", photoStatus, Unposted)
       ELSE UNCHANGED <<galleryThumbnail, galleryLoadedIndex, slotVars, photoStatus>>
  /\ UNCHANGED <<galleryPhotoCount, messageTimed, resultVars, photoInUse, photoFrame, gateVars,
                 workVars, storeVars>>

\* The keys that only move between scenes.
SceneAfter(key) ==
  CASE key = "Gallery" /\ scene = "Gallery" -> "Camera"
    [] key = "Confirm" /\ scene \notin {"DeleteConfirm", "Gallery"} ->
         IF scene = "Controls" THEN "Camera" ELSE "Controls"
    [] key = "Browser" -> IF scene = "Browser" THEN "Camera" ELSE "Browser"
    [] key = "Diagnostics" -> IF scene = "Diagnostics" THEN "Camera" ELSE "Diagnostics"
    [] key = "Back" -> CASE scene = "Gallery" -> "DeleteConfirm"
                         [] scene = "DeleteConfirm" -> "Gallery"
                         [] OTHER -> "Camera"
    [] OTHER -> scene

KeyScene(key) ==
  /\ UiFree
  /\ SceneAfter(key) # scene
  /\ scene' = SceneAfter(key)
  /\ UNCHANGED <<galleryPhotoCount, galleryIndex, galleryLoadedIndex, galleryThumbnail,
                 messageVars, resultVars, slotVars, photoInUse, photoFrame, gateVars, workVars,
                 storeVars>>

KeyRecord ==
  /\ UiFree
  /\ photoStatus' = "VideoDisabled" /\ messageTimed' = TRUE
  /\ UNCHANGED <<uiVars, resultVars, slotVars, photoInUse, photoFrame, gateVars, workVars,
                 storeVars>>

\* The storage gate reports a verdict; only the first one counts.
ConfigureStorage ==
  /\ UiFree /\ ~storageConfigured
  /\ storageConfigured' = TRUE
  /\ UNCHANGED <<uiVars, messageVars, resultVars, slotVars, photoInUse, photoFrame,
                 stopPhase, photoRunning, workVars, storeVars>>

\* stop(): the UI thread ends and joins the process thread, then tells the
\* photo thread to end and joins it.
Stop ==
  /\ UiFree
  /\ stopPhase' = "joining"
  /\ UNCHANGED <<uiVars, messageVars, resultVars, slotVars, photoInUse, photoFrame,
                 photoRunning, storageConfigured, workVars, storeVars>>

ProcessThreadJoined ==
  /\ stopPhase = "joining"
  /\ stopPhase' = "joined"
  /\ photoRunning' = FALSE
  /\ UNCHANGED <<uiVars, messageVars, resultVars, slotVars, photoInUse, photoFrame,
                 storageConfigured, workVars, storeVars>>

\* renderNextLocked lets a message with a deadline go back to Idle.
ExpireMessage ==
  /\ stopPhase # "joined"
  /\ photoStatus \notin {"Saving", "Loading"} /\ messageTimed
  /\ photoStatus' = "Idle" /\ messageTimed' = FALSE
  /\ UNCHANGED <<uiVars, resultVars, slotVars, photoInUse, photoFrame, gateVars, workVars,
                 storeVars>>

(***************************************************************************)
(* The photo thread.                                                       *)
(***************************************************************************)
GateLeft_onceConfigured == ~photoRunning /\ storageConfigured   \* mutant
GateLeft == ~photoRunning

\* The thread sleeps until a verdict arrives or it is told to end.
OpenGate ==
  /\ pc = "gate"
  /\ \/ photoRunning /\ storageConfigured /\ pc' = "init"
     \/ GateLeft /\ pc' = "exited"
  /\ UNCHANGED <<uiVars, messageVars, resultVars, slotVars, photoInUse, photoFrame, gateVars,
                 taken, ok, storeVars>>

\* The card verdict, and photoStore_.initialize() when it is Ready; any other
\* verdict is worth an initialization that failed.
InitializeStore ==
  /\ pc = "init"
  /\ Store!Initialize
  /\ pc' = "postInit"
  /\ UNCHANGED <<uiVars, messageVars, resultVars, slotVars, photoInUse, photoFrame, gateVars,
                 taken, ok>>

PostInit ==
  /\ pc = "postInit"
  /\ storageReady' = (storeState = "Ready")
  /\ initialized' = TRUE
  /\ galleryPhotoCount' = Len(entries)
  /\ pc' = "wait"
  /\ UNCHANGED <<scene, galleryIndex, galleryLoadedIndex, galleryThumbnail, messageVars,
                 savedCount, failedCount, slotVars, photoInUse, photoFrame, gateVars, taken, ok,
                 storeVars>>

TakeJob ==
  /\ pc = "wait"
  /\ photoPending
  /\ taken' = [job |-> photoJob, index |-> photoGalleryIndex]
  /\ photoPending' = FALSE /\ photoInUse' = TRUE
  /\ pc' = "execute"
  /\ UNCHANGED <<uiVars, messageVars, resultVars, photoJob, photoGalleryIndex, queued, overlapped,
                 photoFrame, gateVars, ok, storeVars>>

LoopExits_undrained == ~photoRunning    \* mutant: leaves a queued job behind
LoopExits == ~photoRunning /\ ~photoPending

ExitLoop ==
  /\ pc = "wait" /\ LoopExits
  /\ pc' = "exited"
  /\ UNCHANGED <<uiVars, messageVars, resultVars, slotVars, photoInUse, photoFrame, gateVars,
                 taken, ok, storeVars>>

Executed(success) == ok' = success /\ pc' = "clear"

ExecuteSave ==
  /\ pc = "execute" /\ taken.job = "Save"
  /\ \E success \in BOOLEAN : Store!SavePhoto(photoFrame, success) /\ Executed(success)
  /\ UNCHANGED <<uiVars, messageVars, resultVars, slotVars, photoInUse, photoFrame, gateVars,
                 taken>>

\* loadThumbnail reads into photoFrame_, and a failed read may leave garbage there.
ExecuteLoad ==
  /\ pc = "execute" /\ taken.job = "Load"
  /\ \/ /\ Store!ValidIndex(taken.index)
        /\ \/ Executed(TRUE) /\ photoFrame' = Store!PhotoAt(taken.index)
           \/ Executed(FALSE) /\ photoFrame' = 0
     \/ Executed(FALSE) /\ UNCHANGED photoFrame
  /\ UNCHANGED <<uiVars, messageVars, resultVars, slotVars, photoInUse, gateVars, taken,
                 storeVars>>

ExecuteDelete ==
  /\ pc = "execute" /\ taken.job = "Delete"
  /\ \E success \in BOOLEAN : Store!DeletePhoto(taken.index, success) /\ Executed(success)
  /\ UNCHANGED <<uiVars, messageVars, resultVars, slotVars, photoInUse, photoFrame, gateVars,
                 taken>>

ClearSlot ==
  /\ pc = "clear"
  /\ photoInUse' = FALSE /\ photoJob' = "None"
  /\ pc' = "post"
  /\ UNCHANGED <<uiVars, messageVars, resultVars, photoPending, photoGalleryIndex, queued,
                 overlapped, photoFrame, gateVars, taken, ok, storeVars>>

PostSave ==
  /\ pc = "post" /\ taken.job = "Save"
  /\ storageReady' = (storeState = "Ready")
  /\ messageTimed' = TRUE
  /\ IF ok THEN /\ photoStatus' = "Saved" /\ savedCount' = savedCount + 1
                /\ galleryPhotoCount' = Len(entries)
                /\ galleryIndex' = 0 /\ galleryLoadedIndex' = 0
                /\ galleryThumbnail' = photoFrame
                /\ UNCHANGED failedCount
           ELSE /\ photoStatus' = "Failed" /\ failedCount' = failedCount + 1
                /\ UNCHANGED <<savedCount, galleryPhotoCount, galleryIndex, galleryLoadedIndex,
                               galleryThumbnail>>
  /\ pc' = "wait"
  /\ UNCHANGED <<scene, initialized, slotVars, photoInUse, photoFrame, gateVars, taken, ok,
                 storeVars>>

LoadStatus_keptOnFailure == IF ok THEN "Idle" ELSE photoStatus   \* mutant
LoadStatus == IF ok THEN "Idle" ELSE "Failed"

PostLoad ==
  /\ pc = "post" /\ taken.job = "Load"
  /\ galleryThumbnail' = IF ok THEN photoFrame ELSE 0
  /\ galleryLoadedIndex' = IF ok THEN taken.index ELSE -1
  /\ photoStatus' = LoadStatus
  /\ pc' = "wait"
  /\ UNCHANGED <<scene, galleryPhotoCount, galleryIndex, messageTimed, resultVars, slotVars,
                 photoInUse, photoFrame, gateVars, taken, ok, storeVars>>

ClampedIndex(count) ==
  IF galleryIndex < count THEN galleryIndex ELSE IF count > 0 THEN count - 1 ELSE 0

ThumbnailAfterDelete_kept == galleryThumbnail     \* mutant: galleryHasThumbnail_ stays
ThumbnailAfterDelete == 0

CountAfterDelete_onSuccess == IF ok THEN Len(entries) ELSE galleryPhotoCount   \* mutant
CountAfterDelete == Len(entries)

PostDelete ==
  /\ pc = "post" /\ taken.job = "Delete"
  /\ galleryPhotoCount' = CountAfterDelete
  /\ galleryIndex' = ClampedIndex(Len(entries))
  /\ galleryThumbnail' = ThumbnailAfterDelete
  /\ galleryLoadedIndex' = -1
  /\ scene' = "Gallery"
  /\ messageTimed' = TRUE
  /\ QueueGallery("Load", galleryIndex', galleryPhotoCount', "Loading",
                  IF ok THEN "Deleted" ELSE "Failed", FALSE)
  /\ pc' = "wait"
  /\ UNCHANGED <<resultVars, photoInUse, photoFrame, gateVars, taken, ok, storeVars>>

-----------------------------------------------------------------------------
PhotoThread ==
  \/ OpenGate
  \/ InitializeStore
  \/ PostInit
  \/ TakeJob
  \/ ExitLoop
  \/ ExecuteSave
  \/ ExecuteLoad
  \/ ExecuteDelete
  \/ ClearSlot
  \/ PostSave
  \/ PostLoad
  \/ PostDelete

UserInterface ==
  \/ PhotoRefused
  \/ PhotoQueued
  \/ \E direction \in {-1, 1} : KeyNavigate(direction)
  \/ KeyConfirmDelete
  \/ KeyGalleryOpen
  \/ \E key \in {"Gallery", "Confirm", "Browser", "Diagnostics", "Back"} : KeyScene(key)
  \/ KeyRecord
  \/ ConfigureStorage
  \/ Stop

Next ==
  \/ UserInterface
  \/ PhotoThread
  \/ ProcessThreadJoined
  \/ ExpireMessage

Spec == Init /\ [][Next]_vars

\* The photo thread, and the process thread that expires messages and that
\* stop() joins, are always woken; nothing is assumed of the user or the card.
FairSpec ==
  /\ Spec
  /\ WF_vars(PhotoThread)
  /\ WF_vars(ExpireMessage)
  /\ WF_vars(ProcessThreadJoined)

-----------------------------------------------------------------------------
(***************************************************************************)
(* Properties.                                                             *)
(***************************************************************************)
FlagsOK ==
  /\ messageTimed \in BOOLEAN /\ storageReady \in BOOLEAN /\ initialized \in BOOLEAN
  /\ photoRunning \in BOOLEAN /\ storageConfigured \in BOOLEAN
  /\ photoPending \in BOOLEAN /\ photoInUse \in BOOLEAN
  /\ ok \in BOOLEAN /\ overlapped \in BOOLEAN

\* The variables of photoRun, its slot and the gallery keep their types.
TypeOK ==
  /\ scene \in Scenes /\ galleryPhotoCount \in 0..MaxEntries /\ galleryIndex \in 0..MaxEntries
  /\ galleryLoadedIndex \in -1..MaxEntries /\ galleryThumbnail \in Photos \cup {0}
  /\ photoStatus \in Statuses /\ savedCount \in Nat /\ failedCount \in Nat
  /\ stopPhase \in {"no", "joining", "joined"}
  /\ photoJob \in Jobs /\ photoGalleryIndex \in 0..MaxEntries
  /\ photoFrame \in Photos \cup {0}
  /\ pc \in {"gate", "init", "postInit", "wait", "execute", "clear", "post", "exited"}
  /\ taken \in [job: Jobs, index: 0..MaxEntries]
  /\ storeState \in {"NotConfigured", "Ready", "IndexFailed", "Unusable", "InsufficientSpace"}
  /\ entries \in Seq(Photos) /\ Len(entries) <= MaxEntries
  /\ queued \in 0..MaxSaves
  /\ FlagsOK

\* photoFrame_ holds the photo that was requested from the moment the request
\* is accepted until the thread gives the slot back: no later request and no
\* thumbnail load writes over a photo that is still being saved.
SaveKeepsItsFrame ==
  (\/ photoPending /\ photoJob = "Save"
   \/ pc \in {"execute", "clear"} /\ taken.job = "Save")
    => photoFrame = OldPhotos + queued

\* Of the photos accepted, some were answered, one may wait and one be at work.
SavesAreCounted ==
  queued = savedCount + failedCount
           + (IF photoPending /\ photoJob = "Save" /\ pc # "exited" THEN 1 ELSE 0)
           + (IF pc \in {"execute", "clear", "post"} /\ taken.job = "Save" THEN 1 ELSE 0)

\* Every accepted photo is answered, Saved or Failed, exactly once, with its own
\* picture: none is overwritten in the slot or in the buffer that requests,
\* saves and thumbnail loads share, and stop() leaves none behind.
SavesAreAnswered == SaveKeepsItsFrame /\ SavesAreCounted

\* The thumbnail is the photo galleryLoadedIndex_ says it is, except after a
\* request was accepted between the freeing of the slot and the posting.
ThumbnailIsLoadedPhoto ==
  (pc = "wait" /\ galleryThumbnail # 0 /\ ~overlapped)
    => Store!ValidIndex(galleryLoadedIndex)
       /\ galleryThumbnail = Store!PhotoAt(galleryLoadedIndex)

\* The three indices and the count agree with a store that shrinks, grows and
\* evicts: outside the thread's own work the count the UI pages through is the
\* store's, the selection names one of the photos counted, and a queued load or
\* delete names a photo the store still has (same exception).
IndicesAgree ==
  /\ TypeOK
  /\ pc = "wait" => galleryPhotoCount = Len(entries)
  /\ galleryIndex = 0 \/ galleryIndex < galleryPhotoCount
  /\ (photoPending /\ photoJob \in {"Load", "Delete"} /\ ~overlapped)
       => Store!ValidIndex(photoGalleryIndex)

\* The store is initialized once, and no photo is deleted from one that never was
\* Ready: deletePhoto does not ask, and what the UI thread goes by, storageReady_,
\* is posted later than the slot is freed.
StoreIsCalledReady == Store!Spec

\* The messages that are shown without a deadline although no job will replace
\* them: FAILED after a load, BUSY after a deletion was refused.
Undated == photoStatus \in {"Failed", "Busy"} /\ ~messageTimed

\* No message stays for ever, but for the two of Undated, although
\* DEVICE_FINDINGS says that the program "expires routine messages".
\* One with a deadline expires, FAILED after a save or a deletion and BUSY after a
\* refused photo included; SAVING and LOADING have none, so the job they announce
\* must end and replace them, also when its results were posted after those of
\* the next.
MessagesExpire ==
  \A status \in Statuses \ {"Idle"} :
    []<>(photoStatus # status \/ Undated \/ stopPhase # "no")

\* stop() returns: the photo thread finishes what is queued and ends, also
\* while it still waits for the storage gate.
StopReturns == []<>(stopPhase = "no" \/ (stopPhase = "joined" /\ pc = "exited"))

=============================================================================
