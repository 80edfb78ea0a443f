------------------------- MODULE PhotoWorkerProofs -------------------------
(***************************************************************************)
(* Proofs about the photo thread and the UI thread that shares its slot,   *)
(* for stores of any capacity and any number of photos: a photo keeps its  *)
(* buffer until it is saved, every accepted photo is answered once, and    *)
(* the gallery's indices and thumbnail agree with the store.               *)
(***************************************************************************)
EXTENDS PhotoWorker, SequenceTheorems, TLAPS

-----------------------------------------------------------------------------
(***************************************************************************)
(* The invariant.                                                          *)
(***************************************************************************)
\* Who has the slot.  It is empty before the storage is known, while a job runs,
\* and once the thread has ended; a job it holds before the last one's results are
\* posted has overlapped them.
SlotInv ==
  /\ photoInUse <=> pc \in {"execute", "clear"}
  /\ photoInUse => ~photoPending
  /\ pc \in {"gate", "init", "postInit"} =>
       ~storageReady /\ ~photoPending /\ galleryPhotoCount = 0 /\ galleryThumbnail = 0
  /\ pc = "exited" => ~photoRunning /\ ~photoPending
  /\ (pc = "post" /\ photoPending) => overlapped

\* A job that is through with the store and changed what is in it.
StoreChanged == pc \in {"clear", "post"} /\ (taken.job = "Delete" \/ (taken.job = "Save" /\ ok))

\* The count is the store's until a job changes the store, and the selection and a
\* queued gallery job stay below it.
CountInv ==
  /\ (pc \in {"wait", "execute", "clear", "post"} /\ ~StoreChanged) =>
       galleryPhotoCount = Len(entries)
  /\ galleryIndex = 0 \/ galleryIndex < galleryPhotoCount
  /\ (photoPending /\ photoJob \in {"Load", "Delete"} /\ ~overlapped) =>
       Store!ValidIndex(photoGalleryIndex)

\* The thumbnail is a photo of the store until a job changes the store.  Until
\* its results are posted, photoFrame_ is the photo a job saved or loaded.
ThumbnailInv ==
  ~overlapped =>
    /\ (galleryThumbnail # 0 /\ ~StoreChanged) =>
         Store!ValidIndex(galleryLoadedIndex) /\ galleryThumbnail = Store!PhotoAt(galleryLoadedIndex)
    /\ (pc \in {"clear", "post"} /\ taken.job = "Save" /\ ok) =>
         Store!ValidIndex(0) /\ photoFrame = Store!PhotoAt(0)
    /\ (pc \in {"clear", "post"} /\ taken.job = "Load" /\ ok) =>
         Store!ValidIndex(taken.index) /\ photoFrame = Store!PhotoAt(taken.index)

WorkerInv ==
  /\ TypeOK /\ SlotInv /\ CountInv /\ ThumbnailInv
  /\ SaveKeepsItsFrame /\ SavesAreCounted

-----------------------------------------------------------------------------
(***************************************************************************)
(* Sequences: a photo more at the end, the oldest gone to make room for    *)
(* it, and a photo less.                                                   *)
(***************************************************************************)
LEMMA WithEntryProperties ==
  ASSUME entries \in Seq(Photos), Len(entries) <= MaxEntries, NEW p \in Photos
  PROVE  /\ Store!WithEntry(p) \in Seq(Photos)
         /\ Len(Store!WithEntry(p)) \in 1..MaxEntries /\ Store!WithEntry(p)[Len(Store!WithEntry(p))] = p
<1> DEFINE kept == IF Len(entries) = MaxEntries THEN Tail(entries) ELSE entries
<1>1. MaxEntries \in Nat \ {0} /\ Len(entries) \in Nat
  BY WorkerAssumption, LenProperties DEF WorkerAssumption
<1>2. kept \in Seq(Photos) /\ Len(kept) \in Nat /\ Len(kept) + 1 <= MaxEntries
  <2>1. CASE Len(entries) = MaxEntries
    <3>1. entries # <<>>
      BY <1>1, <2>1, EmptySeq
    <3>2. Tail(entries) \in Seq(Photos) /\ Len(Tail(entries)) = Len(entries) - 1
      BY <3>1, HeadTailProperties
    <3> QED
      BY <1>1, <2>1, <3>2
  <2>2. CASE Len(entries) # MaxEntries
    BY <1>1, <2>2
  <2> QED
    BY <2>1, <2>2
<1> HIDE DEF kept
<1>3. /\ Append(kept, p) \in Seq(Photos) /\ Len(Append(kept, p)) = Len(kept) + 1
      /\ Append(kept, p)[Len(kept) + 1] = p
  BY <1>2, AppendProperties
<1>4. Store!WithEntry(p) = Append(kept, p)
  BY DEF Store!WithEntry, kept
<1> QED
  BY <1>1, <1>2, <1>3, <1>4

LEMMA RemovedEntry ==
  ASSUME entries \in Seq(Photos), Len(entries) <= MaxEntries, NEW i \in 1..Len(entries)
  PROVE  Store!WithoutEntry(i) \in Seq(Photos) /\ Len(Store!WithoutEntry(i)) <= MaxEntries
<1> DEFINE a == SubSeq(entries, 1, i - 1)
           b == SubSeq(entries, i + 1, Len(entries))
<1>1. Len(entries) \in Nat /\ \A j \in 1..Len(entries) : entries[j] \in Photos
  BY LenProperties, ElementOfSeq
<1>2. a \in Seq(Photos) /\ Len(a) = i - 1
  <2>1. i - 1 \in Int /\ \A j \in 1..(i - 1) : entries[j] \in Photos
    BY <1>1
  <2>2. a \in Seq(Photos) /\ Len(a) = IF 1 <= i - 1 THEN (i - 1) - 1 + 1 ELSE 0
    BY <2>1, SubSeqProperties
  <2> QED
    BY <2>2
<1>3. b \in Seq(Photos) /\ Len(b) = Len(entries) - i
  <2>1. i + 1 \in Int /\ Len(entries) \in Int /\ \A j \in (i + 1)..Len(entries) : entries[j] \in Photos
    BY <1>1
  <2>2. b \in Seq(Photos) /\ Len(b) = IF i + 1 <= Len(entries) THEN Len(entries) - (i + 1) + 1 ELSE 0
    BY <2>1, SubSeqProperties
  <2> QED
    BY <1>1, <2>2
<1> HIDE DEF a, b
<1>4. a \o b \in Seq(Photos) /\ Len(a \o b) = Len(a) + Len(b)
  BY <1>2, <1>3, ConcatProperties
<1>5. Store!WithoutEntry(i) = a \o b
  BY DEF Store!WithoutEntry, a, b
<1> QED
  BY <1>1, <1>2, <1>3, <1>4, <1>5, WorkerAssumption DEF WorkerAssumption

\* The thumbnail a valid index names.
LEMMA PhotoAtIndex ==
  ASSUME entries \in Seq(Photos), NEW i \in Int, Store!ValidIndex(i)
  PROVE  Store!PhotoAt(i) \in Photos /\ Len(entries) - i \in 1..Len(entries)
<1>1. Len(entries) \in Nat
  BY LenProperties
<1>2. Len(entries) - i \in 1..Len(entries)
  BY <1>1 DEF Store!ValidIndex
<1> QED
  BY <1>2, ElementOfSeq DEF Store!PhotoAt

-----------------------------------------------------------------------------
(***************************************************************************)
(* What accepting a job does.                                              *)
(***************************************************************************)
LEMMA QueuedOrRefused ==
  ASSUME FlagsOK, NEW job, NEW index, NEW count, NEW accepted, NEW refused, NEW early \in BOOLEAN,
         QueueGallery(job, index, count, accepted, refused, early)
  PROVE  \/ /\ storageReady /\ count > 0 /\ photoRunning /\ ~photoPending /\ ~photoInUse
            /\ photoPending' = TRUE /\ photoJob' = job /\ photoGalleryIndex' = index
            /\ overlapped' \in BOOLEAN /\ (overlapped' <=> overlapped \/ early)
            /\ queued' = queued /\ photoStatus' = accepted
         \/ UNCHANGED slotVars /\ photoStatus' = refused
BY Zenon DEF FlagsOK, QueueGallery, SlotFree, FillSlot

\* What a key in the gallery does to the slot.
Queues(job, index) ==
  \/ /\ storageReady /\ galleryPhotoCount > 0 /\ photoRunning /\ ~photoPending /\ ~photoInUse
     /\ photoPending' = TRUE /\ photoJob' = job /\ photoGalleryIndex' = index
     /\ (overlapped' <=> overlapped \/ pc = "post") /\ queued' = queued
  \/ UNCHANGED slotVars

LEMMA QueuedByKey ==
  ASSUME FlagsOK, NEW job, NEW index, NEW accepted, NEW refused,
         QueueGallery(job, index, galleryPhotoCount, accepted, refused, Unposted)
  PROVE  Queues(job, index) /\ photoStatus' \in {accepted, refused}
BY Zenon DEF FlagsOK, QueueGallery, SlotFree, FillSlot, Queues, Unposted

\* Flags keep their type; the rest of the proof can take them so.
LEMMA FlagsStep ==
  ASSUME FlagsOK, [Next]_vars
  PROVE  FlagsOK'
<1> USE DEF FlagsOK, uiVars, messageVars, resultVars, slotVars, gateVars, workVars, storeVars
<1>1. CASE UNCHANGED vars
  BY <1>1, Zenon DEF vars
<1>2. CASE PhotoRefused
  BY <1>2, Zenon DEF PhotoRefused
<1>3. CASE KeyRecord
  BY <1>3, Zenon DEF KeyRecord
<1>4. CASE ConfigureStorage
  BY <1>4, Zenon DEF ConfigureStorage
<1>5. CASE Stop
  BY <1>5, Zenon DEF Stop
<1>6. CASE ProcessThreadJoined
  BY <1>6, Zenon DEF ProcessThreadJoined
<1>7. CASE ExpireMessage
  BY <1>7, Zenon DEF ExpireMessage
<1>8. CASE OpenGate
  BY <1>8, Zenon DEF OpenGate
<1>9. CASE InitializeStore
  BY <1>9, Zenon DEF InitializeStore
<1>10. CASE TakeJob
  BY <1>10, Zenon DEF TakeJob
<1>11. CASE ExitLoop
  BY <1>11, Zenon DEF ExitLoop
<1>12. CASE ExecuteSave
  BY <1>12, Zenon DEF ExecuteSave, Executed
<1>13. CASE ExecuteLoad
  BY <1>13, Zenon DEF ExecuteLoad, Executed
<1>14. CASE ExecuteDelete
  BY <1>14, Zenon DEF ExecuteDelete, Executed
<1>15. CASE ClearSlot
  BY <1>15, Zenon DEF ClearSlot
<1>16. CASE PostLoad
  BY <1>16, Zenon DEF PostLoad
<1>17. CASE PostInit
  <2>1. storageReady' \in BOOLEAN
    BY <1>17, Zenon DEF PostInit
  <2> QED
    BY <1>17, <2>1, Zenon DEF PostInit
<1>18. CASE PostSave
  <2>1. storageReady' \in BOOLEAN
    BY <1>18, Zenon DEF PostSave
  <2> QED
    BY <1>18, <2>1, Zenon DEF PostSave
<1>19. CASE PhotoQueued
  <2>1. overlapped' \in BOOLEAN
    BY <1>19, Zenon DEF PhotoQueued, FillSlot
  <2> QED
    BY <1>19, <2>1, Zenon DEF PhotoQueued, FillSlot
<1>20. CASE KeyConfirmDelete
  <2>1. overlapped' \in BOOLEAN /\ photoPending' \in BOOLEAN
    BY <1>20, Zenon DEF KeyConfirmDelete, QueueGallery, FillSlot
  <2> QED
    BY <1>20, <2>1, Zenon DEF KeyConfirmDelete
<1>21. CASE KeyGalleryOpen
  <2>1. overlapped' \in BOOLEAN /\ photoPending' \in BOOLEAN
    BY <1>21, Zenon DEF KeyGalleryOpen, QueueGallery, FillSlot
  <2> QED
    BY <1>21, <2>1, Zenon DEF KeyGalleryOpen
<1>22. CASE PostDelete
  <2>1. overlapped' \in BOOLEAN /\ photoPending' \in BOOLEAN
    BY <1>22, Zenon DEF PostDelete, QueueGallery, FillSlot
  <2> QED
    BY <1>22, <2>1, Zenon DEF PostDelete
<1>23. ASSUME NEW direction \in {-1, 1}, KeyNavigate(direction) PROVE FlagsOK'
  <2>1. overlapped' \in BOOLEAN /\ photoPending' \in BOOLEAN
    BY <1>23, Zenon DEF KeyNavigate, QueueGallery, FillSlot
  <2> QED
    BY <1>23, <2>1, Zenon DEF KeyNavigate
<1>24. ASSUME NEW key, KeyScene(key) PROVE FlagsOK'
  BY <1>24, Zenon DEF KeyScene
<1> QED
  BY <1>1, <1>2, <1>3, <1>4, <1>5, <1>6, <1>7, <1>8, <1>9, <1>10, <1>11, <1>12,
     <1>13, <1>14, <1>15, <1>16, <1>17, <1>18, <1>19, <1>20, <1>21, <1>22, <1>23, <1>24
     DEF Next, UserInterface, PhotoThread

-----------------------------------------------------------------------------
(***************************************************************************)
(* Steps that queue no job and leave the store and the gallery alone.      *)
(***************************************************************************)
LEMMA QuietStep ==
  ASSUME WorkerInv, FlagsOK',
         \/ PhotoRefused \/ KeyRecord \/ ConfigureStorage \/ Stop \/ ProcessThreadJoined
         \/ ExpireMessage \/ OpenGate \/ ExitLoop \/ ClearSlot \/ TakeJob
         \/ \E key \in {"Gallery", "Confirm", "Browser", "Diagnostics", "Back"} : KeyScene(key)
  PROVE  WorkerInv'
<1> USE WorkerAssumption
    DEF WorkerAssumption, WorkerInv, TypeOK, SlotInv, StoreChanged, CountInv, ThumbnailInv,
        SaveKeepsItsFrame, SavesAreCounted, Store!ValidIndex, Store!PhotoAt, UiFree,
        uiVars, messageVars, resultVars, slotVars, gateVars, workVars, storeVars
<1> Len(entries) \in Nat
  BY LenProperties
<1>1. CASE PhotoRefused
  BY <1>1 DEF PhotoRefused, Statuses
<1>2. CASE KeyRecord
  BY <1>2 DEF KeyRecord, Statuses
<1>3. CASE ConfigureStorage
  BY <1>3 DEF ConfigureStorage, Statuses
<1>4. CASE Stop
  BY <1>4 DEF Stop, Statuses
<1>5. CASE ProcessThreadJoined
  BY <1>5 DEF ProcessThreadJoined, Statuses
<1>6. CASE ExpireMessage
  BY <1>6 DEF ExpireMessage, Statuses
<1>7. CASE OpenGate
  BY <1>7 DEF OpenGate, GateLeft
<1>8. CASE ExitLoop
  BY <1>8 DEF ExitLoop, LoopExits
<1>9. CASE ClearSlot
  BY <1>9 DEF ClearSlot, Jobs
<1>10. CASE TakeJob
  <2>1. TypeOK'
    BY <1>10 DEF TakeJob
  <2>2. SlotInv'
    BY <1>10 DEF TakeJob
  <2>3. CountInv'
    BY <1>10 DEF TakeJob
  <2>4. ThumbnailInv'
    BY <1>10 DEF TakeJob
  <2>5. SaveKeepsItsFrame' /\ SavesAreCounted'
    BY <1>10 DEF TakeJob
  <2> QED
    BY <2>1, <2>2, <2>3, <2>4, <2>5 DEF WorkerInv
<1>11. ASSUME NEW key, KeyScene(key) PROVE WorkerInv'
  <2>1. scene' \in Scenes
    BY <1>11 DEF KeyScene, SceneAfter, Scenes
  <2> QED
    BY <1>11, <2>1 DEF KeyScene
<1> QED
  BY <1>1, <1>2, <1>3, <1>4, <1>5, <1>6, <1>7, <1>8, <1>9, <1>10, <1>11

\* What the thread does with its store, under neither mutex.
LEMMA StoreStep ==
  ASSUME WorkerInv, FlagsOK', InitializeStore \/ ExecuteSave \/ ExecuteLoad \/ ExecuteDelete
  PROVE  WorkerInv'
<1> USE WorkerAssumption
    DEF WorkerAssumption, WorkerInv, TypeOK, SlotInv, StoreChanged, CountInv, ThumbnailInv,
        SaveKeepsItsFrame, SavesAreCounted, Store!ValidIndex, Store!PhotoAt, UiFree,
        uiVars, messageVars, resultVars, slotVars, gateVars, workVars, storeVars
<1> Len(entries) \in Nat
  BY LenProperties
<1>1. CASE InitializeStore
  <2>1. entries' \in Seq(Photos) /\ Len(entries') \in 0..MaxEntries
    <3>1. OnCard \in Seq(Photos) /\ Len(OnCard) = OldPhotos
      BY DEF OnCard, Photos
    <3> QED
      BY <1>1, <3>1, EmptySeq DEF InitializeStore, Store!Initialize
  <2> QED
    BY <1>1, <2>1 DEF InitializeStore, Store!Initialize
<1>2. CASE ExecuteSave
  <2>1. photoFrame = OldPhotos + queued /\ queued # 0
    BY <1>2 DEF ExecuteSave
  <2>2. photoFrame \in Photos
    BY <2>1 DEF Photos
  <2>3. CASE Executed(FALSE) /\ UNCHANGED entries
    BY <1>2, <2>3 DEF ExecuteSave, Executed, Store!SavePhoto, Store!vars
  <2>4. CASE Executed(TRUE) /\ entries' = Store!WithEntry(photoFrame) /\ UNCHANGED storeState
    <3>1. /\ entries' \in Seq(Photos) /\ Len(entries') \in 1..MaxEntries
          /\ entries'[Len(entries')] = photoFrame
      BY <2>2, <2>4, WithEntryProperties
    <3> QED
      BY <1>2, <2>4, <3>1 DEF ExecuteSave, Executed, Store!SavePhoto, Store!vars
  <2> QED
    BY <1>2, <2>3, <2>4 DEF ExecuteSave, Store!SavePhoto, Store!vars
<1>3. CASE ExecuteLoad
  <2>1. Store!ValidIndex(taken.index) => Store!PhotoAt(taken.index) \in Photos
    BY PhotoAtIndex
  <2> QED
    BY <1>3, <2>1 DEF ExecuteLoad, Executed
<1>4. CASE ExecuteDelete
  <2>1. CASE UNCHANGED entries
    BY <1>4, <2>1 DEF ExecuteDelete, Executed, Store!DeletePhoto, Store!vars
  <2>2. CASE Store!ValidIndex(taken.index) /\ entries' = Store!WithoutEntry(Len(entries) - taken.index)
    <3>1. Len(entries) - taken.index \in 1..Len(entries)
      BY <2>2, PhotoAtIndex, SMTT(30)
    <3>2. entries' \in Seq(Photos) /\ Len(entries') <= MaxEntries /\ Len(entries') \in Nat
      BY <2>2, <3>1, RemovedEntry, LenProperties
    <3> QED
      BY <1>4, <3>2 DEF ExecuteDelete, Executed, Store!DeletePhoto, Store!vars
  <2> QED
    BY <1>4, <2>1, <2>2 DEF ExecuteDelete, Store!DeletePhoto, Store!vars
<1> QED
  BY <1>1, <1>2, <1>3, <1>4

\* The results of a job, posted under mutex_.
LEMMA PostStep ==
  ASSUME WorkerInv, FlagsOK', PostInit \/ PostSave \/ PostLoad \/ PostDelete
  PROVE  WorkerInv'
<1> USE WorkerAssumption
    DEF WorkerAssumption, WorkerInv, TypeOK, SlotInv, StoreChanged, CountInv, ThumbnailInv,
        SaveKeepsItsFrame, SavesAreCounted, Store!ValidIndex, Store!PhotoAt, UiFree,
        uiVars, messageVars, resultVars, slotVars, gateVars, workVars, storeVars
<1> Len(entries) \in Nat
  BY LenProperties
<1>1. CASE PostInit
  <2>1. TypeOK'
    BY <1>1 DEF PostInit
  <2>2. SlotInv'
    BY <1>1 DEF PostInit
  <2>3. CountInv'
    BY <1>1 DEF PostInit
  <2>4. ThumbnailInv'
    BY <1>1 DEF PostInit
  <2>5. SaveKeepsItsFrame' /\ SavesAreCounted'
    BY <1>1 DEF PostInit
  <2> QED
    BY <2>1, <2>2, <2>3, <2>4, <2>5 DEF WorkerInv
<1>2. CASE PostSave
  <2>1. TypeOK'
    BY <1>2 DEF PostSave, Statuses
  <2>2. SlotInv'
    BY <1>2 DEF PostSave, Statuses
  <2>3. CountInv'
    BY <1>2 DEF PostSave, Statuses
  <2>4. ThumbnailInv'
    BY <1>2 DEF PostSave, Statuses
  <2>5. SaveKeepsItsFrame' /\ SavesAreCounted'
    BY <1>2 DEF PostSave, Statuses
  <2> QED
    BY <2>1, <2>2, <2>3, <2>4, <2>5 DEF WorkerInv
<1>3. CASE PostLoad
  <2>1. TypeOK'
    BY <1>3 DEF PostLoad, LoadStatus, Statuses
  <2>2. SlotInv'
    BY <1>3 DEF PostLoad, LoadStatus, Statuses
  <2>3. CountInv'
    BY <1>3 DEF PostLoad, LoadStatus, Statuses
  <2>4. ThumbnailInv'
    BY <1>3 DEF PostLoad, LoadStatus, Statuses
  <2>5. SaveKeepsItsFrame' /\ SavesAreCounted'
    BY <1>3 DEF PostLoad, LoadStatus, Statuses
  <2> QED
    BY <2>1, <2>2, <2>3, <2>4, <2>5 DEF WorkerInv
<1>4. CASE PostDelete
  <2> DEFINE index == ClampedIndex(Len(entries))
  <2>1. index \in 0..MaxEntries /\ (index = 0 \/ index < Len(entries))
    BY DEF ClampedIndex
  <2>2. /\ scene' = "Gallery" /\ galleryPhotoCount' = Len(entries) /\ galleryIndex' = index
        /\ galleryThumbnail' = 0 /\ galleryLoadedIndex' = -1 /\ pc' = "wait" /\ pc = "post"
        /\ UNCHANGED <<storageReady, savedCount, failedCount, photoInUse, photoFrame, stopPhase,
                       photoRunning, taken, ok, storeState, entries>>
        /\ taken.job = "Delete"
    BY <1>4 DEF PostDelete, ThumbnailAfterDelete, CountAfterDelete
  <2>3. \/ /\ storageReady /\ Len(entries) > 0 /\ photoRunning /\ ~photoPending
           /\ photoPending' = TRUE /\ photoJob' = "Load" /\ photoGalleryIndex' = index
           /\ (overlapped' <=> overlapped) /\ queued' = queued /\ photoStatus' = "Loading"
        \/ UNCHANGED slotVars /\ photoStatus' \in {"Deleted", "Failed"}
    <3>1. \/ /\ storageReady /\ galleryPhotoCount' > 0 /\ photoRunning /\ ~photoPending
             /\ photoPending' = TRUE /\ photoJob' = "Load" /\ photoGalleryIndex' = galleryIndex'
             /\ (overlapped' <=> overlapped) /\ queued' = queued /\ photoStatus' = "Loading"
          \/ UNCHANGED slotVars /\ photoStatus' \in {"Deleted", "Failed"}
      BY <1>4, QueuedOrRefused DEF PostDelete
    <3> QED
      BY <2>2, <3>1
  <2> HIDE DEF index
  <2>4. TypeOK'
    BY <2>1, <2>2, <2>3 DEF Scenes, Statuses, Jobs
  <2>5. SlotInv'
    BY <2>2, <2>3
  <2>6. CountInv' /\ ThumbnailInv'
    BY <2>1, <2>2, <2>3
  <2>7. SaveKeepsItsFrame' /\ SavesAreCounted'
    BY <2>2, <2>3
  <2> QED
    BY <2>4, <2>5, <2>6, <2>7 DEF WorkerInv
<1> QED
  BY <1>1, <1>2, <1>3, <1>4

\* The shutter.
LEMMA PhotoQueuedStep ==
  ASSUME WorkerInv, FlagsOK', PhotoQueued
  PROVE  WorkerInv'
<1> USE WorkerAssumption
    DEF WorkerAssumption, WorkerInv, TypeOK, SlotInv, StoreChanged, CountInv, ThumbnailInv,
        SaveKeepsItsFrame, SavesAreCounted, Store!ValidIndex, Store!PhotoAt, UiFree,
        uiVars, messageVars, resultVars, slotVars, gateVars, workVars, storeVars
<1> Len(entries) \in Nat
  BY LenProperties
<1>1. /\ storageReady /\ photoRunning /\ ~photoPending /\ ~photoInUse /\ queued < MaxSaves
      /\ photoFrame' = OldPhotos + queued' /\ queued' = queued + 1
      /\ photoPending' = TRUE /\ photoJob' = "Save" /\ photoGalleryIndex' = photoGalleryIndex
      /\ photoStatus' = "Saving"
      /\ UNCHANGED <<uiVars, storageReady, savedCount, failedCount, photoInUse, stopPhase,
                     photoRunning, pc, taken, ok, storeState, entries>>
  BY DEF PhotoQueued, SlotFree, FillSlot, NextPhoto
<1>2. ~overlapped' => ~overlapped /\ pc # "post"
  BY Zenon DEF PhotoQueued, FillSlot, Unposted
<1>3. pc \in {"wait", "post"}
  BY <1>1
<1>4. photoFrame' \in Photos
  BY <1>1 DEF Photos
<1>5. TypeOK'
  BY <1>1, <1>4 DEF Statuses, Jobs
<1>6. SlotInv'
  BY <1>1, <1>2, <1>3
<1>7. CountInv'
  BY <1>1, <1>2, <1>3
<1>8. ThumbnailInv'
  BY <1>1, <1>2, <1>3
<1>9. SaveKeepsItsFrame' /\ SavesAreCounted'
  BY <1>1, <1>3
<1> QED
  BY <1>5, <1>6, <1>7, <1>8, <1>9 DEF WorkerInv

\* A load or a delete of a photo that is counted.
LEMMA GalleryRequest ==
  ASSUME WorkerInv, FlagsOK',
         NEW job \in {"Load", "Delete"}, NEW index \in Nat,
         index = 0 \/ index < galleryPhotoCount,
         galleryIndex' = index, scene' \in Scenes, photoStatus' \in Statuses,
         \/ galleryThumbnail' = 0 /\ galleryLoadedIndex' = -1
         \/ UNCHANGED <<galleryThumbnail, galleryLoadedIndex>>,
         UNCHANGED <<galleryPhotoCount, storageReady, savedCount, failedCount, photoInUse,
                     photoFrame, stopPhase, photoRunning, workVars, storeVars>>,
         Queues(job, index)
  PROVE  WorkerInv'
<1> USE WorkerAssumption
    DEF WorkerAssumption, WorkerInv, TypeOK, SlotInv, StoreChanged, CountInv, ThumbnailInv,
        SaveKeepsItsFrame, SavesAreCounted, Store!ValidIndex, Store!PhotoAt, UiFree,
        uiVars, messageVars, resultVars, slotVars, gateVars, workVars, storeVars
<1> Len(entries) \in Nat
  BY LenProperties
<1> USE DEF Queues
<1>1. TypeOK'
  BY SMTT(30) DEF Jobs
<1>2. SlotInv'
  OBVIOUS
<1>3. CountInv'
  OBVIOUS
<1>4. ThumbnailInv'
  OBVIOUS
<1>5. SaveKeepsItsFrame'
  OBVIOUS
<1>6. SavesAreCounted'
  <2>1. /\ UNCHANGED <<queued, savedCount, failedCount, pc, taken>>
        /\ (photoPending' /\ photoJob' = "Save") <=> (photoPending /\ photoJob = "Save")
    OBVIOUS
  <2> QED
    BY <2>1
<1> QED
  BY <1>1, <1>2, <1>3, <1>4, <1>5, <1>6 DEF WorkerInv

\* The keys of the gallery.
LEMMA KeyStep ==
  ASSUME WorkerInv, FlagsOK',
         \/ KeyConfirmDelete \/ KeyGalleryOpen
         \/ \E direction \in {-1, 1} : KeyNavigate(direction)
  PROVE  WorkerInv'
<1>0. /\ FlagsOK /\ galleryPhotoCount \in Nat /\ galleryIndex \in Nat
      /\ galleryIndex = 0 \/ galleryIndex < galleryPhotoCount
      /\ photoStatus \in Statuses /\ scene \in Scenes
  BY WorkerAssumption DEF WorkerInv, TypeOK, CountInv, WorkerAssumption
<1>1. CASE KeyConfirmDelete
  <2>1. Queues("Delete", galleryIndex) /\ photoStatus' \in {"Saving", "Busy"}
    BY <1>0, <1>1, QueuedByKey DEF KeyConfirmDelete
  <2> QED
    BY <1>0, <1>1, <2>1, GalleryRequest DEF KeyConfirmDelete, Statuses, uiVars, resultVars, gateVars
<1>2. CASE KeyGalleryOpen
  <2>1. /\ scene' \in Scenes /\ galleryIndex' = 0
        /\ UNCHANGED <<galleryPhotoCount, storageReady, savedCount, failedCount, photoInUse,
                       photoFrame, stopPhase, photoRunning, workVars, storeVars>>
    BY <1>2 DEF KeyGalleryOpen, Scenes, resultVars, gateVars
  <2>2. \/ galleryThumbnail' = 0 /\ galleryLoadedIndex' = -1
        \/ UNCHANGED <<galleryThumbnail, galleryLoadedIndex>>
    BY <1>2 DEF KeyGalleryOpen
  <2>3. Queues("Load", 0) /\ photoStatus' \in {"Loading", photoStatus}
    <3>1. CASE QueueGallery("Load", 0, galleryPhotoCount, "Loading", photoStatus, Unposted)
      BY <1>0, <3>1, QueuedByKey
    <3>2. CASE UNCHANGED slotVars /\ photoStatus' = photoStatus
      BY <3>2 DEF Queues
    <3> QED
      BY <1>2, <3>1, <3>2 DEF KeyGalleryOpen
  <2>4. photoStatus' \in Statuses
    BY <1>0, <2>3 DEF Statuses
  <2> QED
    BY <2>1, <2>2, <2>3, <2>4, GalleryRequest
<1>3. ASSUME NEW direction \in {-1, 1}, KeyNavigate(direction) PROVE WorkerInv'
  <2> DEFINE index == (galleryIndex + direction + galleryPhotoCount) % galleryPhotoCount
  <2>1. /\ galleryPhotoCount > 0 /\ galleryIndex' = index
        /\ galleryThumbnail' = 0 /\ galleryLoadedIndex' = -1
        /\ UNCHANGED <<scene, galleryPhotoCount, storageReady, savedCount, failedCount,
                       photoInUse, photoFrame, stopPhase, photoRunning, workVars, storeVars>>
    BY <1>3 DEF KeyNavigate, resultVars, gateVars
  <2>2. index \in 0..(galleryPhotoCount - 1)
    BY <1>0, <2>1
  <2> HIDE DEF index
  <2>3. Queues("Load", index) /\ photoStatus' \in {"Loading", photoStatus}
    BY <1>0, <1>3, <2>1, QueuedByKey DEF KeyNavigate
  <2>4. photoStatus' \in Statuses /\ scene' \in Scenes
    BY <1>0, <2>1, <2>3 DEF Statuses
  <2> QED
    BY <1>0, <2>1, <2>2, <2>3, <2>4, GalleryRequest
<1> QED
  BY <1>1, <1>2, <1>3


-----------------------------------------------------------------------------
LEMMA WorkerInit == Init => WorkerInv
<1> SUFFICES ASSUME Init PROVE WorkerInv
  OBVIOUS
<1>1. FlagsOK
  <2>1. photoRunning \in BOOLEAN /\ initialized \in BOOLEAN
    BY Zenon DEF Init
  <2> QED
    BY <2>1, Zenon DEF Init, FlagsOK
<1>2. <<>> \in Seq(Photos) /\ Len(<<>>) = 0
  BY EmptySeq
<1>3. pc \in {"gate", "exited"} /\ (pc = "exited" => ~photoRunning)
  BY DEF Init
<1>4. TypeOK
  BY <1>1, <1>2, <1>3, WorkerAssumption DEF Init, TypeOK, Scenes, Statuses, Jobs, WorkerAssumption
<1>5. SlotInv /\ CountInv /\ ThumbnailInv
  BY <1>1, <1>3 DEF Init, SlotInv, CountInv, ThumbnailInv
<1>6. SaveKeepsItsFrame /\ SavesAreCounted
  BY <1>3 DEF Init, SaveKeepsItsFrame, SavesAreCounted
<1> QED
  BY <1>4, <1>5, <1>6 DEF WorkerInv

LEMMA WorkerStep == WorkerInv /\ [Next]_vars => WorkerInv'
<1> SUFFICES ASSUME WorkerInv, [Next]_vars PROVE WorkerInv'
  OBVIOUS
<1>1. FlagsOK'
  BY FlagsStep DEF WorkerInv, TypeOK
<1>2. CASE UNCHANGED vars
  BY <1>1, <1>2
     DEF vars, uiVars, messageVars, resultVars, slotVars, gateVars, workVars, storeVars, WorkerInv,
         TypeOK, SlotInv, StoreChanged, CountInv, ThumbnailInv, SaveKeepsItsFrame, SavesAreCounted,
         Store!ValidIndex, Store!PhotoAt
<1> QED
  BY <1>1, <1>2, QuietStep, StoreStep, PostStep, PhotoQueuedStep, KeyStep
     DEF Next, UserInterface, PhotoThread

\* However the two threads interleave, WorkerInv holds: who has the slot, what the
\* count, the selection and the thumbnail are worth, and whose photo the buffer is.
THEOREM WorkerInvariant == Spec => []WorkerInv
BY WorkerInit, WorkerStep, PTL DEF Spec

\* Every accepted photo is answered once and with its own picture, whatever request
\* or load comes after it, also when stop() does.
THEOREM SavesGetAnAnswer == Spec => []SavesAreAnswered
<1>1. WorkerInv => SavesAreAnswered
  BY DEF WorkerInv, SavesAreAnswered
<1> QED
  BY <1>1, WorkerInvariant, PTL

\* The thumbnail is the photo its index names.
THEOREM ThumbnailIsRight == Spec => []ThumbnailIsLoadedPhoto
<1>1. WorkerInv => ThumbnailIsLoadedPhoto
  BY DEF WorkerInv, ThumbnailInv, StoreChanged, ThumbnailIsLoadedPhoto
<1> QED
  BY <1>1, WorkerInvariant, PTL

\* Count, selection and queued index agree with the store.
THEOREM IndicesAreRight == Spec => []IndicesAgree
<1>1. WorkerInv => IndicesAgree
  BY DEF WorkerInv, CountInv, StoreChanged, IndicesAgree
<1> QED
  BY <1>1, WorkerInvariant, PTL

-----------------------------------------------------------------------------
(***************************************************************************)
(* The calls into the store.                                               *)
(***************************************************************************)
\* The store is as it was made until the gate opens; storageReady_, late as it is
\* posted, is never set for a store that was not Ready, nor is a job accepted.
ReadyInv ==
  /\ pc \in {"gate", "init"} => storeState = "NotConfigured"
  /\ (storageReady \/ photoPending \/ pc = "execute") =>
       storeState \in {"Ready", "InsufficientSpace"}

\* Steps that do not call the store.
LEMMA NoCall ==
  ASSUME WorkerInv, ReadyInv, [Next]_vars,
         ~InitializeStore, ~ExecuteSave, ~ExecuteDelete
  PROVE  ReadyInv' /\ UNCHANGED storeVars
<1> USE DEF ReadyInv, uiVars, messageVars, resultVars, slotVars, gateVars, workVars, storeVars
<1>1. CASE UNCHANGED vars
  BY <1>1 DEF vars
<1>2. CASE PhotoRefused
  BY <1>2 DEF PhotoRefused
<1>3. CASE KeyRecord \/ ConfigureStorage
  BY <1>3 DEF KeyRecord, ConfigureStorage
<1>4. CASE Stop \/ ProcessThreadJoined \/ ExpireMessage
  BY <1>4 DEF Stop, ProcessThreadJoined, ExpireMessage
<1>5. CASE OpenGate \/ ExitLoop
  BY <1>5 DEF OpenGate, ExitLoop
<1>6. CASE TakeJob \/ ClearSlot
  BY <1>6 DEF TakeJob, ClearSlot
<1>7. CASE ExecuteLoad
  BY <1>7 DEF ExecuteLoad, Executed
<1>8. CASE PostInit
  BY <1>8 DEF PostInit
<1>9. CASE PostSave
  BY <1>9 DEF PostSave
<1>10. CASE PostLoad
  BY <1>10 DEF PostLoad
<1>11. CASE PhotoQueued
  BY <1>11 DEF PhotoQueued
<1>12. ASSUME NEW key, KeyScene(key) PROVE ReadyInv' /\ UNCHANGED storeVars
  BY <1>12 DEF KeyScene
<1>13. ASSUME UNCHANGED <<storageReady, pc, storeState, entries>>, NEW job, NEW index, NEW count,
              NEW accepted, NEW refused, NEW early,
              QueueGallery(job, index, count, accepted, refused, early)
       PROVE  ReadyInv' /\ UNCHANGED storeVars
  BY <1>13 DEF QueueGallery
<1>14. CASE KeyConfirmDelete
  BY <1>13, <1>14 DEF KeyConfirmDelete
<1>15. CASE KeyGalleryOpen
  <2>1. UNCHANGED <<storageReady, pc, storeState, entries>>
    BY <1>15 DEF KeyGalleryOpen
  <2>2. CASE QueueGallery("Load", 0, galleryPhotoCount, "Loading", photoStatus, Unposted)
    BY <1>13, <2>1, <2>2
  <2>3. CASE UNCHANGED slotVars
    BY <2>1, <2>3
  <2> QED
    BY <1>15, <2>2, <2>3 DEF KeyGalleryOpen
<1>16. ASSUME NEW direction, KeyNavigate(direction) PROVE ReadyInv' /\ UNCHANGED storeVars
  BY <1>13, <1>16 DEF KeyNavigate
<1>17. CASE PostDelete
  <2>1. /\ pc' = "wait" /\ UNCHANGED <<storageReady, storeState, entries>>
        /\ QueueGallery("Load", galleryIndex', galleryPhotoCount', "Loading",
                        IF ok THEN "Deleted" ELSE "Failed", FALSE)
    BY <1>17 DEF PostDelete
  <2> QED
    BY <2>1 DEF QueueGallery
<1> QED
  BY <1>1, <1>2, <1>3, <1>4, <1>5, <1>6, <1>7, <1>8, <1>9, <1>10, <1>11, <1>12, <1>14, <1>15,
     <1>16, <1>17 DEF Next, UserInterface, PhotoThread

\* Steps that do.
LEMMA CallStep ==
  ASSUME WorkerInv, ReadyInv, InitializeStore \/ ExecuteSave \/ ExecuteDelete
  PROVE  ReadyInv' /\ Store!Next
<1> USE DEF ReadyInv, slotVars, resultVars
<1>1. CASE InitializeStore
  <2>1. storeState = "NotConfigured" /\ ~storageReady /\ ~photoPending /\ Store!Initialize
    BY <1>1 DEF InitializeStore, WorkerInv, SlotInv
  <2>2. ReadyInv'
    BY <1>1, <2>1 DEF InitializeStore
  <2> QED
    BY <2>1, <2>2 DEF Store!Next
<1>2. CASE ExecuteSave
  <2>1. photoFrame \in Photos
    <3>1. photoFrame = OldPhotos + queued /\ photoFrame \in Photos \cup {0}
      BY <1>2 DEF ExecuteSave, WorkerInv, SaveKeepsItsFrame, TypeOK
    <3>2. queued >= 1
      BY <1>2, WorkerAssumption
         DEF ExecuteSave, WorkerInv, SavesAreCounted, TypeOK, SlotInv, WorkerAssumption
    <3> QED
      BY <3>1, <3>2, WorkerAssumption DEF WorkerInv, TypeOK, WorkerAssumption
  <2>2. PICK success \in BOOLEAN : Store!SavePhoto(photoFrame, success)
    BY <1>2 DEF ExecuteSave
  <2>3. ReadyInv'
    BY <1>2, <2>2 DEF ExecuteSave, Executed, Store!SavePhoto, Store!vars
  <2> QED
    BY <2>1, <2>2, <2>3 DEF Store!Next
<1>3. CASE ExecuteDelete
  <2>1. storeState \in {"Ready", "InsufficientSpace"} /\ taken.index \in 0..MaxEntries
    BY <1>3 DEF ExecuteDelete, WorkerInv, TypeOK
  <2>2. PICK success \in BOOLEAN : Store!DeletePhoto(taken.index, success)
    BY <1>3 DEF ExecuteDelete
  <2>3. ReadyInv'
    BY <1>3, <2>2 DEF ExecuteDelete, Executed, Store!DeletePhoto, Store!vars
  <2> QED
    BY <2>1, <2>2, <2>3 DEF Store!Next
<1> QED
  BY <1>1, <1>2, <1>3

\* The photo thread calls its store in the order the store needs: what PhotoStore
\* is written for, and proves its answers for.
THEOREM StoreIsCalledInOrder == Spec => StoreIsCalledReady
<1>1. Init => Store!Init /\ ReadyInv
  BY DEF Init, Store!Init, ReadyInv
<1>2. WorkerInv /\ ReadyInv /\ [Next]_vars => ReadyInv' /\ [Store!Next]_(Store!vars)
  BY NoCall, CallStep DEF Store!vars, storeVars
<1> QED
  BY <1>1, <1>2, WorkerInvariant, PTL DEF Spec, StoreIsCalledReady, Store!Spec

=============================================================================
