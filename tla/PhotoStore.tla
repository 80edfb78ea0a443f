----------------------------- MODULE PhotoStore -----------------------------
(***************************************************************************)
(* PhotoStore's files: the JPEG, sidecar and thumbnail of each photo, the  *)
(* gallery index, and the temporary file each of them goes through.  The   *)
(* photo thread is the only caller, so calls do not interleave; what       *)
(* interrupts them is an input/output error or the end of the process,     *)
(* which keeps the files and forgets the memory, between any two calls to  *)
(* the file system.                                                        *)
(*                                                                         *)
(* A photo is the number of the save that makes it, which stands for its   *)
(* file name: names are taken to be distinct.  A final file is complete    *)
(* (flushAndClose before the rename), so a file is present or absent.      *)
(***************************************************************************)
EXTENDS Integers, Sequences, FiniteSets

CONSTANTS
  MaxEntries,  \* kMaxPhotoEntries
  MaxPhotos,   \* bound: saves attempted
  MaxEdits,    \* bound: times the card is edited outside the program
  MTime        \* the modification time of a photo's JPEG, by photo

Photos == 1..MaxPhotos
FileKinds == {"jpeg", "sidecar", "thumb"}

ASSUME StoreAssumption ==
  /\ MaxEntries \in Nat \ {0}
  /\ MaxPhotos \in Nat \ {0}
  /\ MaxEdits \in Nat
  /\ MTime \in [Photos -> Nat]

VARIABLES
  \* the card
  files,       \* for each kind, the photos whose final file exists
  temporary,   \* the kinds of which a .tmp file exists, "index" included
  index,       \* index.txt, oldest photo first ...
  indexState,  \* ... "intact", "missing" or "malformed"
  \* the process
  pc, op, stage,
  photo,       \* the photo being saved or deleted
  entries,     \* entries_
  previous,    \* previousEntries, for a failed saveIndex
  doomed,      \* the files the current call has yet to unlink
  result,      \* what the call is about to return
  storageState,
  \* counting and history
  saves,       \* saves attempted: the last photo number used
  edits,       \* times the card was edited
  edited,      \* the card was edited since the store was last Ready
  littered,    \* something could not be tidied: an interruption, an unlink, an edit
  newest       \* the last photo that reached the index

cardVars == <<files, temporary, index, indexState>>
callVars == <<pc, op, stage, photo, entries, previous, doomed, result, storageState>>
historyVars == <<saves, edits, edited, littered, newest>>
vars == <<cardVars, callVars, historyVars>>

-----------------------------------------------------------------------------
Elements(s) == {s[i] : i \in DOMAIN s}

\* validateEntry
Complete(p) == \A kind \in FileKinds : p \in files[kind]

File(kind, p) == [kind |-> kind, photo |-> p]
FilesOf(p) == <<File("jpeg", p), File("sidecar", p), File("thumb", p)>>

\* The shift loops of deletePhoto and of addEntry.
Without(s, i) == [j \in 1..(Len(s) - 1) |-> IF j < i THEN s[j] ELSE s[j + 1]]
Kept(s) == IF Len(s) = MaxEntries THEN Tail(s) ELSE s

\* rebuildIndex: the newest complete sets, by time; directory order and equal
\* times leave the rest open.
IsRebuilt(s) ==
  LET complete == {p \in files["jpeg"] : Complete(p)}
  IN /\ Elements(s) \subseteq complete
     /\ \A i, j \in DOMAIN s : s[i] = s[j] => i = j
     /\ Len(s) = MaxEntries \/ Elements(s) = complete
     /\ \A p \in Elements(s), q \in complete \ Elements(s) : MTime[q] <= MTime[p]
     /\ \A i, j \in DOMAIN s : i < j => MTime[s[i]] <= MTime[s[j]]
Lists == UNION {[1..n -> Photos] : n \in 0..MaxEntries}

-----------------------------------------------------------------------------
Init ==
  /\ files = [kind \in FileKinds |-> {}] /\ temporary = {}
  /\ index = <<>> /\ indexState = "missing"
  /\ pc = "off" /\ op = "none" /\ stage = "jpeg" /\ photo = 0
  /\ entries = <<>> /\ previous = <<>> /\ doomed = <<>> /\ result = FALSE
  /\ storageState = "NotConfigured"
  /\ saves = 0 /\ edits = 0 /\ edited = FALSE /\ littered = FALSE /\ newest = 0

(***************************************************************************)
(* initialize()                                                            *)
(***************************************************************************)
Start ==
  /\ pc = "off"
  /\ pc' = "clean"
  /\ UNCHANGED <<cardVars, op, stage, photo, entries, previous, doomed, result, storageState,
                 historyVars>>

\* No usable root, directory, space or write probe.
InitializeFails ==
  /\ pc = "clean"
  /\ storageState' = "Unusable" /\ pc' = "idle"
  /\ UNCHANGED <<cardVars, op, stage, photo, entries, previous, doomed, result, historyVars>>

\* cleanTemporaryFiles looks at a bounded number of names and ignores errors.
CleanTemporaryFiles ==
  /\ pc = "clean"
  /\ temporary' \in SUBSET temporary
  /\ pc' = "load"
  /\ UNCHANGED <<files, index, indexState, op, stage, photo, entries, previous, doomed, result,
                 storageState, historyVars>>

Readied ==
  /\ storageState' = "Ready" /\ pc' = "idle" /\ op' = "none"
  /\ edited' = FALSE

NeedsRebuild_ifMissing == indexState = "missing"   \* mutant: entries are not validated
NeedsRebuild == indexState # "intact" \/ \E p \in Elements(index) : ~Complete(p)

LoadIndex ==
  /\ pc = "load" /\ ~NeedsRebuild
  /\ entries' = index
  /\ Readied
  /\ UNCHANGED <<cardVars, stage, photo, previous, doomed, result, saves, edits, littered, newest>>

\* The entries a rebuild finds go through saveIndex like any others.
RebuildIndex ==
  /\ pc = "load" /\ NeedsRebuild
  /\ \/ /\ entries' \in Lists /\ IsRebuilt(entries')
        /\ op' = "rebuild" /\ stage' = "index" /\ pc' = "write"
        /\ UNCHANGED storageState
     \/ /\ entries' = <<>> /\ storageState' = "IndexFailed" /\ pc' = "idle"
        /\ UNCHANGED <<op, stage>>
  /\ UNCHANGED <<cardVars, photo, previous, doomed, result, historyVars>>

(***************************************************************************)
(* savePhoto() and deletePhoto()                                           *)
(***************************************************************************)
\* Refused outright, or for lack of space: then for as long as the process lives.
SaveRefused ==
  /\ pc = "idle" /\ storageState = "Ready"
  /\ storageState' = "InsufficientSpace"
  /\ UNCHANGED <<cardVars, pc, op, stage, photo, entries, previous, doomed, result, historyVars>>

SaveBegins ==
  /\ pc = "idle" /\ storageState = "Ready" /\ saves < MaxPhotos
  /\ saves' = saves + 1
  /\ photo' = saves + 1
  /\ op' = "save" /\ stage' = "jpeg" /\ pc' = "write"
  /\ UNCHANGED <<cardVars, entries, previous, doomed, result, storageState, edits, edited,
                 littered, newest>>

DeleteBegins ==
  /\ pc = "idle" /\ storageState \in {"Ready", "InsufficientSpace"}
  /\ \E i \in 1..Len(entries) :
       /\ photo' = entries[i]
       /\ entries' = Without(entries, i)
  /\ previous' = entries
  /\ op' = "delete" /\ stage' = "index" /\ pc' = "write"
  /\ UNCHANGED <<cardVars, doomed, result, storageState, historyVars>>

\* What a failure at this stage has to undo: the final files written before.
WrittenBefore_keepsJpeg(failedStage) ==   \* mutant: the JPEG of a failed save stays
  CASE failedStage = "jpeg"    -> <<>>
    [] failedStage = "sidecar" -> <<>>
    [] failedStage = "thumb"   -> <<File("sidecar", photo)>>
    [] failedStage = "index"   -> <<File("thumb", photo), File("sidecar", photo)>>
WrittenBefore(failedStage) ==
  CASE failedStage = "jpeg"    -> <<>>
    [] failedStage = "sidecar" -> <<File("jpeg", photo)>>
    [] failedStage = "thumb"   -> <<File("sidecar", photo), File("jpeg", photo)>>
    [] failedStage = "index"   ->
         <<File("thumb", photo), File("sidecar", photo), File("jpeg", photo)>>

\* saveIndex failed: the entries go back to what they were.
EntriesAfterFailure_kept == entries     \* mutant: no memcpy back
EntriesAfterFailure == IF stage = "index" THEN previous ELSE entries

\* A write, a flush or a rename failed, and the temporary file is removed, unless
\* that fails too.  When it cannot even be opened, one left there before stays.
StageFails ==
  /\ pc \in {"write", "rename"}
  /\ \/ temporary' = temporary \ {stage} /\ UNCHANGED littered
     \/ pc = "write" /\ UNCHANGED <<temporary, littered>>
     \/ temporary' = temporary \cup {stage} /\ littered' = TRUE
  /\ IF op = "rebuild"
       THEN /\ storageState' = "IndexFailed" /\ pc' = "idle" /\ op' = "none"
            /\ UNCHANGED <<entries, doomed>>
       ELSE /\ entries' = EntriesAfterFailure
            /\ doomed' = IF op = "save" THEN WrittenBefore(stage) ELSE <<>>
            /\ pc' = "unlink"
            /\ UNCHANGED <<storageState, op>>
  /\ UNCHANGED <<files, index, indexState, stage, photo, previous, result, saves, edits, edited,
                 newest>>

WriteTemporary ==
  /\ pc = "write"
  /\ temporary' = temporary \cup {stage}
  /\ pc' = "rename"
  /\ UNCHANGED <<files, index, indexState, op, stage, photo, entries, previous, doomed, result,
                 storageState, historyVars>>

RenameFile ==
  /\ pc = "rename" /\ stage \in FileKinds
  /\ temporary' = temporary \ {stage}
  /\ files' = [files EXCEPT ![stage] = @ \cup {photo}]
  /\ pc' = "write"
  /\ IF stage = "thumb"
       THEN /\ stage' = "index"
            /\ previous' = entries
            /\ entries' = Append(Kept(entries), photo)
       ELSE /\ stage' = IF stage = "jpeg" THEN "sidecar" ELSE "thumb"
            /\ UNCHANGED <<previous, entries>>
  /\ UNCHANGED <<index, indexState, op, photo, doomed, result, storageState, historyVars>>

\* The files that have no index entry any more.
Leftover ==
  CASE op = "delete" -> FilesOf(photo)
    [] op = "save" /\ Len(previous) = MaxEntries -> FilesOf(previous[1])
    [] OTHER -> <<>>

RenameIndex ==
  /\ pc = "rename" /\ stage = "index"
  /\ temporary' = temporary \ {stage}
  /\ index' = entries /\ indexState' = "intact"
  /\ newest' = IF op = "save" THEN photo ELSE newest
  /\ IF op = "rebuild"
       THEN Readied /\ UNCHANGED <<doomed, result>>
       ELSE /\ doomed' = Leftover /\ result' = TRUE /\ pc' = "unlink"
            /\ UNCHANGED <<op, storageState, edited>>
  /\ UNCHANGED <<files, stage, photo, entries, previous, saves, edits, littered>>

\* unlink() of one file after the other; an error is not acted on, and only that
\* of the JPEG of a deleted photo is told to the caller.
Unlink ==
  /\ pc = "unlink" /\ doomed # <<>>
  /\ \/ /\ files' = [files EXCEPT ![Head(doomed).kind] = @ \ {Head(doomed).photo}]
        /\ UNCHANGED <<littered, result>>
     \/ /\ littered' = TRUE /\ UNCHANGED files
        /\ result' = (result /\ (op = "save" \/ Head(doomed).kind # "jpeg"))
  /\ doomed' = Tail(doomed)
  /\ UNCHANGED <<temporary, index, indexState, pc, op, stage, photo, entries, previous,
                 storageState, saves, edits, edited, newest>>

CallReturns ==
  /\ pc = "unlink" /\ doomed = <<>>
  /\ pc' = "idle" /\ op' = "none" /\ result' = FALSE
  /\ UNCHANGED <<cardVars, stage, photo, entries, previous, doomed, storageState, historyVars>>

(***************************************************************************)
(* The rest of the world.                                                  *)
(***************************************************************************)
\* The process ends: stopped, killed, or the camera switched off.
ProcessEnds ==
  /\ pc # "off"
  /\ pc' = "off" /\ op' = "none"
  /\ entries' = <<>> /\ previous' = <<>> /\ doomed' = <<>> /\ result' = FALSE
  /\ storageState' = "NotConfigured"
  /\ littered' = (littered \/ pc \in {"write", "rename", "unlink"})
  /\ UNCHANGED <<cardVars, stage, photo, saves, edits, edited, newest>>

\* The card is edited elsewhere: a file of a photo or the index is lost, or
\* the index is damaged.
EditCard ==
  /\ pc = "off" /\ edits < MaxEdits
  /\ edits' = edits + 1 /\ edited' = TRUE /\ littered' = TRUE
  /\ \/ \E kind \in FileKinds : \E p \in files[kind] :
          files' = [files EXCEPT ![kind] = @ \ {p}] /\ UNCHANGED indexState
     \/ indexState' \in {"missing", "malformed"} /\ UNCHANGED files
  /\ UNCHANGED <<temporary, index, callVars, saves, newest>>

-----------------------------------------------------------------------------
Next ==
  \/ Start
  \/ InitializeFails
  \/ CleanTemporaryFiles
  \/ LoadIndex
  \/ RebuildIndex
  \/ SaveRefused
  \/ SaveBegins
  \/ DeleteBegins
  \/ StageFails
  \/ WriteTemporary
  \/ RenameFile
  \/ RenameIndex
  \/ Unlink
  \/ CallReturns
  \/ ProcessEnds
  \/ EditCard

Spec == Init /\ [][Next]_vars

-----------------------------------------------------------------------------
(***************************************************************************)
(* Properties.                                                             *)
(***************************************************************************)
\* The card and the store's variables keep their types, and the index its bound.
TypeOK ==
  /\ files \in [FileKinds -> SUBSET Photos]
  /\ temporary \subseteq FileKinds \cup {"index"}
  /\ index \in Seq(Photos) /\ Len(index) <= MaxEntries
  /\ indexState \in {"intact", "missing", "malformed"}
  /\ pc \in {"off", "clean", "load", "idle", "write", "rename", "unlink"}
  /\ op \in {"none", "rebuild", "save", "delete"}
  /\ stage \in FileKinds \cup {"index"}
  /\ photo \in Photos \cup {0}
  /\ entries \in Seq(Photos) /\ Len(entries) <= MaxEntries
  /\ previous \in Seq(Photos) /\ Len(previous) <= MaxEntries
  /\ doomed \in Seq([kind: FileKinds, photo: Photos]) /\ result \in BOOLEAN
  /\ storageState \in {"NotConfigured", "Unusable", "IndexFailed", "Ready", "InsufficientSpace"}
  /\ saves \in 0..MaxPhotos /\ edits \in Nat /\ edited \in BOOLEAN /\ littered \in BOOLEAN
  /\ newest \in 0..MaxPhotos

\* Wherever the process ends, the index on the card names complete sets only:
\* files come before their entry and entries go before their files.
IndexNamesCompleteSets == edited \/ \A p \in Elements(index) : Complete(p)

\* Between calls a usable store shows exactly what a restart would find, and
\* nothing else is on the card: a save that failed leaves nothing behind, a
\* deleted or evicted photo leaves nothing either, as long as nothing kept the
\* store from tidying up.
CardAndMemoryAgree ==
  /\ TypeOK
  /\ (pc = "idle" /\ storageState \in {"Ready", "InsufficientSpace"}) =>
       /\ entries = index /\ indexState = "intact"
       /\ littered \/ (temporary = {} /\ \A kind \in FileKinds : files[kind] = Elements(entries))

\* The store implements the gallery it promises, process ends included, for as
\* long as nobody else edits the card, and again from the next Ready on.
FoundOnCard == INSTANCE Gallery WITH gallery <- index
ImplementsGallery ==
  FoundOnCard!Init /\ [][edited \/ edited' \/ FoundOnCard!Next]_<<index, newest>>

\* The caller is blocked in its call: it sees the entries of before until it returns.
Visible ==
  IF storageState = "NotConfigured" THEN <<>>
  ELSE IF op # "none" /\ stage = "index" THEN previous ELSE entries
Calls == INSTANCE StoreCalls WITH
  entries <- Visible, Found <- {s \in Lists : \A i, j \in DOMAIN s : s[i] = s[j] => i = j}

\* A call has done what it answers: TRUE is a photo saved or deleted for good, and
\* FALSE a gallery as it was, but for a deletion that lost only its entry.  Nothing
\* but a call, an initialization or the end of the process changes what is seen.
Answered ==
  \/ op = "save" /\ Calls!SavePhoto(photo, result)
  \/ /\ op = "delete"
     /\ \E i \in 0..MaxEntries :
          Calls!ValidIndex(i) /\ photo = Calls!PhotoAt(i) /\ Calls!DeletePhoto(i, result)
CallsDoAsAnswered ==
  /\ Calls!Init
  /\ [][CallReturns => Answered]_vars
  /\ [][CallReturns \/ Calls!Next]_<<storageState, Visible>>

=============================================================================
