----------------------- MODULE MCDeleteConfirmation ------------------------
(* PhotoWorker with three history variables for one promise of the README:  *)
(* which photo was selected and on the screen when the delete dialog opened *)
(* (0 if the screen did not show the selected one, as it may after a        *)
(* refused load), for which of them a delete was confirmed last, and which  *)
(* photo that delete has removed from the store.                            *)
EXTENDS PhotoWorker, FiniteSets

VARIABLES offered, confirmed, removed
historyVars == <<offered, confirmed, removed>>

\* The selected photo, if it is the one on the screen.
OnScreen ==
  IF Store!ValidIndex(galleryIndex) /\ Store!PhotoAt(galleryIndex) = galleryThumbnail
    THEN galleryThumbnail ELSE 0
DialogOpens == scene # "DeleteConfirm" /\ scene' = "DeleteConfirm"
DeleteQueued == ~photoPending /\ photoPending' /\ photoJob' = "Delete"
StoreShrinks == Len(entries') < Len(entries)
Stored(photos) == {photos[i] : i \in DOMAIN photos}

HistoryInit == Init /\ offered = 0 /\ confirmed = 0 /\ removed = 0

HistoryNext ==
  /\ Next
  /\ offered' = IF DialogOpens THEN OnScreen ELSE offered
  /\ confirmed' = IF DeleteQueued THEN offered ELSE confirmed
  /\ removed' = IF DeleteQueued THEN 0
                ELSE IF StoreShrinks THEN CHOOSE p \in Stored(entries) : p \notin Stored(entries')
                ELSE removed

HistorySpec == HistoryInit /\ [][HistoryNext]_<<vars, historyVars>>

\* README: "Delete requires confirmation and removes only the selected
\* derivative": what a confirmed delete removes is the photo that was selected
\* and shown when its dialog opened.
DeleteRemovesAskedPhoto == confirmed # 0 /\ removed # 0 => removed = confirmed
============================================================================
