----------------------------- MODULE StoreCalls -----------------------------
(***************************************************************************)
(* The photo store as its one caller sees it: what a call may answer, and  *)
(* what it has then done to the photos the store shows.  PhotoStore        *)
(* implements it file by file, PhotoWorker is written upon it.             *)
(***************************************************************************)
EXTENDS Integers, Sequences

CONSTANTS
  MaxEntries,  \* kMaxPhotoEntries
  Photos,
  Found        \* the lists that an initialization may find on the card

VARIABLES storageState, entries
vars == <<storageState, entries>>

Init == storageState = "NotConfigured" /\ entries = <<>>

\* An index that cannot be written leaves behind what was found, or nothing if
\* the card could not even be read.
Initialize ==
  \/ storageState' = "Ready" /\ entries' \in Found
  \/ storageState' = "IndexFailed" /\ entries' \in Found \cup {<<>>}
  \/ storageState' = "Unusable" /\ entries' = <<>>

\* The oldest entry makes room.
WithEntry(photo) == Append(IF Len(entries) = MaxEntries THEN Tail(entries) ELSE entries, photo)

SavePhoto(photo, answer) ==
  \/ /\ answer = TRUE
     /\ storageState = "Ready" /\ entries' = WithEntry(photo) /\ UNCHANGED storageState
  \/ answer = FALSE /\ UNCHANGED vars
  \/ /\ answer = FALSE
     /\ storageState = "Ready" /\ storageState' = "InsufficientSpace" /\ UNCHANGED entries

\* storageIndex: callers count from the newest photo, the store from the oldest.
ValidIndex(newestIndex) == newestIndex \in 0..(Len(entries) - 1)
PhotoAt(newestIndex) == entries[Len(entries) - newestIndex]
WithoutEntry(i) == SubSeq(entries, 1, i - 1) \o SubSeq(entries, i + 1, Len(entries))

\* The entry is gone once the index is rewritten, whether or not its files are.
DeletePhoto(newestIndex, answer) ==
  \/ /\ answer \in BOOLEAN /\ ValidIndex(newestIndex)
     /\ entries' = WithoutEntry(Len(entries) - newestIndex) /\ UNCHANGED storageState
  \/ answer = FALSE /\ UNCHANGED vars

\* The process ends and the memory of it.
Forget == storageState' = "NotConfigured" /\ entries' = <<>>

\* What the caller has to see to: one initialization, and no deletion from a
\* store that never was Ready, which deletePhoto itself does not check.
Next ==
  \/ storageState = "NotConfigured" /\ Initialize
  \/ \E photo \in Photos, answer \in BOOLEAN : SavePhoto(photo, answer)
  \/ /\ storageState \in {"Ready", "InsufficientSpace"}
     /\ \E i \in 0..MaxEntries, answer \in BOOLEAN : DeletePhoto(i, answer)
  \/ Forget

Spec == Init /\ [][Next]_vars
=============================================================================
