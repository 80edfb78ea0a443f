-------------------------- MODULE PhotoStoreProofs --------------------------
(***************************************************************************)
(* Proofs about the photo store, for any capacity, any number of photos    *)
(* and of edits, and any modification times: wherever the process ends,    *)
(* the index on the card names complete sets; between calls the store in   *)
(* memory is the one on the card; and the store implements Gallery.        *)
(***************************************************************************)
EXTENDS PhotoStore, Functions, SequenceTheorems, TLAPS

-----------------------------------------------------------------------------
(***************************************************************************)
(* The invariant.                                                          *)
(***************************************************************************)
Usable == storageState \in {"Ready", "InsufficientSpace"}
Writing == pc \in {"write", "rename"}

\* Which call the store is in, and what every call may take for granted.
CallInv ==
  /\ pc \in {"off", "clean", "load", "idle"} => op = "none"
  /\ pc \in {"off", "clean", "load"} \/ op = "rebuild" => storageState = "NotConfigured"
  /\ Writing => op # "none"
  /\ op \in {"save", "delete"} => Usable
  /\ pc = "unlink" => op \in {"save", "delete"}
  /\ op \in {"rebuild", "delete"} => stage = "index"
  /\ op = "save" => photo = saves /\ saves # 0
  /\ Usable => ~edited /\ indexState = "intact"
  /\ Usable /\ pc \in {"idle", "unlink"} => entries = index

\* The index names each photo once, only photos that were made, and complete ones.
\* Until something wrote it, there is nothing on the card.
IndexInv ==
  /\ IsInjective(index) /\ Elements(index) \subseteq 1..saves /\ newest <= saves
  /\ \A kind \in FileKinds : files[kind] \subseteq 1..saves
  /\ edited \/ \A p \in Elements(index) : Complete(p)
  /\ (indexState # "intact" /\ ~edited) =>
       index = <<>> /\ \A kind \in FileKinds : files[kind] = {}

\* The kinds of file that were written before a stage.
Before(aStage) ==
  CASE aStage = "jpeg"    -> {}
    [] aStage = "sidecar" -> {"jpeg"}
    [] aStage = "thumb"   -> {"jpeg", "sidecar"}
    [] aStage = "index"   -> FileKinds

\* What the index is about to become: the same photos, found again, or one less, or
\* one more whose files are all there by then.
RebuildInv ==
  (Writing /\ op = "rebuild") =>
    /\ IsInjective(entries) /\ \A p \in Elements(entries) : Complete(p)
    /\ edited \/ entries = index

DeleteInv ==
  (Writing /\ op = "delete") =>
    /\ previous = index
    /\ \E i \in 1..Len(previous) : entries = Without(previous, i) /\ photo = previous[i]

SaveInv ==
  (Writing /\ op = "save") =>
    /\ newest < photo /\ photo \notin Elements(index)
    /\ \A kind \in Before(stage) : photo \in files[kind]
    /\ IF stage = "index" THEN previous = index /\ entries = Append(Kept(previous), photo)
                          ELSE entries = index

\* What is unlinked is not in the index.
UnlinkInv ==
  pc = "unlink" =>
    /\ IsInjective(doomed)
    /\ \A d \in Elements(doomed) : d.photo \notin Elements(index)

\* The photos whose file of one kind is among these.
PhotosOf(records, kind) == {d.photo : d \in {e \in records : e.kind = kind}}

\* The files there are beside those of the photos in the index.
Extra(kind) ==
  IF pc = "unlink" THEN PhotosOf(Elements(doomed), kind)
  ELSE IF Writing /\ op = "save" /\ kind \in Before(stage) THEN {photo}
  ELSE {}

TidyInv ==
  littered \/
    /\ ~edited
    /\ temporary = IF pc = "rename" THEN {stage} ELSE {}
    /\ \A kind \in FileKinds : files[kind] = Elements(index) \cup Extra(kind)

StoreInv ==
  /\ TypeOK /\ CallInv /\ IndexInv
  /\ RebuildInv /\ DeleteInv /\ SaveInv /\ UnlinkInv
  /\ TidyInv

-----------------------------------------------------------------------------
(***************************************************************************)
(* Sequences without repetition.                                           *)
(***************************************************************************)
LEMMA AppendElements ==
  ASSUME NEW S, NEW s \in Seq(S), NEW e \in S
  PROVE  /\ Append(s, e) \in Seq(S) /\ Len(Append(s, e)) = Len(s) + 1
         /\ Elements(Append(s, e)) = Elements(s) \cup {e}
         /\ IsInjective(s) /\ e \notin Elements(s) => IsInjective(Append(s, e))
<1> DEFINE t == Append(s, e)
<1>1. t \in Seq(S) /\ DOMAIN t = 1..(Len(s) + 1) /\ DOMAIN s = 1..Len(s) /\ Len(s) \in Nat
  BY AppendProperties, LenProperties
<1>2. (\A i \in 1..Len(s) : t[i] = s[i]) /\ t[Len(s) + 1] = e
  BY AppendProperties
<1> HIDE DEF t
<1>3. Elements(t) = Elements(s) \cup {e}
  BY <1>1, <1>2 DEF Elements
<1>4. ASSUME IsInjective(s), e \notin Elements(s) PROVE IsInjective(t)
  BY <1>1, <1>2, <1>4 DEF IsInjective, Elements
<1> QED
  BY <1>1, <1>3, <1>4, AppendProperties DEF t

LEMMA TailElements ==
  ASSUME NEW S, NEW s \in Seq(S), s # <<>>, IsInjective(s)
  PROVE  /\ Tail(s) \in Seq(S) /\ Len(Tail(s)) = Len(s) - 1
         /\ Elements(Tail(s)) = Elements(s) \ {s[1]} /\ IsInjective(Tail(s))
         /\ 1 \in DOMAIN s /\ Head(s) = s[1]
<1> DEFINE t == Tail(s)
<1>1. /\ t \in Seq(S) /\ DOMAIN t = 1..(Len(s) - 1) /\ DOMAIN s = 1..Len(s)
      /\ Len(s) \in Nat \ {0} /\ Len(t) = Len(s) - 1 /\ Head(s) = s[1]
  BY HeadTailProperties, LenProperties, EmptySeq
<1>2. \A i \in 1..(Len(s) - 1) : t[i] = s[i + 1]
  BY <1>1, HeadTailProperties
<1> HIDE DEF t
<1>3. Elements(t) = Elements(s) \ {s[1]}
  <2>1. ASSUME NEW j \in DOMAIN t PROVE j + 1 \in DOMAIN s /\ t[j] = s[j + 1] /\ s[j + 1] # s[1]
    BY <1>1, <1>2 DEF IsInjective
  <2>2. ASSUME NEW j \in DOMAIN s, j # 1 PROVE j - 1 \in DOMAIN t /\ s[j] = t[j - 1]
    BY <1>1, <1>2, <2>2
  <2> QED
    BY <2>1, <2>2 DEF Elements
<1>4. IsInjective(t)
  <2> SUFFICES ASSUME NEW j \in DOMAIN t, NEW k \in DOMAIN t, t[j] = t[k] PROVE j = k
    BY DEF IsInjective
  <2>1. j + 1 \in DOMAIN s /\ k + 1 \in DOMAIN s /\ s[j + 1] = s[k + 1]
    BY <1>1, <1>2
  <2>2. j + 1 = k + 1
    BY <2>1 DEF IsInjective
  <2> QED
    BY <1>1, <2>2
<1> QED
  BY <1>1, <1>3, <1>4 DEF t

LEMMA WithoutElements ==
  ASSUME NEW S, NEW s \in Seq(S), IsInjective(s), NEW i \in 1..Len(s)
  PROVE  /\ Without(s, i) \in Seq(S) /\ Len(Without(s, i)) = Len(s) - 1
         /\ Elements(Without(s, i)) = Elements(s) \ {s[i]} /\ IsInjective(Without(s, i))
<1> DEFINE t == Without(s, i)
<1>0. Len(s) \in Nat /\ DOMAIN s = 1..Len(s) /\ \A j \in 1..Len(s) : s[j] \in S
  BY LenProperties, ElementOfSeq
<1>1. t \in Seq(S) /\ Len(t) = Len(s) - 1 /\ DOMAIN t = 1..(Len(s) - 1)
  BY <1>0 DEF Without
<1>2. \A j \in 1..(Len(s) - 1) : t[j] = IF j < i THEN s[j] ELSE s[j + 1]
  BY DEF Without
<1> HIDE DEF t
<1>3. Elements(t) = Elements(s) \ {s[i]}
  <2>1. ASSUME NEW j \in DOMAIN t PROVE \E k \in DOMAIN s : k # i /\ t[j] = s[k]
    BY <1>0, <1>1, <1>2
  <2>2. ASSUME NEW k \in DOMAIN s, k # i PROVE \E j \in DOMAIN t : s[k] = t[j]
    <3>1. CASE k < i
      BY <1>0, <1>1, <1>2, <3>1
    <3>2. CASE i < k
      <4>1. k - 1 \in DOMAIN t /\ t[k - 1] = s[k]
        BY <1>0, <1>1, <1>2, <3>2
      <4> QED
        BY <4>1
    <3> QED
      BY <1>0, <2>2, <3>1, <3>2
  <2>3. \A k \in DOMAIN s : s[k] = s[i] => k = i
    BY <1>0 DEF IsInjective
  <2> QED
    BY <2>1, <2>2, <2>3 DEF Elements
<1>4. IsInjective(t)
  BY <1>0, <1>1, <1>2, SMTT(30) DEF IsInjective
<1> QED
  BY <1>1, <1>3, <1>4 DEF t

\* The shift loop of the store is the gallery's removal.
LEMMA WithoutIsRemoval ==
  ASSUME NEW S, NEW s \in Seq(S), NEW i \in 1..Len(s)
  PROVE  Without(s, i) = SubSeq(s, 1, i - 1) \o SubSeq(s, i + 1, Len(s))
<1> DEFINE a == SubSeq(s, 1, i - 1)
           b == SubSeq(s, i + 1, Len(s))
           t == Without(s, i)
<1>0. Len(s) \in Nat /\ \A j \in 1..Len(s) : s[j] \in S
  BY LenProperties, ElementOfSeq
<1>1. /\ a \in Seq(S) /\ Len(a) = i - 1
      /\ \A j \in 1..(i - 1) : a[j] = s[j]
  BY <1>0, SubSeqProperties
<1>2. /\ b \in Seq(S) /\ Len(b) = Len(s) - i
      /\ \A j \in 1..(Len(s) - i) : b[j] = s[i + j]
  BY <1>0, SubSeqProperties
<1>3. /\ t \in Seq(S) /\ Len(t) = Len(s) - 1
      /\ \A j \in 1..(Len(s) - 1) : t[j] = IF j < i THEN s[j] ELSE s[j + 1]
  BY <1>0 DEF Without
<1> HIDE DEF a, b, t
<1>4. /\ a \o b \in Seq(S) /\ Len(a \o b) = Len(s) - 1
      /\ \A j \in 1..(Len(s) - 1) : (a \o b)[j] = IF j <= i - 1 THEN a[j] ELSE b[j - (i - 1)]
  <2>1. /\ a \o b \in Seq(S) /\ Len(a \o b) = Len(a) + Len(b)
        /\ \A j \in 1..(Len(a) + Len(b)) :
             (a \o b)[j] = IF j <= Len(a) THEN a[j] ELSE b[j - Len(a)]
    BY <1>1, <1>2, ConcatProperties
  <2>2. Len(a) + Len(b) = Len(s) - 1
    BY <1>0, <1>1, <1>2
  <2> QED
    BY <1>1, <2>1, <2>2
<1>5. ASSUME NEW j \in 1..(Len(s) - 1) PROVE t[j] = (a \o b)[j]
  BY <1>0, <1>1, <1>2, <1>3, <1>4
<1> QED
  BY <1>3, <1>4, <1>5, SeqEqual DEF a, b, t

LEMMA ListIsSequence ==
  ASSUME NEW s \in Lists
  PROVE  s \in Seq(Photos) /\ Len(s) <= MaxEntries
BY StoreAssumption DEF Lists, StoreAssumption

LEMMA NothingInEmpty == Elements(<<>>) = {} /\ IsInjective(<<>>)
BY DEF Elements, IsInjective

LEMMA EmptyIfNothing ==
  ASSUME NEW S, NEW s \in Seq(S), Elements(s) = {}
  PROVE  s = <<>>
<1>1. Len(s) \in Nat /\ DOMAIN s = 1..Len(s)
  BY LenProperties
<1>2. ~(1 \in DOMAIN s)
  BY DEF Elements
<1> QED
  BY <1>1, <1>2, EmptySeq

-----------------------------------------------------------------------------
(***************************************************************************)
(* The files of one photo, as the list of what to unlink.                  *)
(***************************************************************************)
FileRecord == [kind: FileKinds, photo: Photos]
FilesFor(kinds, p) == {File(kind, p) : kind \in kinds}

LEMMA FilesOfPhoto ==
  ASSUME NEW p \in Photos
  PROVE  /\ FilesOf(p) \in Seq(FileRecord) /\ IsInjective(FilesOf(p))
         /\ Elements(FilesOf(p)) = FilesFor(FileKinds, p)
<1>1. FilesOf(p) \in Seq(FileRecord)
  BY DEF FilesOf, File, FileRecord, FileKinds
<1>2. IsInjective(FilesOf(p))
  BY DEF FilesOf, File, IsInjective
<1>3. Elements(FilesOf(p)) = FilesFor(FileKinds, p)
  BY DEF FilesOf, FileKinds, Elements, FilesFor
<1> QED
  BY <1>1, <1>2, <1>3

LEMMA WrittenFiles ==
  ASSUME photo \in Photos, NEW aStage \in FileKinds \cup {"index"}
  PROVE  /\ WrittenBefore(aStage) \in Seq(FileRecord) /\ IsInjective(WrittenBefore(aStage))
         /\ Elements(WrittenBefore(aStage)) = FilesFor(Before(aStage), photo)
<1> USE DEF WrittenBefore, Before, FileKinds
<1>1. CASE aStage = "jpeg"
  BY <1>1, NothingInEmpty DEF FilesFor
<1>2. CASE aStage = "sidecar"
  BY <1>2 DEF File, FileRecord, IsInjective, Elements, FilesFor
<1>3. CASE aStage = "thumb"
  BY <1>3 DEF File, FileRecord, IsInjective, Elements, FilesFor
<1>4. CASE aStage = "index"
  BY <1>4 DEF File, FileRecord, IsInjective, Elements, FilesFor
<1> QED
  BY <1>1, <1>2, <1>3, <1>4

LEMMA ExtraOfFiles ==
  ASSUME NEW kinds, NEW p, NEW kind
  PROVE  PhotosOf(FilesFor(kinds, p), kind) = IF kind \in kinds THEN {p} ELSE {}
<1>1. {e \in FilesFor(kinds, p) : e.kind = kind} =
        IF kind \in kinds THEN {File(kind, p)} ELSE {}
  BY DEF File, FilesFor
<1>2. File(kind, p).photo = p
  BY DEF File
<1>3. CASE kind \in kinds
  BY <1>1, <1>2, <1>3 DEF PhotosOf
<1>4. CASE kind \notin kinds
  BY <1>1, <1>4 DEF PhotosOf
<1> QED
  BY <1>3, <1>4

-----------------------------------------------------------------------------
(***************************************************************************)
(* Every step keeps the invariant.                                         *)
(***************************************************************************)
\* The steps that change neither the index nor the files.
LEMMA QuietStep ==
  ASSUME StoreInv,
         \/ Start \/ InitializeFails \/ CleanTemporaryFiles \/ LoadIndex \/ SaveRefused
         \/ WriteTemporary \/ CallReturns \/ ProcessEnds
  PROVE  StoreInv'
<1> USE DEF StoreInv, Usable, Writing, cardVars, callVars, historyVars, TypeOK, CallInv, IndexInv,
            Complete, RebuildInv, DeleteInv, SaveInv, UnlinkInv, TidyInv, Extra, Photos, FileKinds
<1>1. CASE Start
  BY <1>1 DEF Start
<1>2. CASE InitializeFails
  BY <1>2 DEF InitializeFails
<1>3. CASE CleanTemporaryFiles
  BY <1>3 DEF CleanTemporaryFiles
<1>4. CASE LoadIndex
  BY <1>4 DEF LoadIndex, Readied, NeedsRebuild
<1>5. CASE SaveRefused
  BY <1>5 DEF SaveRefused
<1>6. CASE WriteTemporary
  BY <1>6 DEF WriteTemporary
<1>7. CASE CallReturns
  <2>1. TidyInv'
    <3>1. \A kind \in FileKinds : Extra(kind) = {} /\ Extra(kind)' = {}
      BY <1>7, NothingInEmpty DEF CallReturns, PhotosOf
    <3> QED
      BY <1>7, <3>1 DEF CallReturns
  <2> QED
    BY <1>7, <2>1 DEF CallReturns
<1>8. CASE ProcessEnds
  <2>1. littered' \in BOOLEAN
    BY <1>8, Zenon DEF ProcessEnds
  <2>2. TypeOK' /\ CallInv' /\ IndexInv'
    <3>1. /\ entries' \in Seq(Photos) /\ Len(entries') <= MaxEntries
          /\ previous' \in Seq(Photos) /\ Len(previous') <= MaxEntries
      BY <1>8, EmptySeq, StoreAssumption DEF ProcessEnds, StoreAssumption
    <3>2. doomed' \in Seq([kind: FileKinds, photo: Photos])
      BY <1>8, EmptySeq DEF ProcessEnds
    <3> QED
      BY <1>8, <2>1, <3>1, <3>2 DEF ProcessEnds
  <2>3. TidyInv'
    BY <1>8 DEF ProcessEnds
  <2> QED
    BY <1>8, <2>2, <2>3 DEF ProcessEnds
<1> QED
  BY <1>1, <1>2, <1>3, <1>4, <1>5, <1>6, <1>7, <1>8

\* A rebuild that begins has found every photo, and found none on an untouched card.
LEMMA RebuildStep ==
  ASSUME StoreInv, RebuildIndex
  PROVE  StoreInv'
<1> USE DEF RebuildIndex, StoreInv, Usable, Writing, cardVars, callVars, historyVars
<1>1. entries' \in Seq(Photos) /\ Len(entries') <= MaxEntries
  <2>1. CASE entries' \in Lists
    BY <2>1, ListIsSequence
  <2>2. CASE entries' = <<>>
    BY <2>2, StoreAssumption, EmptySeq DEF StoreAssumption
  <2> QED
    BY <2>1, <2>2
<1>2. TypeOK' /\ CallInv'
  BY <1>1 DEF TypeOK, CallInv, FileKinds
<1>3. IndexInv'
  BY DEF IndexInv, Complete
<1>4. RebuildInv'
  <2> SUFFICES ASSUME Writing', op' = "rebuild"
               PROVE  /\ IsInjective(entries)' /\ (\A p \in Elements(entries) : Complete(p))'
                      /\ edited' \/ entries' = index'
    BY DEF RebuildInv
  <2>1. IsRebuilt(entries')
    OBVIOUS
  <2>2. IsInjective(entries') /\ \A p \in Elements(entries') : Complete(p)
    BY <2>1 DEF IsRebuilt, IsInjective
  <2>3. ASSUME ~edited PROVE entries' = index
    <3>1. indexState # "intact"
      BY <2>3 DEF NeedsRebuild, IndexInv
    <3>2. Elements(entries') = {}
      BY <2>2, <2>3, <3>1 DEF IndexInv, Complete, FileKinds
    <3> QED
      BY <1>1, <2>3, <3>1, <3>2, EmptyIfNothing DEF IndexInv
  <2> QED
    BY <2>2, <2>3 DEF Complete
<1>5. DeleteInv' /\ SaveInv' /\ UnlinkInv'
  BY DEF DeleteInv, SaveInv, UnlinkInv
<1>6. TidyInv'
  BY DEF TidyInv, Extra, CallInv
<1> QED
  BY <1>2, <1>3, <1>4, <1>5, <1>6

\* A save or a deletion that begins finds memory and card in agreement.
LEMMA BeginStep ==
  ASSUME StoreInv, SaveBegins \/ DeleteBegins
  PROVE  StoreInv'
<1> USE StoreAssumption
    DEF StoreInv, Usable, Writing, cardVars, callVars, historyVars, StoreAssumption
<1>1. CASE SaveBegins
  <2>1. TypeOK' /\ CallInv'
    BY <1>1 DEF SaveBegins, TypeOK, CallInv, Photos, FileKinds
  <2>2. IndexInv' /\ RebuildInv' /\ DeleteInv' /\ UnlinkInv'
    BY <1>1 DEF SaveBegins, IndexInv, Complete, TypeOK, RebuildInv, DeleteInv, UnlinkInv
  <2>3. SaveInv'
    BY <1>1 DEF SaveBegins, SaveInv, CallInv, TypeOK, IndexInv, Before
  <2>4. TidyInv'
    BY <1>1 DEF SaveBegins, TidyInv, Extra, Before
  <2> QED
    BY <2>1, <2>2, <2>3, <2>4
<1>2. CASE DeleteBegins
  <2>1. PICK i \in 1..Len(entries) : photo' = entries[i] /\ entries' = Without(entries, i)
    BY <1>2 DEF DeleteBegins
  <2>2. previous' = index /\ entries = index
    BY <1>2 DEF DeleteBegins, CallInv
  <2>3. /\ entries' \in Seq(Photos) /\ Len(entries') = Len(entries) - 1
        /\ photo' \in Photos /\ Len(entries) \in Nat
    BY <2>1, <2>2, WithoutElements, ElementOfSeq, LenProperties DEF TypeOK, IndexInv
  <2>4. TypeOK'
    BY <1>2, <2>2, <2>3, SMTT(30) DEF DeleteBegins, TypeOK, FileKinds
  <2>5. DeleteInv'
    BY <1>2, <2>1, <2>2 DEF DeleteBegins, DeleteInv
  <2>6. CallInv' /\ RebuildInv' /\ SaveInv' /\ UnlinkInv'
    BY <1>2 DEF DeleteBegins, CallInv, RebuildInv, SaveInv, UnlinkInv
  <2>7. IndexInv'
    BY <1>2 DEF DeleteBegins, IndexInv, Complete
  <2>8. TidyInv'
    BY <1>2 DEF DeleteBegins, TidyInv, Extra
  <2> QED
    BY <2>4, <2>5, <2>6, <2>7, <2>8
<1> QED
  BY <1>1, <1>2

\* The world outside: what it takes from the card it cannot take unseen.
LEMMA EditStep ==
  ASSUME StoreInv, EditCard
  PROVE  StoreInv'
<1> USE DEF StoreInv, EditCard, Usable, Writing, cardVars, callVars, historyVars
<1>1. /\ files' \in [FileKinds -> SUBSET Photos]
      /\ \A kind \in FileKinds : files'[kind] \subseteq files[kind]
  BY DEF TypeOK
<1>2. TypeOK'
  BY <1>1 DEF TypeOK
<1>3. IndexInv'
  BY <1>1 DEF IndexInv
<1>4. CallInv'
  BY DEF CallInv
<1>5. RebuildInv' /\ DeleteInv' /\ SaveInv' /\ UnlinkInv' /\ TidyInv'
  BY DEF RebuildInv, DeleteInv, SaveInv, UnlinkInv, TidyInv
<1> QED
  BY <1>2, <1>3, <1>4, <1>5


\* A call that fails takes back what it did: its entry, and the files it wrote.
LEMMA FailStep ==
  ASSUME StoreInv, StageFails
  PROVE  StoreInv'
<1> USE DEF StoreInv, StageFails, Usable, Writing, cardVars, callVars, historyVars
<1>1. /\ temporary' \subseteq temporary \cup {stage}
      /\ littered' \in BOOLEAN /\ (littered => littered')
      /\ littered' \/ temporary' = {}
  <2>1. littered \in BOOLEAN
    BY DEF TypeOK
  <2>2. littered \/ temporary = (IF pc = "rename" THEN {stage} ELSE {})
    BY DEF TidyInv
  <2>3. \/ temporary' = temporary \ {stage} /\ littered' = littered
        \/ pc = "write" /\ temporary' = temporary /\ littered' = littered
        \/ temporary' = temporary \cup {stage} /\ littered' = TRUE
    OBVIOUS
  <2> HIDE DEF StoreInv, StageFails, Usable, Writing, cardVars, callVars, historyVars
  <2> QED
    BY <2>1, <2>2, <2>3
<1>2. IndexInv' /\ RebuildInv' /\ DeleteInv' /\ SaveInv'
  <2>1. UNCHANGED <<files, index, indexState, saves, newest, edited>>
    OBVIOUS
  <2>2. pc' \in {"idle", "unlink"}
    OBVIOUS
  <2>3. IndexInv'
    BY <2>1 DEF IndexInv, Complete
  <2>4. RebuildInv' /\ DeleteInv' /\ SaveInv'
    BY <2>2 DEF RebuildInv, DeleteInv, SaveInv
  <2> QED
    BY <2>3, <2>4
<1>3. CASE op = "rebuild"
  <2>1. TypeOK' /\ CallInv' /\ UnlinkInv'
    BY <1>1, <1>3 DEF TypeOK, CallInv, UnlinkInv
  <2>2. TidyInv'
    BY <1>1, <1>3 DEF TidyInv, Extra
  <2> QED
    BY <1>2, <2>1, <2>2
<1>4. CASE op # "rebuild"
  <2>0. op \in {"save", "delete"}
    BY <1>4 DEF TypeOK, CallInv
  <2>1. entries' = index
    BY <1>4, <2>0 DEF EntriesAfterFailure, SaveInv, DeleteInv, CallInv
  <2>2. CallInv'
    BY <1>4, <2>0, <2>1 DEF CallInv
  <2>3. /\ doomed' \in Seq(FileRecord) /\ IsInjective(doomed')
        /\ Elements(doomed') =
             IF op = "save" THEN FilesFor(Before(stage), photo) ELSE {}
    <3>1. CASE op = "save"
      <4>1. photo \in Photos /\ stage \in FileKinds \cup {"index"}
        BY <3>1, StoreAssumption DEF TypeOK, CallInv, Photos, StoreAssumption
      <4> QED
        BY <1>4, <3>1, <4>1, WrittenFiles
    <3>2. CASE op = "delete"
      BY <1>4, <3>2, NothingInEmpty, EmptySeq
    <3> QED
      BY <2>0, <3>1, <3>2
  <2>4. TypeOK'
    BY <1>1, <1>4, <2>1, <2>3 DEF TypeOK, FileRecord
  <2>5. UnlinkInv'
    BY <1>4, <2>3 DEF UnlinkInv, SaveInv, File, FilesFor
  <2>6. ASSUME NEW kind \in FileKinds PROVE Extra(kind)' = Extra(kind)
    <3>1. CASE op = "save"
      <4>1. stage \in FileKinds \cup {"index"}
        BY DEF TypeOK
      <4>2. Extra(kind)' = PhotosOf(Elements(doomed'), kind)
        BY <1>4 DEF Extra
      <4>3. Elements(doomed') = FilesFor(Before(stage), photo)
        BY <2>3, <3>1
      <4>4. PhotosOf(FilesFor(Before(stage), photo), kind) =
              IF kind \in Before(stage) THEN {photo} ELSE {}
        BY ExtraOfFiles
      <4> QED
        BY <3>1, <4>2, <4>3, <4>4 DEF Extra
    <3>2. CASE op = "delete"
      BY <1>4, <2>3, <3>2 DEF Extra, PhotosOf
    <3> QED
      BY <2>0, <3>1, <3>2
  <2>7. TidyInv'
    BY <1>1, <1>4, <2>6 DEF TidyInv
  <2> QED
    BY <1>2, <2>2, <2>4, <2>5, <2>7
<1> QED
  BY <1>3, <1>4

\* What addEntry keeps of a list.
LEMMA KeptElements ==
  ASSUME NEW s \in Seq(Photos), Len(s) <= MaxEntries, IsInjective(s)
  PROVE  /\ Kept(s) \in Seq(Photos) /\ Len(Kept(s)) + 1 <= MaxEntries /\ IsInjective(Kept(s))
         /\ Elements(Kept(s)) = IF Len(s) = MaxEntries THEN Elements(s) \ {s[1]} ELSE Elements(s)
<1>1. MaxEntries \in Nat \ {0} /\ Len(s) \in Nat
  BY StoreAssumption, LenProperties DEF StoreAssumption
<1>2. CASE Len(s) = MaxEntries
  <2>1. s # <<>>
    BY <1>1, <1>2, EmptySeq
  <2> QED
    BY <1>1, <1>2, <2>1, TailElements DEF Kept
<1>3. CASE Len(s) # MaxEntries
  BY <1>1, <1>3 DEF Kept
<1> QED
  BY <1>2, <1>3

\* A file of the photo that is being saved gets its name.
LEMMA RenameFileStep ==
  ASSUME StoreInv, RenameFile
  PROVE  StoreInv'
<1> USE DEF StoreInv, RenameFile, Usable, Writing, cardVars, callVars, historyVars
<1>0. /\ op = "save" /\ photo = saves /\ photo \in Photos /\ entries = index
      /\ photo \in 1..saves
  BY StoreAssumption DEF CallInv, SaveInv, TypeOK, FileKinds, Photos, StoreAssumption
<1>1. /\ files' \in [FileKinds -> SUBSET Photos]
      /\ \A kind \in FileKinds :
           files'[kind] = IF kind = stage THEN files[kind] \cup {photo} ELSE files[kind]
  BY <1>0 DEF TypeOK
<1>2. stage' \in FileKinds \cup {"index"} /\ Before(stage') = Before(stage) \cup {stage}
  BY DEF Before, FileKinds
<1>3. IF stage = "thumb" THEN previous' = index /\ entries' = Append(Kept(index), photo)
                         ELSE UNCHANGED <<previous, entries>>
  BY <1>0
<1>4. entries' \in Seq(Photos) /\ Len(entries') <= MaxEntries
  <2>1. CASE stage = "thumb"
    <3>1. Kept(index) \in Seq(Photos) /\ Len(Kept(index)) + 1 <= MaxEntries
      BY KeptElements DEF TypeOK, IndexInv
    <3> QED
      BY <1>0, <1>3, <2>1, <3>1, AppendElements
  <2>2. CASE stage # "thumb"
    BY <1>3, <2>2 DEF TypeOK
  <2> QED
    BY <2>1, <2>2
<1>5. TypeOK'
  BY <1>0, <1>1, <1>2, <1>4 DEF TypeOK
<1>6. CallInv'
  BY <1>0 DEF CallInv
<1>7. IndexInv'
  <2>1. \A kind \in FileKinds : files'[kind] \subseteq 1..saves
    BY <1>0, <1>1 DEF IndexInv
  <2>2. indexState = "intact"
    BY <1>0 DEF CallInv
  <2>3. edited \/ (\A p \in Elements(index) : Complete(p))'
    BY <1>1 DEF IndexInv, Complete
  <2> QED
    BY <2>1, <2>2, <2>3 DEF IndexInv
<1>8. SaveInv'
  BY <1>0, <1>1, <1>2, <1>3 DEF SaveInv, FileKinds, Before
<1>9. RebuildInv' /\ DeleteInv' /\ UnlinkInv'
  BY <1>0 DEF RebuildInv, DeleteInv, UnlinkInv
<1>10. TidyInv'
  BY <1>0, <1>1, <1>2 DEF TidyInv, Extra
<1> QED
  BY <1>5, <1>6, <1>7, <1>8, <1>9, <1>10

\* The index is replaced: what leaves it is what will be unlinked, no more and no less.
LEMMA RenameIndexStep ==
  ASSUME StoreInv, RenameIndex
  PROVE  StoreInv'
<1> USE DEF StoreInv, RenameIndex, Usable, Writing, cardVars, callVars, historyVars
<1>0. op \in {"rebuild", "save", "delete"} /\ saves \in Nat /\ newest \in Nat
  BY StoreAssumption DEF CallInv, TypeOK, StoreAssumption
<1>1. RebuildInv' /\ DeleteInv' /\ SaveInv'
  BY DEF Readied, RebuildInv, DeleteInv, SaveInv
<1>2. CASE op = "rebuild"
  <2>1. TypeOK'
    BY <1>2 DEF Readied, TypeOK
  <2>2. CallInv' /\ UnlinkInv'
    BY <1>2 DEF Readied, CallInv, UnlinkInv
  <2>3. IndexInv'
    <3>1. Elements(entries) \subseteq 1..saves
      BY <1>2 DEF RebuildInv, IndexInv, Complete, FileKinds
    <3> QED
      BY <1>2, <3>1 DEF Readied, RebuildInv, IndexInv, Complete
  <2>4. TidyInv'
    <3> SUFFICES ASSUME ~littered PROVE TidyInv'
      BY DEF TidyInv
    <3>1. entries = index /\ temporary = {stage} /\ ~edited
      BY <1>2 DEF TidyInv, RebuildInv
    <3>2. \A kind \in FileKinds : Extra(kind) = {} /\ Extra(kind)' = {}
      BY <1>2 DEF Readied, Extra
    <3> QED
      BY <1>2, <3>1, <3>2 DEF Readied, TidyInv
  <2> QED
    BY <1>1, <2>1, <2>2, <2>3, <2>4
<1>3. CASE op = "save"
  <2>0. /\ previous = index /\ entries = Append(Kept(index), photo) /\ photo = saves
        /\ photo \in Photos /\ photo \in 1..saves /\ newest < photo /\ photo \notin Elements(index)
        /\ \A kind \in FileKinds : photo \in files[kind]
    BY <1>0, <1>3, StoreAssumption DEF SaveInv, CallInv, TypeOK, Photos, StoreAssumption, Before
  <2>1. /\ Kept(index) \in Seq(Photos) /\ IsInjective(Kept(index))
        /\ Elements(Kept(index)) =
             IF Len(index) = MaxEntries THEN Elements(index) \ {index[1]} ELSE Elements(index)
    BY KeptElements DEF TypeOK, IndexInv
  <2>2. IsInjective(entries) /\ Elements(entries) = Elements(Kept(index)) \cup {photo}
    BY <2>0, <2>1, AppendElements
  <2>3. Len(index) = MaxEntries => index[1] \in Elements(index) /\ index[1] \in Photos
    <3>1. index \in Seq(Photos) /\ Len(index) \in Nat /\ DOMAIN index = 1..Len(index)
      BY LenProperties DEF TypeOK
    <3>2. Len(index) = MaxEntries => 1 \in DOMAIN index
      BY <3>1, StoreAssumption DEF StoreAssumption
    <3> QED
      BY <3>1, <3>2, ElementOfSeq DEF Elements
  <2>4. /\ doomed' \in Seq(FileRecord) /\ IsInjective(doomed')
        /\ Elements(doomed') = IF Len(index) = MaxEntries
                                 THEN FilesFor(FileKinds, index[1]) ELSE {}
    BY <1>3, <2>0, <2>3, FilesOfPhoto, NothingInEmpty, EmptySeq DEF Leftover
  <2>5. TypeOK'
    BY <1>0, <1>3, <2>0, <2>4 DEF TypeOK, FileRecord
  <2>6. CallInv'
    BY <1>3 DEF CallInv
  <2>7. IndexInv'
    BY <1>3, <2>0, <2>1, <2>2 DEF IndexInv, Complete
  <2>8. UnlinkInv'
    BY <1>3, <2>0, <2>1, <2>2, <2>3, <2>4 DEF UnlinkInv, File, FilesFor
  <2>9. TidyInv'
    <3> SUFFICES ASSUME ~littered PROVE TidyInv'
      BY DEF TidyInv
    <3>1. temporary' = {} /\ ~edited
      BY DEF TidyInv
    <3>2. ASSUME NEW kind \in FileKinds
          PROVE  Extra(kind)' = IF Len(index) = MaxEntries THEN {index[1]} ELSE {}
      <4>1. Extra(kind)' = PhotosOf(Elements(doomed'), kind)
        BY <1>3 DEF Extra
      <4>2. CASE Len(index) = MaxEntries
        BY <2>4, <4>1, <4>2, ExtraOfFiles
      <4>3. CASE Len(index) # MaxEntries
        BY <2>4, <4>1, <4>3 DEF PhotosOf
      <4> QED
        BY <4>2, <4>3
    <3>3. ASSUME NEW kind \in FileKinds
          PROVE  files[kind] = Elements(index) \cup {photo}
      BY <1>3 DEF TidyInv, Extra, Before
    <3> QED
      BY <1>3, <2>1, <2>2, <2>3, <3>1, <3>2, <3>3 DEF TidyInv
  <2> QED
    BY <1>1, <2>5, <2>6, <2>7, <2>8, <2>9
<1>4. CASE op = "delete"
  <2>0. PICK i \in 1..Len(index) : entries = Without(index, i) /\ photo = index[i]
    BY <1>4 DEF DeleteInv
  <2>1. IsInjective(entries) /\ Elements(entries) = Elements(index) \ {photo}
    BY <2>0, WithoutElements DEF TypeOK, IndexInv
  <2>2. photo \in Elements(index) /\ photo \in Photos
    BY <2>0, LenProperties, ElementOfSeq DEF Elements, TypeOK
  <2>3. /\ doomed' \in Seq(FileRecord) /\ IsInjective(doomed')
        /\ Elements(doomed') = FilesFor(FileKinds, photo)
    BY <1>4, <2>2, FilesOfPhoto DEF Leftover
  <2>4. TypeOK'
    BY <1>4, <2>3 DEF TypeOK, FileRecord
  <2>5. CallInv'
    BY <1>4 DEF CallInv
  <2>6. IndexInv'
    BY <1>4, <2>1 DEF IndexInv, Complete
  <2>7. UnlinkInv'
    BY <1>4, <2>1, <2>3 DEF UnlinkInv, File, FilesFor
  <2>8. TidyInv'
    <3> SUFFICES ASSUME ~littered PROVE TidyInv'
      BY DEF TidyInv
    <3>1. temporary' = {} /\ ~edited
      BY DEF TidyInv
    <3>2. ASSUME NEW kind \in FileKinds PROVE Extra(kind)' = {photo}
      <4>1. Extra(kind)' = PhotosOf(Elements(doomed'), kind)
        BY <1>4 DEF Extra
      <4> QED
        BY <2>3, <4>1, ExtraOfFiles
    <3>3. ASSUME NEW kind \in FileKinds PROVE files[kind] = Elements(index)
      BY <1>4 DEF TidyInv, Extra
    <3> QED
      BY <1>4, <2>1, <2>2, <3>1, <3>2, <3>3 DEF TidyInv
  <2> QED
    BY <1>1, <2>4, <2>5, <2>6, <2>7, <2>8
<1> QED
  BY <1>0, <1>2, <1>3, <1>4

\* One file less; those still to go stay what they were.
LEMMA UnlinkStep ==
  ASSUME StoreInv, Unlink
  PROVE  StoreInv'
<1> USE DEF StoreInv, Unlink, Usable, Writing, cardVars, callVars, historyVars
<1> DEFINE d == Head(doomed)
<1>0. /\ doomed \in Seq(FileRecord) /\ IsInjective(doomed)
      /\ doomed' \in Seq(FileRecord) /\ IsInjective(doomed')
      /\ Elements(doomed') = Elements(doomed) \ {d} /\ d \in Elements(doomed)
      /\ d \in FileRecord
      /\ Elements(doomed) \subseteq FileRecord
  <2>1. doomed \in Seq(FileRecord) /\ IsInjective(doomed) /\ doomed # <<>>
    BY DEF TypeOK, UnlinkInv, FileRecord
  <2>2. /\ Tail(doomed) \in Seq(FileRecord) /\ IsInjective(Tail(doomed))
        /\ Elements(Tail(doomed)) = Elements(doomed) \ {d} /\ d \in Elements(doomed)
    BY <2>1, TailElements DEF Elements
  <2>3. Elements(doomed) \subseteq FileRecord
    BY <2>1, LenProperties, ElementOfSeq DEF Elements
  <2> QED
    BY <2>1, <2>2, <2>3
<1>1. d.kind \in FileKinds /\ d.photo \notin Elements(index)
  BY <1>0 DEF UnlinkInv, FileRecord
<1>2. CASE files' = [files EXCEPT ![d.kind] = @ \ {d.photo}] /\ UNCHANGED littered
  <2>1. /\ files' \in [FileKinds -> SUBSET Photos]
        /\ \A kind \in FileKinds :
             files'[kind] = IF kind = d.kind THEN files[kind] \ {d.photo} ELSE files[kind]
    BY <1>1, <1>2 DEF TypeOK
  <2>2. TypeOK'
    BY <1>0, <1>2, <2>1, ZenonT(30) DEF TypeOK, FileRecord
  <2>3. CallInv' /\ RebuildInv' /\ DeleteInv' /\ SaveInv' /\ UnlinkInv'
    BY <1>0, <1>2 DEF CallInv, RebuildInv, DeleteInv, SaveInv, UnlinkInv
  <2>4. IndexInv'
    <3>1. \A kind \in FileKinds : files'[kind] \subseteq 1..saves
      BY <2>1 DEF IndexInv
    <3>2. indexState = "intact"
      BY DEF CallInv
    <3>3. ASSUME NEW p \in Elements(index), Complete(p) PROVE Complete(p)'
      BY <1>1, <2>1, <3>3 DEF Complete
    <3> QED
      BY <1>2, <3>1, <3>2, <3>3 DEF IndexInv
  <2>5. TidyInv'
    <3> SUFFICES ASSUME ~littered PROVE TidyInv'
      BY <1>2 DEF TidyInv
    <3>1. ASSUME NEW kind \in FileKinds
          PROVE  Extra(kind)' = IF kind = d.kind THEN Extra(kind) \ {d.photo} ELSE Extra(kind)
      <4>1. /\ Extra(kind) = PhotosOf(Elements(doomed), kind)
            /\ Extra(kind)' = PhotosOf(Elements(doomed'), kind)
        BY DEF Extra
      <4>2. \A e \in FileRecord : e.kind = d.kind /\ e.photo = d.photo => e = d
        BY <1>0 DEF FileRecord
      <4>3. \A e \in Elements(doomed) : e.kind = kind =>
              (e \in Elements(doomed') <=> ~(kind = d.kind /\ e.photo = d.photo))
        BY <1>0, <4>2
      <4> QED
        BY <1>0, <4>1, <4>3 DEF PhotosOf
    <3>2. ASSUME NEW kind \in FileKinds
          PROVE  files'[kind] = Elements(index) \cup Extra(kind)'
      BY <1>1, <2>1, <3>1 DEF TidyInv
    <3> QED
      BY <1>2, <3>2 DEF TidyInv
  <2> QED
    BY <2>2, <2>3, <2>4, <2>5
<1>3. CASE littered' = TRUE /\ UNCHANGED files
  <2>1. TypeOK'
    BY <1>0, <1>3, ZenonT(30) DEF TypeOK, FileRecord
  <2>2. CallInv' /\ RebuildInv' /\ DeleteInv' /\ SaveInv' /\ UnlinkInv'
    BY <1>0, <1>3 DEF CallInv, RebuildInv, DeleteInv, SaveInv, UnlinkInv
  <2>3. IndexInv' /\ TidyInv'
    BY <1>3 DEF IndexInv, Complete, TidyInv
  <2> QED
    BY <2>1, <2>2, <2>3
<1> QED
  BY <1>2, <1>3

LEMMA StoreInit == Init => StoreInv
<1> SUFFICES ASSUME Init PROVE StoreInv
  OBVIOUS
<1> USE DEF Init
<1>1. TypeOK
  <2>1. <<>> \in Seq(Photos) /\ <<>> \in Seq([kind : FileKinds, photo : Photos]) /\ Len(<<>>) = 0
    BY EmptySeq
  <2>2. 0 <= MaxEntries /\ 0 \in 0..MaxPhotos
    BY StoreAssumption DEF StoreAssumption
  <2>3. files \in [FileKinds -> SUBSET Photos]
    OBVIOUS
  <2>4. index \in Seq(Photos) /\ entries \in Seq(Photos) /\ previous \in Seq(Photos)
    BY <2>1
  <2>5. Len(index) <= MaxEntries /\ Len(entries) <= MaxEntries /\ Len(previous) <= MaxEntries
    BY <2>1, <2>2
  <2>6. doomed \in Seq([kind : FileKinds, photo : Photos])
    BY <2>1
  <2> QED
    BY <2>2, <2>3, <2>4, <2>5, <2>6 DEF TypeOK, FileKinds
<1>2. CallInv
  BY DEF CallInv, Usable, Writing
<1>3. IndexInv
  BY NothingInEmpty DEF IndexInv
<1>4. RebuildInv /\ DeleteInv /\ SaveInv /\ UnlinkInv
  BY DEF RebuildInv, DeleteInv, SaveInv, UnlinkInv, Writing
<1>5. TidyInv
  BY NothingInEmpty DEF TidyInv, Extra, Writing
<1> QED
  BY <1>1, <1>2, <1>3, <1>4, <1>5 DEF StoreInv

LEMMA StoreStep == StoreInv /\ [Next]_vars => StoreInv'
<1> SUFFICES ASSUME StoreInv, [Next]_vars PROVE StoreInv'
  OBVIOUS
<1>1. CASE UNCHANGED vars
  BY <1>1 DEF vars, cardVars, callVars, historyVars, StoreInv, Usable, Writing, TypeOK, CallInv,
              IndexInv, Complete, RebuildInv, DeleteInv, SaveInv, UnlinkInv, TidyInv, Extra
<1> QED
  BY <1>1, QuietStep, RebuildStep, BeginStep, FailStep, RenameFileStep, RenameIndexStep, UnlinkStep,
     EditStep DEF Next

\* At every step of every call, and whoever edits the card, StoreInv holds: the
\* types, what the index names, what it is about to become, and what may lie
\* beside it.
THEOREM StoreInvariant == Spec => []StoreInv
BY StoreInit, StoreStep, PTL DEF Spec

\* Wherever the process ends, every photo the index on the card names has its three
\* files, unless someone else took one.
THEOREM IndexIsComplete == Spec => []IndexNamesCompleteSets
<1>1. StoreInv => IndexNamesCompleteSets
  BY DEF StoreInv, IndexInv, IndexNamesCompleteSets
<1> QED
  BY <1>1, StoreInvariant, PTL

\* Between calls a usable store holds in memory what is on the card, and the card
\* holds nothing else.
THEOREM MemoryIsTheCard == Spec => []CardAndMemoryAgree
<1>1. StoreInv => CardAndMemoryAgree
  BY DEF StoreInv, CallInv, TidyInv, Extra, Writing, Usable, CardAndMemoryAgree
<1> QED
  BY <1>1, StoreInvariant, PTL

\* The store implements the gallery: one photo is added, the oldest making room, or
\* one is removed, in one step that no end of the process can divide.
THEOREM StoreImplementsGallery == Spec => ImplementsGallery
<1>1. Init => FoundOnCard!Init
  BY DEF Init, FoundOnCard!Init
<1>2. StoreInv /\ [Next]_vars => [edited \/ edited' \/ FoundOnCard!Next]_<<index, newest>>
  <2> SUFFICES ASSUME StoreInv, [Next]_vars, ~edited, <<index, newest>>' # <<index, newest>>
               PROVE  edited' \/ FoundOnCard!Next
    OBVIOUS
  <2>1. RenameIndex
    BY DEF Next, Start, InitializeFails, CleanTemporaryFiles, LoadIndex, RebuildIndex, SaveRefused,
           SaveBegins, DeleteBegins, StageFails, WriteTemporary, RenameFile, Unlink, CallReturns,
           ProcessEnds, EditCard, Readied, vars, cardVars, callVars, historyVars
  <2>2. op \in {"rebuild", "save", "delete"}
    BY <2>1 DEF RenameIndex, StoreInv, CallInv, TypeOK, Writing
  <2>3. CASE op = "rebuild"
    BY <2>1, <2>3 DEF RenameIndex, StoreInv, RebuildInv, Writing
  <2>4. CASE op = "save"
    <3>1. /\ photo \in Photos /\ photo > newest
          /\ index' = Append(Kept(index), photo) /\ newest' = photo
      BY <2>1, <2>4, StoreAssumption
         DEF RenameIndex, StoreInv, SaveInv, CallInv, TypeOK, Writing, Photos, StoreAssumption
    <3> QED
      BY <3>1 DEF FoundOnCard!Next, FoundOnCard!Add, FoundOnCard!Room, Kept
  <2>5. CASE op = "delete"
    <3>1. PICK i \in 1..Len(index) : index' = Without(index, i) /\ newest' = newest
      BY <2>1, <2>5 DEF RenameIndex, StoreInv, DeleteInv, Writing
    <3>2. index' = SubSeq(index, 1, i - 1) \o SubSeq(index, i + 1, Len(index))
      BY <3>1, WithoutIsRemoval DEF StoreInv, TypeOK
    <3> QED
      BY <3>1, <3>2 DEF FoundOnCard!Next, FoundOnCard!Remove
  <2> QED
    BY <2>2, <2>3, <2>4, <2>5
<1> QED
  BY <1>1, <1>2, StoreInvariant, PTL DEF Spec, ImplementsGallery

-----------------------------------------------------------------------------
(***************************************************************************)
(* What the caller is told.                                                *)
(***************************************************************************)
\* A call has its answer once its files are in place or taken back.  TRUE stands for
\* the entries the call set out to make; FALSE for those of before, and of a deletion
\* that went wrong after its index for those as well.
AnswerInv ==
  /\ pc \in {"off", "clean", "load"} => entries = <<>>
  /\ pc # "unlink" => ~result
  /\ op = "save" => storageState = "Ready"
  /\ (pc = "unlink" /\ op = "save") =>
       IF result THEN stage = "index" /\ entries = Append(Kept(previous), photo)
                 ELSE stage = "index" => entries = previous
  /\ (pc = "unlink" /\ op = "delete") =>
       \E i \in 1..Len(previous) :
         /\ photo = previous[i]
         /\ entries = Without(previous, i) \/ (~result /\ entries = previous)

\* The steps on which an answer depends, and those on which none does.
LEMMA AnswerStep ==
  ASSUME StoreInv, AnswerInv, [Next]_vars
  PROVE  AnswerInv'
<1> USE DEF AnswerInv, cardVars, callVars, historyVars
<1>1. CASE UNCHANGED vars
  BY <1>1 DEF vars
<1>2. CASE Start \/ InitializeFails \/ CleanTemporaryFiles
  BY <1>2 DEF Start, InitializeFails, CleanTemporaryFiles, StoreInv, CallInv
<1>3. CASE LoadIndex \/ RebuildIndex
  BY <1>3 DEF LoadIndex, Readied, RebuildIndex, StoreInv, CallInv
<1>4. CASE SaveRefused \/ SaveBegins \/ DeleteBegins
  BY <1>4 DEF SaveRefused, SaveBegins, DeleteBegins, StoreInv, CallInv
<1>5. CASE WriteTemporary \/ RenameFile
  BY <1>5 DEF WriteTemporary, RenameFile
<1>6. CASE CallReturns \/ ProcessEnds \/ EditCard
  BY <1>6 DEF CallReturns, ProcessEnds, EditCard
<1>7. CASE StageFails
  <2>1. /\ Writing /\ ~result /\ ~result' /\ UNCHANGED <<previous, photo, stage>>
        /\ pc' \in {"idle", "unlink"}
    BY <1>7 DEF StageFails, Writing
  <2>2. CASE op = "rebuild"
    BY <1>7, <2>1, <2>2 DEF StageFails
  <2>3. CASE op = "save"
    BY <1>7, <2>1, <2>3 DEF StageFails, EntriesAfterFailure
  <2>4. CASE op = "delete"
    <3>1. stage = "index" /\ \E i \in 1..Len(previous) : photo = previous[i]
      BY <2>1, <2>4 DEF StoreInv, CallInv, DeleteInv
    <3> QED
      BY <1>7, <2>1, <2>4, <3>1 DEF StageFails, EntriesAfterFailure
  <2> QED
    BY <2>1, <2>2, <2>3, <2>4 DEF StoreInv, TypeOK, CallInv
<1>8. CASE RenameIndex
  <2>1. /\ Writing /\ stage = "index" /\ UNCHANGED <<previous, photo, stage, entries>>
        /\ ~result
    BY <1>8 DEF RenameIndex, Writing
  <2>2. CASE op = "rebuild"
    BY <1>8, <2>1, <2>2 DEF RenameIndex, Readied
  <2>3. CASE op = "save"
    <3>1. entries = Append(Kept(previous), photo)
      BY <2>1, <2>3 DEF StoreInv, SaveInv
    <3> QED
      BY <1>8, <2>1, <2>3, <3>1 DEF RenameIndex
  <2>4. CASE op = "delete"
    <3>1. \E i \in 1..Len(previous) : photo = previous[i] /\ entries = Without(previous, i)
      BY <2>1, <2>4 DEF StoreInv, DeleteInv
    <3> QED
      BY <1>8, <2>1, <2>4, <3>1 DEF RenameIndex
  <2> QED
    BY <2>1, <2>2, <2>3, <2>4 DEF StoreInv, TypeOK, CallInv
<1>9. CASE Unlink
  <2>1. (result' => result) /\ (op = "save" => (result' <=> result))
    <3>1. CASE UNCHANGED <<littered, result>>
      BY <3>1
    <3>2. CASE result' = (result /\ (op = "save" \/ Head(doomed).kind # "jpeg"))
      <4>1. CASE op = "save"
        BY <3>2, <4>1
      <4>2. CASE op # "save"
        BY <3>2, <4>2
      <4> QED
        BY <4>1, <4>2
    <3> QED
      BY <1>9, <3>1, <3>2, Zenon DEF Unlink
  <2>2. UNCHANGED <<pc, op, stage, photo, entries, previous, storageState>> /\ pc = "unlink"
    BY <1>9 DEF Unlink
  <2> QED
    BY <2>1, <2>2
<1> QED
  BY <1>1, <1>2, <1>3, <1>4, <1>5, <1>6, <1>7, <1>8, <1>9 DEF Next

\* What a list on the card may be.
FoundLists == {s \in Lists : \A i, j \in DOMAIN s : s[i] = s[j] => i = j}

LEMMA SequenceIsFound ==
  ASSUME NEW s \in Seq(Photos), Len(s) <= MaxEntries, IsInjective(s)
  PROVE  s \in FoundLists
<1>1. Len(s) \in 0..MaxEntries /\ s \in [1..Len(s) -> Photos]
  BY LenProperties, ElementOfSeq, StoreAssumption DEF StoreAssumption
<1>2. s \in Lists
  BY <1>1 DEF Lists
<1> QED
  BY <1>2 DEF FoundLists, IsInjective

\* A call returns, with what it has done.
LEMMA ReturnIsAnswered ==
  ASSUME StoreInv, AnswerInv, CallReturns
  PROVE  Answered
<1>1. /\ pc = "unlink" /\ op \in {"save", "delete"} /\ Usable /\ storageState' = storageState
      /\ result \in BOOLEAN
  BY DEF CallReturns, StoreInv, CallInv, TypeOK
<1>2. Visible' = entries /\ Visible = IF stage = "index" THEN previous ELSE entries
  BY <1>1 DEF Visible, Usable, CallReturns
<1>3. CASE op = "save"
  <2>1. CASE result
    BY <1>1, <1>2, <1>3, <2>1 DEF AnswerInv, Answered, Calls!SavePhoto, Calls!WithEntry, Kept
  <2>2. CASE ~result
    BY <1>1, <1>2, <1>3, <2>2 DEF AnswerInv, Answered, Calls!SavePhoto, Calls!vars
  <2> QED
    BY <2>1, <2>2
<1>4. CASE op = "delete"
  <2>1. stage = "index" /\ previous \in Seq(Photos) /\ Len(previous) \in 0..MaxEntries
    BY <1>4, LenProperties DEF StoreInv, CallInv, TypeOK
  <2>2. PICK i \in 1..Len(previous) :
          /\ photo = previous[i]
          /\ entries = Without(previous, i) \/ (~result /\ entries = previous)
    BY <1>1, <1>4 DEF AnswerInv
  <2> DEFINE j == Len(previous) - i
  <2>3. j \in 0..MaxEntries /\ j \in 0..(Len(previous) - 1) /\ Len(previous) - j = i
    BY <2>1, <2>2, StoreAssumption DEF StoreAssumption
  <2> HIDE DEF j
  <2>4. Calls!ValidIndex(j) /\ photo = Calls!PhotoAt(j)
    BY <1>2, <2>1, <2>2, <2>3 DEF Calls!ValidIndex, Calls!PhotoAt
  <2>5. Calls!DeletePhoto(j, result)
    <3>1. CASE entries = Without(previous, i)
      <4>1. entries = SubSeq(previous, 1, i - 1) \o SubSeq(previous, i + 1, Len(previous))
        BY <2>1, <3>1, WithoutIsRemoval
      <4> QED
        BY <1>1, <1>2, <2>1, <2>3, <2>4, <4>1 DEF Calls!DeletePhoto, Calls!WithoutEntry
    <3>2. CASE ~result /\ entries = previous
      BY <1>1, <1>2, <2>1, <3>2 DEF Calls!DeletePhoto, Calls!vars
    <3> QED
      BY <2>2, <3>1, <3>2
  <2> QED
    BY <1>4, <2>3, <2>4, <2>5 DEF Answered
<1> QED
  BY <1>1, <1>3, <1>4

\* Everything else that changes what the caller sees.
LEMMA SeenStep ==
  ASSUME StoreInv, AnswerInv, Next, ~CallReturns
  PROVE  UNCHANGED <<storageState, Visible>> \/ Calls!Next
<1> USE DEF cardVars, callVars, historyVars, Visible
<1>1. pc \in {"off", "clean", "load"} =>
        op = "none" /\ storageState = "NotConfigured" /\ Visible = <<>>
  BY DEF StoreInv, CallInv
<1>2. ASSUME storageState = "NotConfigured", storageState' \in {"Ready", "IndexFailed"},
             Visible' \in FoundLists
      PROVE  Calls!Next
  BY <1>2 DEF Calls!Next, Calls!Initialize, FoundLists
<1>3. CASE Start \/ CleanTemporaryFiles \/ WriteTemporary \/ Unlink \/ EditCard
  BY <1>1, <1>3 DEF Start, CleanTemporaryFiles, WriteTemporary, Unlink, EditCard
<1>4. CASE InitializeFails
  BY <1>1, <1>4 DEF InitializeFails, AnswerInv, Calls!Next, Calls!Initialize
<1>5. CASE LoadIndex
  <2>1. Visible' = index /\ index \in FoundLists
    BY <1>1, <1>5, SequenceIsFound DEF LoadIndex, Readied, StoreInv, TypeOK, IndexInv
  <2> QED
    BY <1>1, <1>2, <1>5, <2>1 DEF LoadIndex, Readied
<1>6. CASE RebuildIndex
  <2>1. CASE UNCHANGED storageState
    BY <1>1, <1>6, <2>1 DEF RebuildIndex
  <2>2. CASE entries' = <<>> /\ storageState' = "IndexFailed" /\ UNCHANGED op
    BY <1>1, <1>6, <2>2 DEF RebuildIndex, Calls!Next, Calls!Initialize
  <2> QED
    BY <1>6, <2>1, <2>2 DEF RebuildIndex
<1>7. CASE SaveRefused
  <2>1. 1 \in Photos /\ Visible' = Visible /\ storageState = "Ready"
        /\ storageState' = "InsufficientSpace"
    BY <1>7, StoreAssumption DEF SaveRefused, StoreInv, CallInv, Photos, StoreAssumption
  <2>2. Calls!SavePhoto(1, FALSE)
    BY <2>1 DEF Calls!SavePhoto
  <2> QED
    BY <2>1, <2>2 DEF Calls!Next
<1>8. CASE SaveBegins \/ DeleteBegins
  BY <1>8 DEF SaveBegins, DeleteBegins, StoreInv, CallInv
<1>9. CASE RenameFile
  BY <1>9 DEF RenameFile, StoreInv, CallInv, Writing, FileKinds
<1>10. CASE StageFails
  <2>1. CASE op = "rebuild"
    <3>1. Visible' = entries /\ entries \in FoundLists
      BY <1>10, <2>1, SequenceIsFound DEF StageFails, StoreInv, TypeOK, RebuildInv, Writing
    <3> QED
      BY <1>2, <1>10, <2>1, <3>1 DEF StageFails, StoreInv, CallInv
  <2>2. CASE op # "rebuild"
    BY <1>10, <2>2 DEF StageFails, EntriesAfterFailure, StoreInv, CallInv, Writing
  <2> QED
    BY <2>1, <2>2
<1>11. CASE RenameIndex
  <2>1. CASE op = "rebuild"
    <3>1. Visible' = entries /\ entries \in FoundLists
      BY <1>11, <2>1, SequenceIsFound
         DEF RenameIndex, Readied, StoreInv, TypeOK, RebuildInv, Writing
    <3> QED
      BY <1>2, <1>11, <2>1, <3>1 DEF RenameIndex, Readied, StoreInv, CallInv
  <2>2. CASE op # "rebuild"
    BY <1>11, <2>2 DEF RenameIndex, StoreInv, CallInv, Writing
  <2> QED
    BY <2>1, <2>2
<1>12. CASE ProcessEnds
  BY <1>12 DEF ProcessEnds, Calls!Next, Calls!Forget
<1> QED
  BY <1>3, <1>4, <1>5, <1>6, <1>7, <1>8, <1>9, <1>10, <1>11, <1>12 DEF Next

\* The files do what the caller of the store is told they did, wherever a write, a
\* rename or an unlink fails: the promise PhotoWorker is written upon.
THEOREM CallsAreAnswered == Spec => CallsDoAsAnswered
<1>1. Init => AnswerInv /\ Calls!Init
  BY DEF Init, AnswerInv, Calls!Init, Visible
<1>2. StoreInv /\ AnswerInv /\ [Next]_vars => AnswerInv'
  BY AnswerStep
<1>3. StoreInv /\ AnswerInv /\ [Next]_vars => [CallReturns => Answered]_vars
  BY ReturnIsAnswered
<1>4. StoreInv /\ AnswerInv /\ [Next]_vars
        => [CallReturns \/ Calls!Next]_<<storageState, Visible>>
  <2>1. CASE UNCHANGED vars
    BY <2>1 DEF vars, callVars, Visible
  <2> QED
    BY <2>1, SeenStep
<1> QED
  BY <1>1, <1>2, <1>3, <1>4, StoreInvariant, PTL DEF Spec, CallsDoAsAnswered

=============================================================================
