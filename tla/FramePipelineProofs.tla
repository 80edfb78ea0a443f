------------------------- MODULE FramePipelineProofs -------------------------
(***************************************************************************)
(* Proofs about FramePipeline, for every set of looks and every number of  *)
(* frames.  The safety properties follow from one inductive invariant, in  *)
(* three parts: where the input slot stands (Handshake), what frame each   *)
(* buffer holds (Buffers), and what look each image was made with          *)
(* (History).                                                              *)
(***************************************************************************)
EXTENDS FramePipeline, FiniteSetTheorems, TLAPS

Working == phase \in {"decode", "undecoded", "filter", "filtered"}
Restyling == Working /\ task.kind = "restyle"

\* The slot is in use exactly while a frame task runs, and a restyle task only
\* runs once a frame has been decoded and while no history counts.
Handshake ==
  /\ inputInUse <=> (Working /\ task.kind = "frame")
  /\ phase \in {"decode", "undecoded"} => task.kind = "frame"
  /\ hasPrevious => hasRaw
  /\ Restyling => hasRaw /\ ~hasPrevious /\ ~task.usePrevious

\* The compressed buffer, the raw image and the filtered image hold frames that
\* exist, and the frame of the task while it runs.
Buffers ==
  /\ inputPending => jpeg > 0
  /\ phase = "decode" => jpeg = task.frame
  /\ phase \in {"filter", "filtered"} => raw = task.frame
  /\ Working => task.frame > 0
  /\ hasRaw => raw > 0
  /\ hasRaw \/ phase = "filtered" => filtered.frame > 0
  /\ \A source \in snapshot.sources : source.frame > 0

\* Until an early change: a history that counts is of the selected look, and a
\* running task works with the selected look, unless a restyle is owed.
History ==
  ~earlyChange =>
    /\ (hasPrevious /\ ~styleDirty) =>
         previous.blend \subseteq {selected} /\ filtered.look = selected
    /\ (Working /\ ~styleDirty) => task.look = selected
    /\ (Working /\ (hasPrevious \/ task.usePrevious)) => previous.blend \subseteq {task.look}
    /\ phase = "filtered" => filtered.blend = {task.look} /\ filtered.look = task.look
    /\ \E look \in Looks : filtered.blend \subseteq {look}
    /\ \E look \in Looks : previous.blend \subseteq {look}

IInv == TypeOK /\ FrameConservation /\ Handshake /\ Buffers /\ History

\* What raw_ can hold: any frame of the camera, none yet, or a torn image, which
\* is no frame.
LEMMA ContentsHold ==
  /\ FrameNumbers \subseteq Contents /\ 0 \in FrameNumbers
  /\ Torn \in Contents /\ Torn > 0
  /\ \A frame \in Contents : frame \in Nat
  BY PipelineAssumption DEF FrameNumbers, Contents, Torn, PipelineAssumption

\* The zeroed buffer is an image.
LEMMA BlankIsAnImage == Blank \in Images
  BY PipelineAssumption, ContentsHold DEF Blank, Images, PipelineAssumption

\* What renderNextLocked composes of a filtered image and a preset is typed.
LEMMA ComposedType ==
  ASSUME NEW image \in Images, NEW ready \in BOOLEAN, NEW label \in Looks
  PROVE  Composed(image, ready, label)
           \in [image: [frame: Contents, look: Looks], label: Looks]
<1>1. Source(image) \in [frame: Contents, look: Looks]
  BY DEF Source, Images
<1>2. Source(Blank) \in [frame: Contents, look: Looks]
  BY BlankIsAnImage DEF Source, Images
<1> QED
  BY <1>1, <1>2 DEF Composed

\* The freshly constructed worker satisfies the invariant.
LEMMA InitInvariant == Init => IInv
<1> SUFFICES ASSUME Init PROVE IInv
  OBVIOUS
<1>1. TypeOK
  <2>1. task \in Tasks
    BY PipelineAssumption, ContentsHold DEF Init, Tasks, PipelineAssumption
  <2>2. snapshot \in [sources: SUBSET [frame: Contents, look: Looks], label: Looks]
    BY PipelineAssumption DEF Init, NoSnapshot
  <2>3. shown \in [image: [frame: Contents, look: Looks], label: Looks]
    BY PipelineAssumption, BlankIsAnImage, ComposedType DEF Init
  <2>4. 0 \in FrameNumbers /\ 0 \in Contents
    BY ContentsHold
  <2> QED
    BY <2>1, <2>2, <2>3, <2>4, PipelineAssumption, BlankIsAnImage
       DEF Init, TypeOK, Phases, PipelineAssumption
<1>2. FrameConservation /\ Handshake /\ Buffers
  BY DEF Init, FrameConservation, Handshake, Buffers, Working, Restyling, NoSnapshot
<1>3. History
  BY PipelineAssumption DEF Init, History, Working, Blank
<1> QED
  BY <1>1, <1>2, <1>3 DEF IInv

\* No step of run(), of submitJpeg or of the UI takes a variable out of its type.
LEMMA TypeStep ==
  ASSUME IInv, [Next]_vars
  PROVE  TypeOK'
<1> USE DEF IInv, TypeOK, Phases, inputVars, historyVars, counterVars
<1>1. CASE TakeFrame
  BY <1>1, ContentsHold DEF Tasks, TakeFrame, UsesHistory, KeepsHistory
<1>2. CASE TakeRestyle
  BY <1>2 DEF Tasks, TakeRestyle, RestyleOwed
<1>3. CASE Decode
  BY <1>3, ContentsHold DEF Decode
<1>4. CASE Filter
  BY <1>4 DEF Images, Tasks, Filter, Rendered
<1>5. CASE CompleteFrame
  <2>1. shown' \in [image: [frame: Contents, look: Looks], label: Looks]
    BY <1>5, ComposedType DEF CompleteFrame
  <2>2. processed' \in Nat /\ failures' \in Nat
    BY <1>5 DEF CompleteFrame
  <2> QED
    BY <1>5, <2>1, <2>2 DEF CompleteFrame, ReleaseSlot
<1>6. CASE FailFrame
  <2>1. shown' \in [image: [frame: Contents, look: Looks], label: Looks]
    BY <1>6, ComposedType DEF FailFrame
  <2>2. processed' \in Nat /\ failures' \in Nat
    BY <1>6 DEF FailFrame
  <2> QED
    BY <1>6, <2>1, <2>2 DEF FailFrame, ReleaseSlot
<1>7. CASE CompleteRestyle
  BY <1>7, ComposedType DEF CompleteRestyle
<1>8. CASE Tick
  BY <1>8, ComposedType DEF Tick
<1>9. CASE WorkerExit
  BY <1>9 DEF WorkerExit, LoopEnds
<1>10. CASE SubmitAccepted
  BY <1>10, PipelineAssumption DEF FrameNumbers, SubmitAccepted, SlotFree
<1>11. CASE SubmitDropped
  BY <1>11, PipelineAssumption DEF FrameNumbers, SubmitDropped, SlotFree
<1>12. ASSUME NEW look \in Looks, ChangeLook(look) PROVE TypeOK'
  BY <1>12 DEF ChangeLook
<1>13. CASE RequestPhoto
  BY <1>13 DEF Images, Tasks, RequestPhoto, CopySources, Source, PhotoFrameReady
<1>14. CASE Stop
  BY <1>14 DEF Stop
<1>15. CASE UNCHANGED vars
  BY <1>15 DEF vars
<1> QED
  BY <1>1, <1>2, <1>3, <1>4, <1>5, <1>6, <1>7, <1>8, <1>9, <1>10, <1>11, <1>12, <1>13,
     <1>14, <1>15 DEF Next, Worker

\* Every step that moves a frame on takes it out of one account and into another:
\* submitJpeg counts it once, and run() moves it from the slot to a result.
LEMMA ConservationStep ==
  ASSUME IInv, [Next]_vars
  PROVE  FrameConservation'
<1> USE DEF IInv, TypeOK, FrameConservation, Handshake, Working, FrameNumbers,
            inputVars, historyVars, counterVars
<1>1. CASE TakeFrame
  BY <1>1 DEF TakeFrame, UsesHistory, KeepsHistory
<1>2. CASE TakeRestyle
  BY <1>2 DEF TakeRestyle, RestyleOwed
<1>3. CASE Decode
  BY <1>3 DEF Decode
<1>4. CASE Filter
  BY <1>4 DEF Filter, Rendered
<1>5. CASE CompleteFrame
  BY <1>5 DEF CompleteFrame, ReleaseSlot
<1>6. CASE FailFrame
  BY <1>6 DEF FailFrame, ReleaseSlot
<1>7. CASE CompleteRestyle
  BY <1>7 DEF CompleteRestyle
<1>8. CASE Tick
  BY <1>8 DEF Tick
<1>9. CASE WorkerExit
  BY <1>9 DEF WorkerExit, LoopEnds
<1>10. CASE SubmitAccepted
  BY <1>10 DEF SubmitAccepted, SlotFree
<1>11. CASE SubmitDropped
  BY <1>11 DEF SubmitDropped, SlotFree
<1>12. ASSUME NEW look \in Looks, ChangeLook(look) PROVE FrameConservation'
  BY <1>12 DEF ChangeLook
<1>13. CASE RequestPhoto
  BY <1>13 DEF RequestPhoto, CopySources, Source, PhotoFrameReady
<1>14. CASE Stop
  BY <1>14 DEF Stop
<1>15. CASE UNCHANGED vars
  BY <1>15 DEF vars
<1> QED
  BY <1>1, <1>2, <1>3, <1>4, <1>5, <1>6, <1>7, <1>8, <1>9, <1>10, <1>11, <1>12, <1>13,
     <1>14, <1>15 DEF Next, Worker

\* inputInUse_ goes up when run() takes a frame and comes down when it has
\* finished it, and a restyle never runs beside a history that counts.
LEMMA HandshakeStep ==
  ASSUME IInv, [Next]_vars
  PROVE  Handshake'
<1> USE DEF IInv, TypeOK, Handshake, Working, Restyling, Phases, Tasks,
            inputVars, historyVars, counterVars
<1>1. CASE TakeFrame
  BY <1>1 DEF TakeFrame, UsesHistory, KeepsHistory
<1>2. CASE TakeRestyle
  BY <1>2 DEF TakeRestyle, RestyleOwed
<1>3. CASE Decode
  BY <1>3 DEF Decode
<1>4. CASE Filter
  BY <1>4 DEF Filter, Rendered
<1>5. CASE CompleteFrame
  BY <1>5 DEF CompleteFrame, ReleaseSlot
<1>6. CASE FailFrame
  BY <1>6 DEF FailFrame, ReleaseSlot
<1>7. CASE CompleteRestyle
  BY <1>7 DEF CompleteRestyle
<1>8. CASE Tick
  BY <1>8 DEF Tick
<1>9. CASE WorkerExit
  BY <1>9 DEF WorkerExit, LoopEnds
<1>10. CASE SubmitAccepted
  BY <1>10 DEF SubmitAccepted, SlotFree
<1>11. CASE SubmitDropped
  BY <1>11 DEF SubmitDropped, SlotFree
<1>12. ASSUME NEW look \in Looks, ChangeLook(look) PROVE Handshake'
  BY <1>12 DEF ChangeLook
<1>13. CASE RequestPhoto
  BY <1>13 DEF RequestPhoto, CopySources, Source, PhotoFrameReady
<1>14. CASE Stop
  BY <1>14 DEF Stop
<1>15. CASE UNCHANGED vars
  BY <1>15 DEF vars
<1> QED
  BY <1>1, <1>2, <1>3, <1>4, <1>5, <1>6, <1>7, <1>8, <1>9, <1>10, <1>11, <1>12, <1>13,
     <1>14, <1>15 DEF Next, Worker

\* submitJpeg leaves jpeg_ alone while run() decodes it, so the frame of the task
\* is the one decoded and the one filtered.
LEMMA BuffersStep ==
  ASSUME IInv, [Next]_vars
  PROVE  Buffers'
<1> USE DEF IInv, TypeOK, Handshake, Buffers, Working, Restyling, FrameNumbers, Images, Tasks, Phases,
            inputVars, historyVars, counterVars
<1>1. CASE TakeFrame
  BY <1>1 DEF TakeFrame, UsesHistory, KeepsHistory
<1>2. CASE TakeRestyle
  BY <1>2 DEF TakeRestyle, RestyleOwed
<1>3. CASE Decode
  BY <1>3, ContentsHold DEF Decode
<1>4. CASE Filter
  BY <1>4 DEF Filter, Rendered
<1>5. CASE CompleteFrame
  BY <1>5 DEF CompleteFrame, ReleaseSlot
<1>6. CASE FailFrame
  BY <1>6 DEF FailFrame, ReleaseSlot
<1>7. CASE CompleteRestyle
  BY <1>7 DEF CompleteRestyle
<1>8. CASE Tick
  BY <1>8 DEF Tick
<1>9. CASE WorkerExit
  BY <1>9 DEF WorkerExit, LoopEnds
<1>10. CASE SubmitAccepted
  BY <1>10 DEF SubmitAccepted, SlotFree
<1>11. CASE SubmitDropped
  BY <1>11 DEF SubmitDropped, SlotFree
<1>12. ASSUME NEW look \in Looks, ChangeLook(look) PROVE Buffers'
  BY <1>12 DEF ChangeLook
<1>13. CASE RequestPhoto
  BY <1>13 DEF RequestPhoto, CopySources, Source, PhotoFrameReady
<1>14. CASE Stop
  BY <1>14 DEF Stop
<1>15. CASE UNCHANGED vars
  BY <1>15 DEF vars
<1> QED
  BY <1>1, <1>2, <1>3, <1>4, <1>5, <1>6, <1>7, <1>8, <1>9, <1>10, <1>11, <1>12, <1>13,
     <1>14, <1>15 DEF Next, Worker

\* Taking a frame or a restyle drops a stale history before processFrame can
\* blend it, and a style change marks it stale, once a frame has been decoded.
LEMMA HistoryStep ==
  ASSUME IInv, [Next]_vars
  PROVE  History'
<1> USE DEF IInv, TypeOK, Handshake, History, Working, Restyling, Images, Tasks, Phases,
            inputVars, historyVars, counterVars
<1>1. CASE TakeFrame
  BY <1>1 DEF TakeFrame, UsesHistory, KeepsHistory
<1>2. CASE TakeRestyle
  BY <1>2 DEF TakeRestyle, RestyleOwed
<1>3. CASE Decode
  BY <1>3 DEF Decode
<1>4. CASE Filter
  BY <1>4 DEF Filter, Rendered
<1>5. CASE CompleteFrame
  BY <1>5 DEF CompleteFrame, ReleaseSlot
<1>6. CASE FailFrame
  BY <1>6 DEF FailFrame, ReleaseSlot
<1>7. CASE CompleteRestyle
  BY <1>7 DEF CompleteRestyle
<1>8. CASE Tick
  BY <1>8 DEF Tick
<1>9. CASE WorkerExit
  BY <1>9 DEF WorkerExit, LoopEnds
<1>10. CASE SubmitAccepted
  BY <1>10 DEF SubmitAccepted, SlotFree
<1>11. CASE SubmitDropped
  BY <1>11 DEF SubmitDropped, SlotFree
<1>12. ASSUME NEW look \in Looks, ChangeLook(look) PROVE History'
  BY <1>12 DEF ChangeLook
<1>13. CASE RequestPhoto
  BY <1>13 DEF RequestPhoto, CopySources, Source, PhotoFrameReady
<1>14. CASE Stop
  BY <1>14 DEF Stop
<1>15. CASE UNCHANGED vars
  BY <1>15 DEF vars
<1> QED
  BY <1>1, <1>2, <1>3, <1>4, <1>5, <1>6, <1>7, <1>8, <1>9, <1>10, <1>11, <1>12, <1>13,
     <1>14, <1>15 DEF Next, Worker

\* The invariant holds in every state of the pipeline.
THEOREM InductiveInvariant == Spec => []IInv
<1>1. IInv /\ [Next]_vars => IInv'
  BY TypeStep, ConservationStep, HandshakeStep, BuffersStep, HistoryStep DEF IInv
<1> QED
  BY InitInvariant, <1>1, PTL DEF Spec

\* No more than one look in a blend that one look contains.
LEMMA OneLook ==
  ASSUME NEW blend, NEW look, blend \subseteq {look}
  PROVE  Cardinality(blend) <= 1
<1>1. IsFiniteSet({look}) /\ Cardinality({look}) = 1
  BY FS_Singleton
<1>2. Cardinality(blend) <= Cardinality({look})
  BY <1>1, FS_Subset
<1> QED
  BY <1>1, <1>2

\* Type correctness of the frame path, for every set of looks.
THEOREM TypesHold == Spec => []TypeOK
  BY InductiveInvariant, PTL DEF IInv

\* submitJpeg and run() lose no frame and count none twice.
THEOREM FramesAreConserved == Spec => []FrameConservation
  BY InductiveInvariant, PTL DEF IInv

\* The compressed buffer is never overwritten under the decoder.
THEOREM DecoderReadsItsFrame == Spec => []DecodedFrameIsTaken
<1>1. IInv => DecodedFrameIsTaken
  BY DEF IInv, Buffers, DecodedFrameIsTaken
<1> QED
  BY InductiveInvariant, <1>1, PTL

\* The temporal history never mixes two looks, but for a change of look while
\* the first frame is being processed.
THEOREM HistoryIsOfOneLook == Spec => []HistoryOfOneLook
<1>1. IInv => HistoryOfOneLook
  BY OneLook DEF IInv, History, HistoryOfOneLook
<1> QED
  BY InductiveInvariant, <1>1, PTL

\* requestPhoto only ever copies a frame that has been filtered.
THEOREM SnapshotsAreFrames == Spec => []SnapshotIsAFrame
<1>1. IInv => SnapshotIsAFrame
  BY DEF IInv, Buffers, SnapshotIsAFrame
<1> QED
  BY InductiveInvariant, <1>1, PTL

\* Only requestPhoto changes the snapshot, and what it copies was rendered with
\* the selected look: while no restyle is owed, so was every image it can meet.
THEOREM SnapshotsShowSelection == Spec => SnapshotShowsSelection
<1>1. ASSUME IInv, Next, snapshot' # snapshot, ~styleDirty, ~earlyChange
      PROVE  \A source \in snapshot'.sources : source.look = selected
  <2>1. RequestPhoto
    BY <1>1 DEF Next, Worker, TakeFrame, TakeRestyle, Decode, Filter, CompleteFrame, FailFrame,
         CompleteRestyle, Tick, WorkerExit, SubmitAccepted, SubmitDropped, ChangeLook, Stop
  <2>2. filtered.look = selected
    BY <1>1, <2>1 DEF RequestPhoto, PhotoFrameReady, IInv, History
  <2>3. phase = "filter" => task.look = selected
    BY <1>1 DEF IInv, History, Working
  <2>4. PICK sources \in CopySources : snapshot' = [sources |-> sources, label |-> selected]
    BY <2>1 DEF RequestPhoto
  <2>5. \A source \in sources : source.look = selected
    BY <2>2, <2>3, <2>4 DEF CopySources, Source
  <2> QED
    BY <2>4, <2>5
<1>2. IInv /\ [Next]_vars
        => [(snapshot' # snapshot /\ ~styleDirty /\ ~earlyChange)
              => \A source \in snapshot'.sources : source.look = selected]_vars
  BY <1>1
<1> QED
  BY InductiveInvariant, <1>2, PTL DEF Spec, SnapshotShowsSelection

=============================================================================
