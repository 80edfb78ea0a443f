--------------------------- MODULE FramePipeline ---------------------------
(***************************************************************************)
(* The analytical frame pipeline of DisplayProbeWorker: the one-slot input *)
(* that submitJpeg fills, the process thread (run) that decodes and        *)
(* filters outside mutex_, the style changes of the UI thread, and the     *)
(* snapshot requestPhoto takes of the filtered frame.                      *)
(*                                                                         *)
(* Every action is one critical section of mutex_, or one stretch of run() *)
(* between two of them.  A "look" stands for everything processFrame reads *)
(* besides pixels: preset, master intensity and the preset's adjustments.  *)
(* An image is the number of the frame it shows, the look it was rendered  *)
(* with, and the set of looks that reached it through the temporal blend.  *)
(***************************************************************************)
EXTENDS Integers, FiniteSets

CONSTANTS
  Looks,        \* the looks a user can select
  InitialLook,  \* the look selected when the worker is constructed
  MaxFrames     \* bound: frames the camera offers (counters are ints in the code)

ASSUME PipelineAssumption ==
  /\ InitialLook \in Looks
  /\ MaxFrames \in Nat

VARIABLES
  running,       \* running_
  phase,         \* where the process thread is
  task,          \* what run() copied to its stack before unlocking
  inputPending, inputInUse, \* the one-slot input handshake
  jpeg,          \* jpeg_: the number of the frame the compressed buffer holds
  raw,           \* raw_: the number of the last frame decoded, 0 before any, or Torn
  filtered,      \* filtered_
  previous,      \* previous_: the temporal history
  hasPrevious, hasRaw, styleDirty, selected,
  decodeError,   \* filterMetrics_.decodeError
  offered, dropped, processed, failures, \* frames seen, and filterMetrics_ counters
  snapshot,      \* photoFrame_ and photoPreset_ of the last accepted request
  shown,         \* pixels_: what renderNextLocked last composed
  earlyChange    \* history variable: a look changed while the first frame was in work

inputVars   == <<inputPending, inputInUse, jpeg>>
historyVars == <<previous, hasPrevious, hasRaw>>
counterVars == <<decodeError, offered, dropped, processed, failures>>
vars == <<running, phase, task, inputVars, raw, filtered, historyVars, styleDirty,
          selected, counterVars, snapshot, shown, earlyChange>>

-----------------------------------------------------------------------------
FrameNumbers == 0..MaxFrames
\* A decode that fails half-way leaves rows of two frames in raw_.
Torn == MaxFrames + 1
Contents == 0..Torn
Images == [frame: Contents, look: Looks, blend: SUBSET Looks]
Tasks  == [kind: {"frame", "restyle"}, frame: Contents, look: Looks, usePrevious: BOOLEAN]
Phases == {"idle", "decode", "undecoded", "filter", "filtered", "exited"}

\* A zeroed frame buffer: no frame, and nothing blended into it.
Blank == [frame |-> 0, look |-> InitialLook, blend |-> {}]

\* The look and frame of an image, without its history.
Source(image) == [frame |-> image.frame, look |-> image.look]
NoSnapshot == [sources |-> {}, label |-> InitialLook]

Rendered(frame, look, history) ==
  [frame |-> frame, look |-> look, blend |-> {look} \cup history]

\* renderNextLocked draws the frame only once hasFrame is set, beside the
\* preset the UI says is selected.
Composed(image, ready, label) ==
  [image |-> IF ready THEN Source(image) ELSE Source(Blank), label |-> label]

(***************************************************************************)
(* The conditions the critical sections test.  The definitions named with  *)
(* an underscore are mutants: the condition with one plausible slip, used  *)
(* to show that a property can fail.                                       *)
(***************************************************************************)
SlotFree_whileDecoding  == ~inputPending   \* mutant: forgets inputInUse_
SlotFree_whilePending   == ~inputInUse     \* mutant: forgets inputPending_
SlotFree == ~inputPending /\ ~inputInUse

\* The history is used unless a style change made it stale ...
UsesHistory_always == hasPrevious          \* mutant: forgets styleDirty_
UsesHistory == hasPrevious /\ ~styleDirty

\* ... and a stale history stops counting as a frame as soon as it is noticed.
KeepsHistory_always == hasPrevious         \* mutant: hasPrevious_ = false is missing
KeepsHistory == hasPrevious /\ ~styleDirty

\* Without a new frame, a style change is applied to the raw frame at hand.
RestyleOwed_withNextFrame == styleDirty /\ hasRaw /\ inputPending   \* mutant
RestyleOwed == styleDirty /\ hasRaw

PhotoFrameReady == hasPrevious

LoopEnds == ~running

ReleaseSlot == inputInUse' = FALSE

-----------------------------------------------------------------------------
Init ==
  /\ running = TRUE
  /\ phase = "idle"
  /\ task = [kind |-> "frame", frame |-> 0, look |-> InitialLook, usePrevious |-> FALSE]
  /\ inputPending = FALSE /\ inputInUse = FALSE /\ jpeg = 0
  /\ raw = 0 /\ filtered = Blank /\ previous = Blank
  /\ hasPrevious = FALSE /\ hasRaw = FALSE /\ styleDirty = FALSE
  /\ selected = InitialLook
  /\ decodeError = FALSE
  /\ offered = 0 /\ dropped = 0 /\ processed = 0 /\ failures = 0
  /\ snapshot = NoSnapshot
  /\ shown = Composed(Blank, FALSE, InitialLook)
  /\ earlyChange = FALSE

(***************************************************************************)
(* The analytical Java thread.                                             *)
(***************************************************************************)
SubmitAccepted ==
  /\ offered < MaxFrames
  /\ running
  /\ SlotFree
  /\ offered' = offered + 1
  /\ jpeg' = offered + 1
  /\ inputPending' = TRUE
  /\ UNCHANGED <<running, phase, task, inputInUse, raw, filtered, historyVars, styleDirty,
                 selected, decodeError, dropped, processed, failures, snapshot, shown,
                 earlyChange>>

SubmitDropped ==
  /\ offered < MaxFrames
  /\ running
  /\ ~SlotFree
  /\ offered' = offered + 1
  /\ dropped' = dropped + 1
  /\ UNCHANGED <<running, phase, task, inputVars, raw, filtered, historyVars, styleDirty,
                 selected, decodeError, processed, failures, snapshot, shown, earlyChange>>

(***************************************************************************)
(* The process thread.                                                     *)
(***************************************************************************)
TakeFrame ==
  /\ phase = "idle" /\ running
  /\ inputPending
  /\ inputPending' = FALSE
  /\ inputInUse' = TRUE
  /\ task' = [kind |-> "frame", frame |-> jpeg, look |-> selected,
              usePrevious |-> UsesHistory]
  /\ hasPrevious' = KeepsHistory
  /\ styleDirty' = FALSE
  /\ phase' = "decode"
  /\ UNCHANGED <<running, jpeg, raw, filtered, previous, hasRaw, selected, counterVars,
                 snapshot, shown, earlyChange>>

TakeRestyle ==
  /\ phase = "idle" /\ running
  /\ ~inputPending
  /\ RestyleOwed
  /\ styleDirty' = FALSE
  /\ hasPrevious' = FALSE
  /\ task' = [kind |-> "restyle", frame |-> raw, look |-> selected, usePrevious |-> FALSE]
  /\ phase' = "filter"
  /\ UNCHANGED <<running, inputVars, raw, filtered, previous, hasRaw, selected, counterVars,
                 snapshot, shown, earlyChange>>

\* decodeReducedJpeg reads jpeg_ and writes raw_ outside the lock, block by block.
Decode ==
  /\ phase = "decode"
  /\ \/ raw' = jpeg /\ phase' = "filter"
     \/ raw' \in {raw, Torn} /\ phase' = "undecoded"
  /\ UNCHANGED <<running, task, inputVars, filtered, historyVars, styleDirty, selected,
                 counterVars, snapshot, shown, earlyChange>>

\* processFrame reads raw_ and previous_ and writes filtered_ outside the lock.
Filter ==
  /\ phase = "filter"
  /\ filtered' = Rendered(raw, task.look, IF task.usePrevious THEN previous.blend ELSE {})
  /\ phase' = "filtered"
  /\ UNCHANGED <<running, task, inputVars, raw, historyVars, styleDirty, selected,
                 counterVars, snapshot, shown, earlyChange>>

CompleteFrame ==
  /\ phase = "filtered" /\ task.kind = "frame"
  /\ previous' = filtered
  /\ hasPrevious' = TRUE
  /\ hasRaw' = TRUE
  /\ decodeError' = FALSE
  /\ processed' = processed + 1
  /\ ReleaseSlot
  /\ shown' = Composed(filtered, TRUE, selected)
  /\ phase' = "idle"
  /\ UNCHANGED <<running, task, inputPending, jpeg, raw, filtered, styleDirty, selected,
                 offered, dropped, failures, snapshot, earlyChange>>

FailFrame ==
  /\ phase = "undecoded"
  /\ decodeError' = TRUE
  /\ failures' = failures + 1
  /\ ReleaseSlot
  /\ shown' = Composed(filtered, hasRaw, selected)
  /\ phase' = "idle"
  /\ UNCHANGED <<running, task, inputPending, jpeg, raw, filtered, historyVars, styleDirty,
                 selected, offered, dropped, processed, snapshot, earlyChange>>

CompleteRestyle ==
  /\ phase = "filtered" /\ task.kind = "restyle"
  /\ previous' = filtered
  /\ hasPrevious' = TRUE
  /\ shown' = Composed(filtered, TRUE, selected)
  /\ phase' = "idle"
  /\ UNCHANGED <<running, task, inputVars, raw, filtered, hasRaw, styleDirty, selected,
                 counterVars, snapshot, earlyChange>>

\* A wake-up, or the interval's timeout, with nothing to process: render only.
Tick ==
  /\ phase = "idle" /\ running
  /\ ~inputPending /\ ~RestyleOwed
  /\ shown' = Composed(filtered, hasRaw, selected)
  /\ UNCHANGED <<running, phase, task, inputVars, raw, filtered, historyVars, styleDirty,
                 selected, counterVars, snapshot, earlyChange>>

WorkerExit ==
  /\ phase = "idle" /\ LoopEnds
  /\ phase' = "exited"
  /\ UNCHANGED <<running, task, inputVars, raw, filtered, historyVars, styleDirty, selected,
                 counterVars, snapshot, shown, earlyChange>>

(***************************************************************************)
(* The UI thread.                                                          *)
(***************************************************************************)
\* changeStyle, a dial or swipe, a category step, a quick control, and the
\* settings the photo thread loads all end in styleDirty_ = hasRaw_.
ChangeLook(look) ==
  /\ selected' = look
  /\ styleDirty' = hasRaw
  /\ earlyChange' = (earlyChange \/ (inputInUse /\ ~hasRaw))
  /\ UNCHANGED <<running, phase, task, inputVars, raw, filtered, historyVars, counterVars,
                 snapshot, shown>>

\* The memcpy of filtered_ is under mutex_, processFrame's writes are not: while
\* the process thread is filtering, the copy may hold the old image, the new
\* one, or part of each.
CopySources ==
  IF phase = "filter"
    THEN (SUBSET {Source(filtered), [frame |-> raw, look |-> task.look]}) \ {{}}
    ELSE {{Source(filtered)}}

\* requestPhoto as far as the pipeline sees it: refused without a processed
\* frame; storage and the job slot are PhotoWorker's part.
RequestPhoto ==
  /\ PhotoFrameReady
  /\ \E sources \in CopySources : snapshot' = [sources |-> sources, label |-> selected]
  /\ UNCHANGED <<running, phase, task, inputVars, raw, filtered, historyVars, styleDirty,
                 selected, counterVars, shown, earlyChange>>

Stop ==
  /\ running
  /\ running' = FALSE
  /\ UNCHANGED <<phase, task, inputVars, raw, filtered, historyVars, styleDirty, selected,
                 counterVars, snapshot, shown, earlyChange>>

-----------------------------------------------------------------------------
Worker ==
  \/ TakeFrame
  \/ TakeRestyle
  \/ Decode
  \/ Filter
  \/ CompleteFrame
  \/ FailFrame
  \/ CompleteRestyle
  \/ Tick
  \/ WorkerExit

Next ==
  \/ Worker
  \/ SubmitAccepted
  \/ SubmitDropped
  \/ \E look \in Looks : ChangeLook(look)
  \/ RequestPhoto
  \/ Stop

Spec == Init /\ [][Next]_vars

\* The process thread is a POSIX thread that a condition or its timed wait
\* always wakes; nothing is assumed of the camera or of the user.
FairSpec == Spec /\ WF_vars(Worker)

-----------------------------------------------------------------------------
(***************************************************************************)
(* Properties.                                                             *)
(***************************************************************************)
\* The variables of DisplayProbeWorker's frame path keep their types.
TypeOK ==
  /\ running \in BOOLEAN /\ phase \in Phases /\ task \in Tasks
  /\ inputPending \in BOOLEAN /\ inputInUse \in BOOLEAN /\ jpeg \in FrameNumbers
  /\ raw \in Contents /\ filtered \in Images /\ previous \in Images
  /\ hasPrevious \in BOOLEAN /\ hasRaw \in BOOLEAN /\ styleDirty \in BOOLEAN
  /\ selected \in Looks
  /\ decodeError \in BOOLEAN
  /\ offered \in FrameNumbers /\ dropped \in Nat /\ processed \in Nat /\ failures \in Nat
  /\ snapshot \in [sources: SUBSET [frame: Contents, look: Looks], label: Looks]
  /\ shown \in [image: [frame: Contents, look: Looks], label: Looks]
  /\ earlyChange \in BOOLEAN

\* Every frame the camera hands over is dropped, processed, failed, or the one
\* the slot holds: submitJpeg and run never lose a frame or count it twice.
FrameConservation ==
  offered = dropped + processed + failures
            + (IF inputPending THEN 1 ELSE 0) + (IF inputInUse THEN 1 ELSE 0)

\* The compressed buffer is not overwritten under the decoder: what run()
\* decodes outside the lock is the frame it took from the slot.
DecodedFrameIsTaken ==
  (phase \in {"filter", "filtered"} /\ task.kind = "frame") => raw = task.frame

\* A style change resets the temporal history: no image ever blends two looks,
\* unless the look was changed while the very first frame was being processed.
HistoryOfOneLook ==
  ~earlyChange => \A image \in {filtered, previous} : Cardinality(image.blend) <= 1

\* A photo taken while no restyle is owed shows the preset its sidecar will
\* name, even when the copy races the process thread (same exception).
SnapshotShowsSelection ==
  [][(snapshot' # snapshot /\ ~styleDirty /\ ~earlyChange)
       => \A source \in snapshot'.sources : source.look = selected]_vars

\* requestPhoto never copies the zeroed buffer: hasPrevious_ is not up before
\* a frame has been filtered.
SnapshotIsAFrame == \A source \in snapshot.sources : source.frame > 0

\* A change of look is shown without waiting for another camera frame, unless
\* it is changed again, a decode fails or the worker stops.
LookReachesScreen ==
  \A look \in Looks :
    (styleDirty /\ selected = look)
      ~> (shown.image.look = look \/ selected # look \/ decodeError \/ ~running)

(***************************************************************************)
(* A promise the code does not keep.                                       *)
(***************************************************************************)
\* README: "Temporal history is bounded to the previous frame and resets on
\* style changes."
HistoryResetsOnStyleChange == Cardinality(filtered.blend) <= 1

=============================================================================
