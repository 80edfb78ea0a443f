------------------------------ MODULE Display ------------------------------
(***************************************************************************)
(* From the camera's buffers to the surface: the frame source counting     *)
(* buffers (CameraSequenceFrameSource, RetroLensActivity), the native      *)
(* worker that decodes them and composes the screen, and the controller    *)
(* that reveals the surface and posts to it every 125 ms                   *)
(* (NativeDisplayProbeController).                                         *)
(*                                                                         *)
(* Three threads.  Between the native post and what Java does with its     *)
(* result the worker may complete a frame; ui tells where the UI thread    *)
(* is.  Composition is Screen's; only the picture and the alert are kept.  *)
(* Android is external: it makes a surface for a visible view only, may    *)
(* take it away, and a post may fail at any of its calls.                  *)
(***************************************************************************)
EXTENDS Integers

CONSTANTS
  MaxFrames,   \* bound: buffers taken from the sequence
  MaxStarts    \* bound: native workers created

ASSUME DisplayAssumption == MaxFrames \in Nat /\ MaxStarts \in Nat

Outcomes == {"ok", "lockFailed", "unsupported", "postFailed"}
Repeated == 3   \* decode failures before the first frame that end the preview

VARIABLES
  active, starts,                \* controller: running, and how often it was started
  visible, surface, surfaceReady,\* the view, Android's surface, the controller's flag
  ticks, tickScheduled,          \* animationTicks queued, and the controller's flag
  statsTick, revealRequested,
  ui, outcome,                   \* "idle" or "posted", and the result of the post
  shown,                         \* what the surface shows: a drawing, Undrawn or Unposted
  scene, input, processed, failures, decodeError, drawn,   \* the native worker
  told,                          \* received - released as last told to it
  source, buffer,                \* the frame worker and the kind of buffer it holds
  received, released, taken,     \* RetroLensActivity's counts, and the buffers fetched
  leaked, foreign                \* a release failed; a buffer was not a DeviceBuffer

controlVars == <<active, starts, visible, surface, surfaceReady, ticks, tickScheduled,
                 statsTick, revealRequested, ui, outcome, shown>>
workerVars == <<scene, input, processed, failures, decodeError, drawn>>
countVars == <<received, released, taken, leaked, foreign>>
vars == <<controlVars, workerVars, told, source, buffer, countVars>>

S == INSTANCE Screen WITH Metrics <- {}, m <- drawn, screen <- drawn

-----------------------------------------------------------------------------
(* The native worker *)

\* renderNextLocked, with the metrics it passes on; d are the frames processed.
Composed(sceneNow, d, error, outstanding) ==
  LET n == [scene |-> sceneNow, hasFrame |-> d > 0, thumbnail |-> FALSE,
            decodeError |-> error, outstanding |-> outstanding]
  IN [scene |-> sceneNow, picture |-> S!FullFrame(n), alert |-> S!AlertPieces(n) # <<>>]
Unposted == [scene |-> "unposted", picture |-> "none", alert |-> FALSE]
Undrawn == [scene |-> "undrawn", picture |-> "none", alert |-> FALSE]
Blank == [scene |-> "camera", picture |-> "none", alert |-> FALSE]
Draw == drawn' = Composed(scene', processed', decodeError', told)

\* The metrics of a completed frame and the drawing change in one critical section.
DrawCompleted_later == UNCHANGED drawn   \* mutant: drawn at the next tick
DrawCompleted == Draw
AfterDecode == "none"
CompleteFrame ==
  /\ active /\ input # "none"
  /\ input' = AfterDecode
  /\ IF input = "jpeg"
     THEN processed' = processed + 1 /\ decodeError' = FALSE /\ UNCHANGED failures
     ELSE failures' = failures + 1 /\ decodeError' = TRUE /\ UNCHANGED processed
  /\ UNCHANGED scene /\ DrawCompleted
  /\ UNCHANGED <<controlVars, told, source, buffer, countVars>>

Redraw ==
  /\ active /\ UNCHANGED <<scene, input, processed, failures, decodeError>> /\ Draw
  /\ UNCHANGED <<controlVars, told, source, buffer, countVars>>

KeyPlayback ==
  /\ active /\ ui = "idle"
  /\ scene' = IF scene = "gallery" THEN "camera" ELSE "gallery"
  /\ UNCHANGED <<controlVars, input, processed, failures, decodeError, drawn, told, source,
                 buffer, countVars>>

-----------------------------------------------------------------------------
(* The controller on the UI thread *)
RemoveCallbacks == 0
Fail ==   \* fail() and stop()
  /\ active' = FALSE /\ ticks' = RemoveCallbacks /\ tickScheduled' = FALSE /\ statsTick' = FALSE
  /\ visible' = FALSE /\ surface' = FALSE /\ surfaceReady' = FALSE /\ shown' = Unposted
  /\ ui' = "idle" /\ UNCHANGED <<starts, revealRequested, outcome>>

StatsScheduled_never == FALSE   \* mutant: stats are polled after a post only
StatsScheduled == TRUE
Start ==
  /\ ui = "idle" /\ ~active /\ starts < MaxStarts
  /\ active' = TRUE /\ starts' = starts + 1 /\ statsTick' = StatsScheduled /\ revealRequested' = FALSE
  /\ scene' = "camera" /\ input' = "none" /\ processed' = 0 /\ failures' = 0
  /\ decodeError' = FALSE /\ drawn' = Blank /\ told' = 0
  /\ UNCHANGED <<visible, surface, surfaceReady, ticks, tickScheduled, ui, outcome, shown,
                 source, buffer, countVars>>

Stop ==
  /\ ui = "idle" /\ active /\ Fail
  /\ UNCHANGED <<workerVars, told, source, buffer, countVars>>

\* postFrame up to the return of nativePostDisplayProbe: with a format it does
\* not know, blitLatest writes nothing and the buffer is posted all the same.
Post ==
  IF active /\ surfaceReady' /\ surface'
  THEN /\ ui' = "posted" /\ outcome' \in Outcomes
       /\ shown' = IF outcome' = "ok" THEN drawn
                   ELSE IF outcome' = "unsupported" THEN Undrawn ELSE shown
  ELSE UNCHANGED <<ui, outcome, shown>>

GivesUp == processed = 0 /\ failures >= Repeated
Reveals == processed > 0
PollStats ==
  /\ revealRequested' = (revealRequested \/ Reveals)
  /\ visible' = (visible \/ (~revealRequested /\ Reveals))

TakeTick == ticks' = ticks - 1 /\ tickScheduled' = FALSE
AnimationTick ==
  /\ ui = "idle" /\ ticks > 0
  /\ TakeTick /\ UNCHANGED <<surface, surfaceReady>> /\ Post
  /\ UNCHANGED <<active, starts, visible, statsTick, revealRequested, workerVars, told, source,
                 buffer, countVars>>

\* beginPosting, for surfaceCreated and for the surfaceChanged that follows it.
BeginPosting_twice == UNCHANGED ticks /\ tickScheduled' = FALSE   \* mutant: the queued tick stays
BeginPosting == ticks' = 0 /\ tickScheduled' = FALSE
SurfaceCallback ==
  /\ ui = "idle" /\ active /\ visible
  /\ surface' = TRUE /\ surfaceReady' = TRUE
  /\ BeginPosting /\ Post
  /\ UNCHANGED <<active, starts, visible, statsTick, revealRequested, workerVars, told, source,
                 buffer, countVars>>

SurfaceDestroyed ==
  /\ ui = "idle" /\ active /\ surface
  /\ surface' = FALSE /\ surfaceReady' = FALSE /\ shown' = Unposted
  /\ UNCHANGED <<active, starts, visible, ticks, tickScheduled, statsTick, revealRequested, ui,
                 outcome, workerVars, told, source, buffer, countVars>>

\* The rest of postFrame, and its caller's scheduleNextFrame.
PostFailed ==
  /\ ui = "posted" /\ outcome # "ok" /\ Fail
  /\ UNCHANGED <<workerVars, told, source, buffer, countVars>>
Posted ==
  /\ ui = "posted" /\ outcome = "ok"
  /\ IF GivesUp   \* then scheduleNextFrame finds the controller stopped
     THEN Fail
     ELSE /\ PollStats /\ ui' = "idle"
          /\ ticks' = IF tickScheduled THEN ticks ELSE ticks + 1
          /\ tickScheduled' = TRUE
          /\ UNCHANGED <<active, starts, surface, surfaceReady, statsTick, outcome, shown>>
  /\ UNCHANGED <<workerVars, told, source, buffer, countVars>>

StatsTick ==
  /\ ui = "idle" /\ statsTick
  /\ IF GivesUp
     THEN Fail
     ELSE PollStats /\ UNCHANGED <<active, starts, surface, surfaceReady, ticks, tickScheduled,
                                   statsTick, ui, outcome, shown>>
  /\ UNCHANGED <<workerVars, told, source, buffer, countVars>>

-----------------------------------------------------------------------------
(* The frame worker: each buffer is counted, submitted and released *)
Tell == told' = IF active THEN received' - released' ELSE told

\* The sequence is started by the first native worker and outlives it.
Fetch ==
  /\ source = "poll" /\ starts > 0 /\ taken < MaxFrames
  /\ buffer' \in {"jpeg", "broken", "foreign"} /\ taken' = taken + 1
  /\ IF buffer' = "foreign"   \* not a DeviceBuffer: logged and only released
     THEN source' = "release" /\ foreign' = TRUE
     ELSE source' = "count" /\ UNCHANGED foreign
  /\ UNCHANGED <<controlVars, workerVars, told, received, released, leaked>>

Counts_accepted == IF input = "none" THEN 1 ELSE 0   \* mutant: a dropped frame is not counted
Counts == 1
OnFrame ==
  /\ source = "count" /\ source' = "release"
  /\ received' = received + Counts /\ UNCHANGED <<released, taken, leaked, foreign>>
  /\ Tell
  /\ input' = IF active /\ input = "none" THEN buffer ELSE input
  /\ UNCHANGED <<controlVars, scene, processed, failures, decodeError, drawn, buffer>>

ReleaseBuffer ==
  /\ source = "release" /\ source' = "poll"
  /\ UNCHANGED <<controlVars, workerVars, buffer, received, taken, foreign>>
  /\ \/ released' = released + 1 /\ UNCHANGED leaked /\ Tell
     \/ leaked' = TRUE /\ UNCHANGED <<released, told>>   \* release() throws

-----------------------------------------------------------------------------
Init ==
  /\ active = FALSE /\ starts = 0 /\ visible = FALSE /\ surface = FALSE /\ surfaceReady = FALSE
  /\ ticks = 0 /\ tickScheduled = FALSE /\ statsTick = FALSE /\ revealRequested = FALSE
  /\ ui = "idle" /\ outcome = "ok" /\ shown = Unposted
  /\ scene = "camera" /\ input = "none" /\ processed = 0 /\ failures = 0
  /\ decodeError = FALSE /\ drawn = Blank /\ told = 0
  /\ source = "poll" /\ buffer = "jpeg"
  /\ received = 0 /\ released = 0 /\ taken = 0 /\ leaked = FALSE /\ foreign = FALSE

Worker == CompleteFrame \/ Redraw
Handler == AnimationTick \/ PostFailed \/ Posted \/ StatsTick
FrameWorker == Fetch \/ OnFrame \/ ReleaseBuffer
Next ==
  \/ Worker \/ Handler \/ FrameWorker
  \/ KeyPlayback \/ Start \/ Stop \/ SurfaceCallback \/ SurfaceDestroyed
Spec == Init /\ [][Next]_vars

\* The native thread runs, the handler delivers its messages.  Nothing makes
\* the camera send frames, the user act or Android keep the surface.
FairSpec ==
  /\ Spec /\ WF_vars(CompleteFrame) /\ WF_vars(AnimationTick) /\ WF_vars(StatsTick)
  /\ WF_vars(PostFailed \/ Posted)

-----------------------------------------------------------------------------
(***************************************************************************)
(* What the code keeps                                                     *)
(***************************************************************************)
Drawings == [scene : {"camera", "gallery"}, picture : {"none", "filtered"}, alert : BOOLEAN]
TypeOK ==
  /\ active \in BOOLEAN /\ starts \in 0..MaxStarts /\ visible \in BOOLEAN
  /\ surface \in BOOLEAN /\ surfaceReady \in BOOLEAN
  /\ ticks \in Nat /\ tickScheduled \in BOOLEAN
  /\ statsTick \in BOOLEAN /\ revealRequested \in BOOLEAN
  /\ ui \in {"idle", "posted"} /\ outcome \in Outcomes
  /\ shown \in Drawings \union {Unposted, Undrawn} /\ drawn \in Drawings
  /\ scene \in {"camera", "gallery"} /\ input \in {"none", "jpeg", "broken"}
  /\ processed \in 0..MaxFrames /\ failures \in 0..MaxFrames /\ decodeError \in BOOLEAN
  /\ source \in {"poll", "count", "release"} /\ buffer \in {"jpeg", "broken", "foreign"}
  /\ received \in 0..taken /\ released \in 0..taken /\ taken \in 0..MaxFrames

\* README.md: "the opaque native surface is revealed only after a filtered frame
\* is ready".  Whenever the UI thread is done with a post, a surface over the Sony
\* preview shows a filtered picture or the gallery: never the status screen, an
\* empty screen, or a buffer that nothing was drawn into.
OverlayIsFiltered ==
  (ui = "idle" /\ visible /\ shown # Unposted) =>
    shown # Undrawn /\ (shown.scene = "gallery" \/ shown.picture = "filtered")

\* "BUFFER IMBALANCE" is no false alarm: a buffer was not released, or one came
\* that was not a DeviceBuffer, which is released without having been counted.
ImbalanceHasACause == (told < 0 \/ told > 1) => leaked \/ foreign

\* One chain of ticks posts, for as long as there is a surface: neither two
\* surface callbacks in a row nor a poll that fails inside postFrame leave a
\* second chain behind or none, and a chain ends with the runtime.
PostingGoesOn ==
  /\ [](TypeOK /\ ticks <= 1 /\ (ticks > 0 => active))
  /\ []<>(ui = "posted" \/ ~active \/ ~surface)

\* The poll comes to its decision although nothing is posted yet: the first
\* filtered frame reveals the surface, and decoding that fails three times
\* before it ends the preview.  (After one processed frame, decode failures only
\* raise an alert over the old picture, whatever README.md says of them.)
PollDecides ==
  /\ []<>(visible \/ ~active \/ processed = 0)
  /\ []<>(~active \/ processed > 0 \/ failures < Repeated)

=============================================================================
