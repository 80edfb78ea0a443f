---------------------------- MODULE CaptureGuard ----------------------------
(***************************************************************************)
(* SonyCameraController: a press of the shutter calls takePicture and arms *)
(* a 425 ms timer; the release of the key or the timer, whichever comes    *)
(* first, calls cancelTakePicture and starts the preview again.  Timers    *)
(* that come late are told apart by captureGeneration and by the camera.   *)
(*                                                                         *)
(* Everything runs on the main thread, so every callback is one action.    *)
(* Sony's camera is external: any call on it may throw.                    *)
(***************************************************************************)
EXTENDS Naturals, Sequences, SequencesExt

CONSTANTS
  MaxOpens,      \* bound: times the controller is started
  MaxCaptures    \* bound: the last generation a capture begins in

VARIABLES
  active, surfaceReady, previewReady, captureInProgress,
  generation,   \* captureGeneration
  camera,       \* cameraEx: the number of the open that returned it, 0 for null
  opens,
  timers,       \* the runnables in the handler's queue, all of one delay
  shutter,      \* Sony: the generation of the picture being taken, 0 for none
  stuck,        \* history: a cancelTakePicture threw
  overtaken     \* history: a takePicture threw while a capture was in progress

guardVars   == <<captureInProgress, generation, timers>>
historyVars == <<stuck, overtaken>>
vars == <<active, surfaceReady, previewReady, camera, opens, guardVars, shutter, historyVars>>

-----------------------------------------------------------------------------
Init ==
  /\ active = FALSE /\ surfaceReady = FALSE /\ previewReady = FALSE
  /\ camera = 0 /\ opens = 0
  /\ captureInProgress = FALSE /\ generation = 0 /\ timers = <<>>
  /\ shutter = 0
  /\ stuck = FALSE /\ overtaken = FALSE

\* startPreviewIfReady, which may fail: what previewReady can be afterwards.
PreviewAfter(surface, preview) ==
  IF active /\ surface /\ ~preview /\ camera # 0 THEN BOOLEAN ELSE {preview}

\* CameraEx.open; the surface callbacks are only registered now, so there is no
\* surface to show a preview on yet.
Start ==
  /\ ~active /\ opens < MaxOpens
  /\ active' = TRUE
  /\ opens' = opens + 1
  /\ camera' \in {0, opens + 1}
  /\ captureInProgress' = FALSE
  /\ UNCHANGED <<surfaceReady, previewReady, generation, timers, shutter, historyVars>>

SurfaceCreated ==
  /\ active
  /\ surfaceReady' = TRUE
  /\ previewReady' \in PreviewAfter(TRUE, previewReady)
  /\ UNCHANGED <<active, camera, opens, guardVars, shutter, historyVars>>

SurfaceDestroyed ==
  /\ active /\ surfaceReady
  /\ surfaceReady' = FALSE /\ previewReady' = FALSE
  /\ UNCHANGED <<active, camera, opens, guardVars, shutter, historyVars>>

\* The shutter key goes down: getCameraEx, then takePicture.
CanCapture == active /\ previewReady /\ camera # 0

\* takePicture threw; the generation it took stays used up.
AfterThrow_inProgress == captureInProgress' = TRUE   \* mutant: set before the call
AfterThrow == UNCHANGED captureInProgress

Capture ==
  /\ CanCapture /\ generation < MaxCaptures
  /\ generation' = generation + 1
  /\ \/ /\ shutter' = generation + 1
        /\ captureInProgress' = TRUE /\ previewReady' = FALSE
        /\ timers' = Append(timers, [generation |-> generation + 1, camera |-> camera])
        /\ UNCHANGED overtaken
     \/ /\ AfterThrow
        /\ overtaken' = (overtaken \/ captureInProgress)
        /\ UNCHANGED <<shutter, previewReady, timers>>
  /\ UNCHANGED <<active, surfaceReady, camera, opens, stuck>>

\* releaseShutterForGeneration, past its guard.
AfterRelease == captureInProgress' = FALSE

ReleaseShutter ==
  /\ AfterRelease
  /\ generation' = generation + 1
  /\ \/ /\ shutter' = 0
        /\ previewReady' \in PreviewAfter(surfaceReady, previewReady)
        /\ UNCHANGED stuck
     \/ stuck' = TRUE /\ UNCHANGED <<shutter, previewReady>>
  /\ UNCHANGED <<active, surfaceReady, camera, opens, overtaken>>

\* The shutter key comes up.
ShutterKeyUp ==
  /\ active /\ camera # 0 /\ captureInProgress
  /\ ReleaseShutter
  /\ UNCHANGED timers

\* The guards of the runnable and of releaseShutterForGeneration.
TimerApplies_anyGeneration(timer) ==   \* mutant: forgets captureGeneration
  active /\ captureInProgress /\ timer.camera = camera
TimerApplies_withPreview(timer) ==     \* mutant: waits for the preview it restores
  active /\ captureInProgress /\ previewReady /\ timer.generation = generation
TimerApplies(timer) ==
  active /\ captureInProgress /\ timer.generation = generation /\ timer.camera = camera

TimerFires ==
  /\ timers # <<>>
  /\ timers' = Tail(timers)
  /\ IF TimerApplies(Head(timers))
       THEN ReleaseShutter
       ELSE UNCHANGED <<active, surfaceReady, previewReady, captureInProgress, generation, camera,
                        opens, shutter, historyVars>>

\* stop(): cancelTakePicture may throw, release() is called all the same.
TimersAfterStop == <<>>

Stop ==
  /\ active
  /\ active' = FALSE
  /\ generation' = generation + 1
  /\ timers' = TimersAfterStop
  /\ camera' = 0
  /\ surfaceReady' = FALSE /\ previewReady' = FALSE /\ captureInProgress' = FALSE
  /\ shutter' = 0
  /\ UNCHANGED <<opens, historyVars>>

-----------------------------------------------------------------------------
Next ==
  \/ Start
  \/ SurfaceCreated
  \/ SurfaceDestroyed
  \/ Capture
  \/ ShutterKeyUp
  \/ TimerFires
  \/ Stop

Spec == Init /\ [][Next]_vars

-----------------------------------------------------------------------------
(***************************************************************************)
(* Properties.                                                             *)
(***************************************************************************)
FlagsOK ==
  /\ active \in BOOLEAN /\ surfaceReady \in BOOLEAN /\ previewReady \in BOOLEAN
  /\ captureInProgress \in BOOLEAN /\ stuck \in BOOLEAN /\ overtaken \in BOOLEAN

\* The controller's variables keep their types; a generation is used up by
\* every capture, release and stop.
TypeOK ==
  /\ FlagsOK
  /\ generation \in 0..(MaxCaptures + 1 + MaxOpens)
  /\ camera \in 0..MaxOpens /\ opens \in 0..MaxOpens
  /\ timers \in Seq([generation: 1..MaxCaptures, camera: 1..MaxOpens])
  /\ shutter \in 0..MaxCaptures

\* A timer only ever lets go of the picture it was armed for: one that comes
\* late, after a release by the key and another press, leaves that press alone.
LetsGoOfItsOwn ==
  (timers # <<>> /\ timers' = Tail(timers) /\ active' /\ shutter # 0 /\ shutter' = 0)
    => Head(timers).generation = shutter

\* While a capture is in progress it is the one Sony's camera is busy with, and
\* a timer that will be heard is armed for it, so that a lost key release
\* cannot hold the shutter: except when another takePicture threw meanwhile.
\* No timer of a camera that was released is left in the queue.
CaptureIsGuarded ==
  /\ TypeOK
  /\ (captureInProgress /\ ~overtaken) =>
       /\ shutter = generation
       /\ Contains(timers, [generation |-> generation, camera |-> camera])
  /\ \A i \in DOMAIN timers : timers[i].camera = camera

\* Every picture is let go of, whether or not the key comes up, unless Sony's
\* camera refuses (or a second takePicture threw, as above).
ShutterIsLetGo == []<>(shutter = 0 \/ stuck \/ overtaken)

=============================================================================
