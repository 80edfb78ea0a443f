----------------------------- MODULE MCActivity -----------------------------
(***************************************************************************)
(* RetroLensActivity with the camera controller it starts and stops:       *)
(* Lifecycle knows the camera as open or not and may be told at any time   *)
(* that its preview runs; here the camera is CaptureGuard's, opened by     *)
(* onResume, released by the pause that releases it, and onCameraReady is  *)
(* called when and only when a preview starts.  Callbacks of the surface,  *)
(* the shutter key and the timers come between those of the activity.      *)
(*                                                                         *)
(* Two sessions let a report, a worker, a timer or a quarantine outlive    *)
(* its own and meet the next.                                              *)
(***************************************************************************)
EXTENDS Lifecycle, Sequences

CONSTANT MaxCaptures   \* CaptureGuard's

ASSUME CaptureAssumption == MaxCaptures \in Nat

VARIABLES active, surfaceReady, previewReady, captureInProgress, generation, cameraEx, opens,
          timers, shutter, stuck, overtaken

guardVars == <<active, surfaceReady, previewReady, captureInProgress, generation, cameraEx, opens,
               timers, shutter, stuck, overtaken>>

Guard == INSTANCE CaptureGuard WITH camera <- cameraEx, MaxOpens <- MaxSessions

-----------------------------------------------------------------------------
ActivityInit == Init /\ Guard!Init

\* onResume calls start() unless the camera is quarantined.
Resumes ==
  /\ OnResume
  /\ IF quarantined THEN UNCHANGED guardVars
                    ELSE Guard!Start /\ (camera' = "open" <=> cameraEx' # 0)

\* onPause calls stop(), which returns at once when there is nothing to stop,
\* unless the camera becomes quarantined.
Pauses ==
  /\ FinishPause
  /\ IF camera' = "closed" /\ active THEN Guard!Stop ELSE UNCHANGED guardVars

\* startPreviewIfReady calls onCameraReady, which looks at resumed first.
TellsActivity ==
  IF ~previewReady /\ previewReady' /\ resumed THEN OnCameraReady ELSE UNCHANGED vars

\* The callbacks of the controller; keys come only while the activity is shown.
Between(Callback) == main = "free" /\ Callback /\ TellsActivity
Timers == Between(Guard!TimerFires)

Pausing == (main # "camera" /\ PauseSteps /\ UNCHANGED guardVars) \/ Pauses
Elsewhere(Step) == Step /\ UNCHANGED guardVars

ActivityNext ==
  \/ Resumes
  \/ Elsewhere(OnPause)
  \/ Pausing
  \/ Elsewhere(RevealSurface)
  \/ Elsewhere(NativeFails)
  \/ Elsewhere(ReportRuns)
  \/ Elsewhere(FrameWorker)
  \/ Elsewhere(NativeFilters)
  \/ Between(Guard!SurfaceCreated)
  \/ Between(Guard!SurfaceDestroyed)
  \/ Between(shown /\ Guard!Capture)
  \/ Between(shown /\ Guard!ShutterKeyUp)
  \/ Timers

\* The fairness of Lifecycle; the handler also runs its timers when they are due,
\* one after the other, between callbacks that all return.
ActivitySpec ==
  /\ ActivityInit /\ [][ActivityNext]_<<vars, guardVars>>
  /\ WF_<<vars, guardVars>>(Pausing)
  /\ WF_<<vars, guardVars>>(Elsewhere(ReportRuns))
  /\ WF_<<vars, guardVars>>(Elsewhere(EndSubmit))
  /\ WF_<<vars, guardVars>>(Elsewhere(Unavailable))
  /\ WF_<<vars, guardVars>>(Elsewhere(PostReport))
  /\ SF_<<vars, guardVars>>(Timers)

-----------------------------------------------------------------------------
(***************************************************************************)
(* CaptureGuard's properties, of the controller as this activity uses it:  *)
(* through pauses that wait, quarantines that leave it running and keys    *)
(* that stay away.                                                         *)
(***************************************************************************)
\* While a capture is in progress a timer that will be heard is armed for it, also
\* when the activity left the camera open; no timer outlives a released camera.
CaptureIsGuarded == Guard!CaptureIsGuarded

\* A timer that comes late, after other presses, pauses and resumes, never lets
\* go of another picture.
TimerReleasesItsOwn == [][Guard!LetsGoOfItsOwn]_guardVars

\* Every picture is let go of, though the key may never come up and the activity
\* may be paused meanwhile, unless Sony's camera refuses (or a second takePicture
\* threw).
ShutterIsLetGo == Guard!ShutterIsLetGo
=============================================================================
