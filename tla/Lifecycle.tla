----------------------------- MODULE Lifecycle -----------------------------
(***************************************************************************)
(* RetroLensActivity with the three parts it starts and stops: CameraEx    *)
(* (SonyCameraController), the analytical sequence and its worker thread   *)
(* (CameraSequenceFrameSource), and the native worker                      *)
(* (NativeDisplayProbeController).                                         *)
(*                                                                         *)
(* Two threads: the main thread, on which every Android callback runs, and *)
(* the frame worker.  A callback is one action unless it waits for the     *)
(* worker or calls Sony's sequence outside sequenceLock; then it is a few. *)
(* Between callbacks main = "free".  One frame worker is enough because no *)
(* second one is ever started beside it (LiveCallsKeepWhatTheyUse).        *)
(* Sony's objects are external: any call on them may fail, and a call made *)
(* by the frame worker may never return.                                   *)
(***************************************************************************)
EXTENDS Naturals

CONSTANT MaxSessions   \* bound: times the activity is resumed

ASSUME LifecycleAssumption == MaxSessions \in Nat

VARIABLES
  \* RetroLensActivity
  shown,            \* between onResume and the end of onPause
  resumed, quarantined,
  readyCamera,      \* readyCamera # null
  runtimeReady,     \* nativeRuntimeReady
  source,           \* frameSource # null
  posted,           \* sessions whose failure report is in mainHandler's queue
  session,          \* onResume calls so far
  \* the main thread inside stopSequence and onPause
  main, round, copied, joined,
  \* CameraEx and the native worker
  camera,
  probe,            \* the native worker: none, or how far its frames have come
  revealed,         \* the opaque native surface is VISIBLE
  \* CameraSequenceFrameSource
  worker, stopping, sequence, sequenceStarted,
  sony,             \* what Sony's CameraSequence really is
  \* history
  workerSession,    \* the session the worker was started in
  straddled         \* a report passed isCurrentSource before a pause, was posted after

activityVars == <<shown, resumed, quarantined, readyCamera, runtimeReady, posted, session>>
pauseVars    == <<main, round, copied, joined>>
nativeVars   == <<probe, revealed>>
flagVars     == <<sequence, sequenceStarted>>
historyVars  == <<workerSession, straddled>>
vars == <<activityVars, source, pauseVars, camera, nativeVars, worker, stopping, flagVars,
          sony, historyVars>>

-----------------------------------------------------------------------------
WorkerDead == worker \in {"none", "dead"}

\* The native controller's monitor: submitJpeg holds it for the whole JNI call.
MonitorFree_unheld == TRUE     \* mutant: given back before the JNI call
MonitorFree == worker # "submit"

IsCurrentSource == resumed /\ source

\* displayProbeController.stop() and fail() hide the surface they cover.
Hidden == FALSE
NativeGone == probe' = "none" /\ revealed' = Hidden

-----------------------------------------------------------------------------
Init ==
  /\ shown = FALSE /\ resumed = FALSE /\ quarantined = FALSE
  /\ readyCamera = FALSE /\ runtimeReady = FALSE /\ source = FALSE
  /\ posted = {} /\ session = 0
  /\ main = "free" /\ round = 0 /\ copied = FALSE /\ joined = TRUE
  /\ camera = "closed" /\ probe = "none" /\ revealed = FALSE
  /\ worker = "none" /\ stopping = FALSE
  /\ sequence = FALSE /\ sequenceStarted = FALSE /\ sony = "none"
  /\ workerSession = 0 /\ straddled = FALSE

(***************************************************************************)
(* The main thread: callbacks of Android.                                  *)
(***************************************************************************)
RefusesResume == quarantined

OnResume ==
  /\ main = "free" /\ ~shown
  /\ session < MaxSessions
  /\ session' = session + 1
  /\ shown' = TRUE
  /\ IF RefusesResume
       THEN UNCHANGED <<resumed, readyCamera, runtimeReady, camera>>
       ELSE /\ resumed' = TRUE /\ readyCamera' = FALSE /\ runtimeReady' = FALSE
            /\ IF camera = "closed" THEN camera' \in {"open", "failed"} ELSE UNCHANGED camera
  /\ UNCHANGED <<quarantined, source, posted, pauseVars, nativeVars, worker, stopping,
                 flagVars, sony, historyVars>>

\* startSequenceIfReady
StartWorker ==
  /\ source' = TRUE
  /\ worker' = "new" /\ stopping' = FALSE
  /\ sequence' = FALSE /\ sequenceStarted' = FALSE /\ sony' = "none"
  /\ workerSession' = session

\* The native runtime could not be started, or fail() gave it up: the sequence
\* is asked to stop, and nothing else happens on the main thread until it was.
AnalyticalUnavailable ==
  /\ NativeGone
  /\ runtimeReady' = FALSE
  /\ round' = 0
  /\ main' = IF source THEN "request" ELSE "free"

\* Sony's preview runs, at first and again after every capture: the native
\* runtime starts, and then the frame worker if there was none.
OnCameraReady ==
  /\ main = "free" /\ shown /\ camera = "open"
  /\ resumed
  /\ readyCamera' = TRUE
  /\ \/ /\ runtimeReady
        /\ UNCHANGED <<runtimeReady, main, round, nativeVars, source, worker, stopping, flagVars,
                       sony, workerSession>>
     \/ /\ ~runtimeReady /\ MonitorFree
        /\ probe' = "empty" /\ revealed' = FALSE /\ runtimeReady' = TRUE
        /\ IF source THEN UNCHANGED <<source, worker, stopping, flagVars, sony, workerSession>>
                     ELSE StartWorker
        /\ UNCHANGED <<main, round>>
     \/ /\ ~runtimeReady /\ MonitorFree
        /\ AnalyticalUnavailable
        /\ UNCHANGED <<source, worker, stopping, flagVars, sony, workerSession>>
  /\ UNCHANGED <<shown, resumed, quarantined, posted, session, copied, joined, camera, straddled>>

\* pollStats: the surface comes up only after a filtered frame.
RevealSurface ==
  /\ main = "free" /\ probe = "filtered" /\ ~revealed
  /\ revealed' = TRUE
  /\ UNCHANGED <<activityVars, source, pauseVars, camera, probe, worker, stopping, flagVars,
                 sony, historyVars>>

\* postFrame failed, or three decodes did before any succeeded: fail(), which
\* does not take the monitor.
NativeFails ==
  /\ main = "free" /\ probe # "none"
  /\ AnalyticalUnavailable
  /\ UNCHANGED <<shown, resumed, quarantined, readyCamera, posted, session, source, copied,
                 joined, camera, worker, stopping, flagVars, sony, historyVars>>

\* The runnable of onSequenceUnavailable.
ReportRuns ==
  /\ main = "free"
  /\ \E id \in posted : posted' = posted \ {id}
  /\ IF resumed THEN MonitorFree /\ NativeGone /\ runtimeReady' = FALSE
                ELSE UNCHANGED <<nativeVars, runtimeReady>>
  /\ UNCHANGED <<shown, resumed, quarantined, readyCamera, session, source, pauseVars, camera,
                 worker, stopping, flagVars, sony, historyVars>>

(***************************************************************************)
(* The main thread: onPause, and requestSequenceStop wherever it is called *)
(* from (round 0: not from onPause).                                       *)
(***************************************************************************)
QueueAfterPause_kept == posted    \* mutant: no removeCallbacksAndMessages
QueueAfterPause == {}

OnPause ==
  /\ main = "free" /\ shown
  /\ resumed' = FALSE /\ readyCamera' = FALSE
  /\ posted' = QueueAfterPause
  /\ straddled' = (straddled \/ worker = "posting")
  /\ source' = FALSE
  /\ round' = 1
  /\ joined' = TRUE
  /\ main' = IF source THEN "request" ELSE "native"
  /\ UNCHANGED <<shown, quarantined, runtimeReady, session, copied, camera, nativeVars, worker,
                 stopping, flagVars, sony, workerSession>>

\* Back from requestSequenceStop; stopAndJoin begins by raising the flag.
AfterRequest ==
  IF round = 0
    THEN main' = "free" /\ UNCHANGED stopping
    ELSE main' = "join" /\ stopping' = TRUE

\* Under sequenceLock.
RequestReads ==
  /\ main = "request"
  /\ copied' = (sequence /\ sequenceStarted)
  /\ IF copied' THEN main' = "stopCall" /\ UNCHANGED stopping ELSE AfterRequest
  /\ UNCHANGED <<activityVars, source, round, joined, camera, nativeVars, worker, flagVars,
                 sony, historyVars>>

AfterFailedStop == AfterRequest

\* stopPreviewSequence on what was copied, outside the lock.
RequestStops ==
  /\ main = "stopCall"
  /\ \/ /\ sony' = IF sony = "started" THEN "stopped" ELSE sony
        /\ main' = "clear" /\ UNCHANGED stopping
     \/ AfterFailedStop /\ UNCHANGED sony
  /\ UNCHANGED <<activityVars, source, round, copied, joined, camera, nativeVars, worker,
                 flagVars, historyVars>>

\* Under sequenceLock again; a sequence the worker took meanwhile is left alone.
RequestClears ==
  /\ main = "clear"
  /\ sequenceStarted' = (sequenceStarted /\ ~sequence)
  /\ AfterRequest
  /\ UNCHANGED <<activityVars, source, round, copied, joined, camera, nativeVars, worker,
                 sequence, sony, historyVars>>

Joined ==
  /\ main = "join" /\ WorkerDead
  /\ main' = "native"
  /\ UNCHANGED <<activityVars, source, round, copied, joined, camera, nativeVars, worker,
                 stopping, flagVars, sony, historyVars>>

\* 2000 ms, then once more 1000 ms.
JoinGivesUp_never == FALSE     \* mutant: join() without a bound
JoinGivesUp == ~WorkerDead
LastRound == 2

JoinTimesOut ==
  /\ main = "join" /\ JoinGivesUp
  /\ IF round < LastRound THEN main' = "request" /\ round' = round + 1 /\ UNCHANGED joined
                          ELSE main' = "native" /\ joined' = FALSE /\ UNCHANGED round
  /\ UNCHANGED <<activityVars, source, copied, camera, nativeVars, worker, stopping, flagVars,
                 sony, historyVars>>

StopNativeWaits == MonitorFree

StopNative ==
  /\ main = "native" /\ StopNativeWaits
  /\ NativeGone
  /\ main' = "camera"
  /\ UNCHANGED <<activityVars, source, round, copied, joined, camera, worker, stopping,
                 flagVars, sony, historyVars>>

ReleasesCamera_always == TRUE   \* mutant: the result of stopSequence is ignored
ReleasesCamera == joined

FinishPause ==
  /\ main = "camera"
  /\ IF ReleasesCamera THEN camera' = "closed" /\ UNCHANGED quarantined
                       ELSE quarantined' = TRUE /\ UNCHANGED camera
  /\ shown' = FALSE
  /\ main' = "free"
  /\ UNCHANGED <<resumed, readyCamera, runtimeReady, posted, session, source, round, copied,
                 joined, nativeVars, worker, stopping, flagVars, sony, historyVars>>

(***************************************************************************)
(* The frame worker: runWorker, pollFrames, release.                       *)
(***************************************************************************)
WorkerUnchanged == UNCHANGED <<shown, resumed, quarantined, readyCamera, runtimeReady, session,
                               source, pauseVars, camera, revealed, stopping, historyVars>>

\* The direct buffer is allocated or not; stopping is seen before the open.
WorkerBegins ==
  /\ worker = "new"
  /\ worker' \in {"failing", IF stopping THEN "dead" ELSE "opening"}
  /\ UNCHANGED <<posted, probe, flagVars, sony>> /\ WorkerUnchanged

OpenSequence ==
  /\ worker = "opening"
  /\ \/ sequence' = TRUE /\ sony' = "open" /\ worker' = "opened"
     \/ worker' = "failing" /\ UNCHANGED <<sequence, sony>>
  /\ UNCHANGED <<posted, probe, sequenceStarted>> /\ WorkerUnchanged

\* The two tests of stopping between open and start.
AfterStop_skipsRelease == "dead"    \* mutant: returns outside the try
AfterStop == "release"

CheckStopping ==
  /\ worker = "opened"
  /\ worker' = IF stopping THEN AfterStop ELSE "starting"
  /\ UNCHANGED <<posted, probe, flagVars, sony>> /\ WorkerUnchanged

StartSequence ==
  /\ worker = "starting"
  /\ \/ sony' = "started" /\ worker' = "flagging"
     \/ worker' = "failing" /\ UNCHANGED sony
  /\ UNCHANGED <<posted, probe, flagVars>> /\ WorkerUnchanged

FlagStarted ==
  /\ worker = "flagging"
  /\ sequenceStarted' = sequence
  /\ worker' = "poll"
  /\ UNCHANGED <<posted, probe, sequence, sony>> /\ WorkerUnchanged

Poll ==
  /\ worker = "poll"
  /\ worker' = IF stopping THEN "release" ELSE "fetch"
  /\ UNCHANGED <<posted, probe, flagVars, sony>> /\ WorkerUnchanged

\* No frame, a frame, or an error: no first frame in time, a malformed frame,
\* a sequence stopped beneath the call.
Fetch ==
  /\ worker = "fetch"
  /\ worker' \in {"poll", "failing"} \cup (IF sony = "started" THEN {"frame"} ELSE {})
  /\ UNCHANGED <<posted, probe, flagVars, sony>> /\ WorkerUnchanged

\* onFrame
BeginSubmit ==
  /\ worker = "frame"
  /\ worker' = IF IsCurrentSource /\ probe # "none" THEN "submit" ELSE "poll"
  /\ UNCHANGED <<posted, probe, flagVars, sony>> /\ WorkerUnchanged

EndSubmit ==
  /\ worker = "submit"
  /\ probe' = IF probe = "empty" THEN "fed" ELSE probe
  /\ worker' = "poll"
  /\ UNCHANGED <<posted, flagVars, sony>> /\ WorkerUnchanged

\* onSequenceUnavailable tests isCurrentSource, and only then posts.
Reports_initialization == IsCurrentSource /\ ~sequenceStarted   \* mutant: not while polling
Reports == IsCurrentSource

Unavailable ==
  /\ worker = "failing"
  /\ worker' = IF Reports THEN "posting" ELSE "release"
  /\ UNCHANGED <<posted, probe, flagVars, sony>> /\ WorkerUnchanged

PostReport ==
  /\ worker = "posting"
  /\ posted' = posted \cup {workerSession}
  /\ worker' = "release"
  /\ UNCHANGED <<probe, flagVars, sony>> /\ WorkerUnchanged

\* release(): the sequence is taken under the lock ...
TakeSequence ==
  /\ worker = "release"
  /\ worker' = IF ~sequence THEN "dead" ELSE IF sequenceStarted THEN "stopping" ELSE "releasing"
  /\ sequence' = FALSE /\ sequenceStarted' = FALSE
  /\ UNCHANGED <<posted, probe, sony>> /\ WorkerUnchanged

\* ... stopped if it was started, which may fail, and released all the same.
StopSequence ==
  /\ worker = "stopping"
  /\ sony' \in (IF sony = "started" THEN {"stopped", "unstoppable"} ELSE {sony})
  /\ worker' = "releasing"
  /\ UNCHANGED <<posted, probe, flagVars>> /\ WorkerUnchanged

ReleaseSequence ==
  /\ worker = "releasing"
  /\ sony' = "released"
  /\ worker' = "dead"
  /\ UNCHANGED <<posted, probe, flagVars>> /\ WorkerUnchanged

\* The native worker (FramePipeline) has filtered its first frame.
NativeFilters ==
  /\ probe = "fed"
  /\ probe' = "filtered"
  /\ UNCHANGED <<activityVars, source, pauseVars, camera, revealed, worker, stopping, flagVars,
                 sony, historyVars>>

-----------------------------------------------------------------------------
PauseSteps ==
  \/ RequestReads
  \/ RequestStops
  \/ RequestClears
  \/ Joined
  \/ JoinTimesOut
  \/ StopNative
  \/ FinishPause

FrameWorker ==
  \/ WorkerBegins
  \/ OpenSequence
  \/ CheckStopping
  \/ StartSequence
  \/ FlagStarted
  \/ Poll
  \/ Fetch
  \/ BeginSubmit
  \/ EndSubmit
  \/ Unavailable
  \/ PostReport
  \/ TakeSequence
  \/ StopSequence
  \/ ReleaseSequence

Next ==
  \/ OnResume
  \/ OnCameraReady
  \/ RevealSurface
  \/ NativeFails
  \/ ReportRuns
  \/ OnPause
  \/ PauseSteps
  \/ FrameWorker
  \/ NativeFilters

Spec == Init /\ [][Next]_vars

\* The main thread finishes the callback it is in and serves its queue.  Of the
\* frame worker only the steps that wait for nobody are fair: a call of Sony's
\* sequence may hang.
FairSpec ==
  /\ Spec
  /\ WF_vars(PauseSteps)
  /\ WF_vars(ReportRuns)
  /\ WF_vars(EndSubmit)
  /\ WF_vars(Unavailable)
  /\ WF_vars(PostReport)

-----------------------------------------------------------------------------
(***************************************************************************)
(* Properties.                                                             *)
(***************************************************************************)
FlagsOK ==
  /\ shown \in BOOLEAN /\ resumed \in BOOLEAN /\ quarantined \in BOOLEAN
  /\ readyCamera \in BOOLEAN /\ runtimeReady \in BOOLEAN /\ source \in BOOLEAN
  /\ copied \in BOOLEAN /\ joined \in BOOLEAN /\ revealed \in BOOLEAN /\ stopping \in BOOLEAN
  /\ sequence \in BOOLEAN /\ sequenceStarted \in BOOLEAN /\ straddled \in BOOLEAN

\* The variables of the activity, its controllers and the worker keep their types.
TypeOK ==
  /\ FlagsOK
  /\ session \in 0..MaxSessions /\ workerSession \in 0..MaxSessions
  /\ posted \subseteq 1..MaxSessions
  /\ main \in {"free", "request", "stopCall", "clear", "join", "native", "camera"}
  /\ round \in 0..2
  /\ camera \in {"closed", "failed", "open"}
  /\ probe \in {"none", "empty", "fed", "filtered"}
  /\ worker \in {"none", "new", "opening", "opened", "starting", "flagging", "poll", "fetch",
                 "frame", "submit", "failing", "posting", "release", "stopping", "releasing",
                 "dead"}
  /\ sony \in {"none", "open", "started", "stopped", "unstoppable", "released"}

KeepsWhatLiveCallsUse ==
  /\ (camera = "open" /\ camera' # "open") => WorkerDead \/ quarantined
  /\ (worker # "new" /\ worker' = "new") => WorkerDead
  /\ (probe # "none" /\ probe' = "none" /\ worker = "submit") => NativeFails

\* What a live call uses stays, but for two steps.  README: "a Sony worker that
\* does not stop causes the camera object to be quarantined rather than released
\* beneath a live call": it holds of the pause that meets the stuck worker; a
\* later pause, which finds the camera quarantined, releases it
\* (CameraStaysQuarantined).  No second frame worker is made beside a live one,
\* which would poll two sequences of one camera.  And the native worker is not
\* destroyed under submitJpeg: a start that fails, the report of a failed
\* sequence and a pause that gave up joining all wait for the monitor.  Only
\* fail(), called from a tick or a poll, does not take it (NativeFails).
LiveCallsKeepWhatTheyUse == [][KeepsWhatLiveCallsUse]_vars

\* A pause that ends without quarantine has given everything back: no frame
\* worker, no sequence, no native worker, no camera.  And a started sequence is
\* stopped, or has refused to be, before it is released, whichever thread came
\* first and whether its attempt failed.
ReleasedInOrder ==
  /\ TypeOK
  /\ (~shown /\ ~quarantined) =>
       WorkerDead /\ sony \in {"none", "released"} /\ probe = "none" /\ camera = "closed"
  /\ worker = "releasing" => sony # "started"

\* A failure reported by one session's worker is not acted on in another,
\* unless a pause came between its test of isCurrentSource and its post.
ReportsStayInSession == (resumed /\ ~straddled) => posted \subseteq {session}

\* README: "Surface, sequence, or decode failure hides native output": of a
\* sequence's failure, whose report passes its test on one thread and is served on
\* another.  (Surface and decode failures are met within one call: Display.)
FailureHidesOutput ==
  (worker = "failing" /\ IsCurrentSource /\ revealed) ~> (~revealed \/ ~resumed)

\* onPause returns, even when a Sony call of the worker never does.
PauseReturns == []<>(main = "free")

(***************************************************************************)
(* A promise the code does not keep.                                       *)
(***************************************************************************)
\* README: the camera is "quarantined rather than released beneath a live
\* call", at every pause.
InSonyCall == worker \in {"opening", "starting", "fetch", "stopping", "releasing"}
CameraStaysQuarantined ==
  [][(camera = "open" /\ camera' # "open") => ~InSonyCall]_vars

=============================================================================
