--------------------------- MODULE ActivityProofs ---------------------------
(***************************************************************************)
(* Proofs about the activity and its camera controller, for any number of  *)
(* sessions and captures.  Three parts: Lifecycle by itself, CaptureGuard  *)
(* by itself (as Guard), and the composition, every step of which is a     *)
(* step of the two, so that what was proved of each holds of both          *)
(* together.                                                               *)
(***************************************************************************)
EXTENDS MCActivity, SequenceTheorems, TLAPS

(***************************************************************************)
(* Lifecycle: where the main thread is, what the frame worker has done to  *)
(* Sony's sequence, and which session a report can be of.                  *)
(***************************************************************************)
\* Callbacks that wait belong to an activity that is shown.  From the pause on
\* there is no frame source, and a request outside a pause has one.
MainInv ==
  /\ main # "free" => shown
  /\ resumed => shown /\ ~quarantined
  /\ shown => session # 0
  /\ ~shown => ~source /\ probe = "none"
  /\ main \in {"request", "stopCall", "clear"} =>
       IF round = 0 THEN source ELSE ~source /\ ~resumed
  /\ main \in {"join", "native", "camera"} => ~source /\ ~resumed
  /\ main = "camera" => probe = "none"

\* A worker that is alive has a source, unless a pause is still waiting for it
\* or has quarantined the camera; and a pause that found it dead knows.
WorkerInv ==
  /\ (main = "free" /\ ~source) => WorkerDead \/ quarantined
  /\ (main \in {"native", "camera"} /\ joined) => WorkerDead \/ quarantined
  /\ (~shown /\ ~quarantined) => camera = "closed"

Polling == {"poll", "fetch", "frame", "submit"}
Ending == {"failing", "posting", "release"}

\* Sony's sequence at each step of the worker.  The flag is up only between
\* FlagStarted and the release, and down on a started sequence only before: the
\* main thread lowers it after its stop, which it calls only when it was up.
SequenceInv ==
  /\ worker \in {"none", "new", "opening"} => sony = "none" /\ ~sequence
  /\ worker \in {"opened", "starting"} => sony = "open" /\ sequence
  /\ worker \in {"flagging"} \cup Polling => sony \in {"started", "stopped"} /\ sequence
  /\ worker \in Ending =>
       IF sequence THEN sony \in {"open", "started", "stopped"} ELSE sony = "none"
  /\ worker = "releasing" => sony # "started"
  /\ worker = "dead" => sony \in {"none", "released"}
  /\ sequenceStarted => worker \in Polling \cup Ending
  /\ (worker \in Polling \cup Ending /\ sony = "started") => sequenceStarted
  /\ main \in {"stopCall", "clear"} => worker \in Polling \cup Ending \cup {"stopping", "releasing", "dead"}
  /\ main = "clear" => sony # "started"

\* A report is of this session's worker, unless a pause came between its test and
\* its post.
ReportInv ==
  /\ worker # "none" => workerSession # 0
  /\ (source /\ resumed) => workerSession = session
  /\ ~straddled =>
       IF resumed THEN posted \subseteq {session} /\ (worker = "posting" => workerSession = session)
                  ELSE posted = {} /\ worker # "posting"

LifecycleInv == TypeOK /\ MainInv /\ WorkerInv /\ SequenceInv /\ ReportInv

\* The activity that was never shown satisfies the invariant.
LEMMA LifecycleInit == Init => LifecycleInv
<1>1. Init => FlagsOK
  BY Zenon DEF Init, FlagsOK
<1>2. Init => TypeOK /\ MainInv /\ WorkerInv /\ SequenceInv /\ ReportInv
  BY <1>1, LifecycleAssumption DEF Init, TypeOK, MainInv, WorkerInv, SequenceInv, ReportInv,
     WorkerDead, Polling, Ending, LifecycleAssumption
<1> QED
  BY <1>2 DEF LifecycleInv

\* The flags stay Boolean: in the callbacks ...
LEMMA CallbackFlags ==
  ASSUME FlagsOK,
         OnResume \/ OnCameraReady \/ RevealSurface \/ NativeFails \/ ReportRuns \/ OnPause
  PROVE  FlagsOK'
<1> USE DEF FlagsOK, NativeGone, Hidden, activityVars, pauseVars, nativeVars, flagVars, historyVars
<1>1. CASE OnResume
  BY <1>1, ZenonT(30) DEF OnResume, RefusesResume
<1>2. CASE OnCameraReady
  BY <1>2, ZenonT(30) DEF OnCameraReady, StartWorker, AnalyticalUnavailable
<1>3. CASE RevealSurface
  BY <1>3, ZenonT(30) DEF RevealSurface
<1>4. CASE NativeFails
  BY <1>4, ZenonT(30) DEF NativeFails, AnalyticalUnavailable
<1>5. CASE ReportRuns
  BY <1>5, ZenonT(30) DEF ReportRuns
<1>6. CASE OnPause
  BY <1>6, Zenon DEF OnPause, QueueAfterPause
<1> QED
  BY <1>1, <1>2, <1>3, <1>4, <1>5, <1>6

\* ... in a pause ...
LEMMA PauseFlags ==
  ASSUME FlagsOK, PauseSteps
  PROVE  FlagsOK'
<1> USE DEF FlagsOK, activityVars, pauseVars, nativeVars, flagVars, historyVars
<1>1. CASE RequestReads
  BY <1>1, ZenonT(30) DEF RequestReads, AfterRequest
<1>2. CASE RequestStops
  <2>1. stopping' = stopping \/ stopping' = TRUE
    BY <1>2, ZenonT(30) DEF RequestStops, AfterFailedStop, AfterRequest
  <2> QED
    BY <1>2, <2>1, ZenonT(60) DEF RequestStops
<1>3. CASE RequestClears
  <2>1. sequenceStarted' \in BOOLEAN
    BY <1>3, ZenonT(30) DEF RequestClears
  <2> QED
    BY <1>3, <2>1, ZenonT(30) DEF RequestClears, AfterRequest
<1>4. CASE Joined
  BY <1>4, ZenonT(30) DEF Joined
<1>5. CASE JoinTimesOut
  BY <1>5, ZenonT(30) DEF JoinTimesOut, JoinGivesUp, LastRound
<1>6. CASE StopNative
  BY <1>6, ZenonT(30) DEF StopNative, StopNativeWaits, MonitorFree, NativeGone, Hidden
<1>7. CASE FinishPause
  BY <1>7, ZenonT(30) DEF FinishPause, ReleasesCamera
<1> QED
  BY <1>1, <1>2, <1>3, <1>4, <1>5, <1>6, <1>7 DEF PauseSteps

\* ... and in the frame worker.
LEMMA FrameWorkerFlags ==
  ASSUME FlagsOK, FrameWorker
  PROVE  FlagsOK'
<1> USE DEF FlagsOK, WorkerUnchanged, activityVars, pauseVars, nativeVars, flagVars, historyVars
<1>1. CASE WorkerBegins
  BY <1>1, ZenonT(30) DEF WorkerBegins
<1>2. CASE OpenSequence
  <2>1. sequence' \in BOOLEAN
    BY <1>2, ZenonT(30) DEF OpenSequence
  <2> QED
    BY <1>2, <2>1, ZenonT(30) DEF OpenSequence
<1>3. CASE CheckStopping
  BY <1>3, ZenonT(30) DEF CheckStopping, AfterStop
<1>4. CASE StartSequence
  BY <1>4, ZenonT(30) DEF StartSequence
<1>5. CASE FlagStarted
  BY <1>5, ZenonT(30) DEF FlagStarted
<1>6. CASE Poll
  BY <1>6, ZenonT(30) DEF Poll
<1>7. CASE Fetch
  BY <1>7, ZenonT(30) DEF Fetch
<1>8. CASE BeginSubmit
  BY <1>8, ZenonT(30) DEF BeginSubmit, IsCurrentSource
<1>9. CASE EndSubmit
  BY <1>9, ZenonT(30) DEF EndSubmit
<1>10. CASE Unavailable
  BY <1>10, ZenonT(30) DEF Unavailable, Reports, IsCurrentSource
<1>11. CASE PostReport
  BY <1>11, ZenonT(30) DEF PostReport
<1>12. CASE TakeSequence
  BY <1>12, ZenonT(30) DEF TakeSequence
<1>13. CASE StopSequence
  BY <1>13, ZenonT(30) DEF StopSequence
<1>14. CASE ReleaseSequence
  BY <1>14, ZenonT(30) DEF ReleaseSequence
<1> QED
  BY <1>1, <1>2, <1>3, <1>4, <1>5, <1>6, <1>7, <1>8, <1>9, <1>10, <1>11, <1>12, <1>13, <1>14 DEF FrameWorker

\* The callbacks of Android, of the camera and of the handler.
LEMMA CallbackStep ==
  ASSUME LifecycleInv, FlagsOK',
         OnResume \/ OnCameraReady \/ RevealSurface \/ NativeFails \/ ReportRuns \/ OnPause
  PROVE  LifecycleInv'
<1> USE LifecycleAssumption
       DEF LifecycleAssumption, LifecycleInv, TypeOK, MainInv, WorkerInv, SequenceInv, ReportInv, Polling, Ending,
            WorkerDead, NativeGone, Hidden, MonitorFree,
            activityVars, pauseVars, nativeVars, flagVars, historyVars
<1>1. CASE OnResume
  BY <1>1, SMTT(30) DEF OnResume, RefusesResume
<1>2. CASE OnCameraReady
  BY <1>2, SMTT(30) DEF OnCameraReady, StartWorker, AnalyticalUnavailable
<1>3. CASE RevealSurface
  BY <1>3, SMTT(30) DEF RevealSurface
<1>4. CASE NativeFails
  BY <1>4, SMTT(30) DEF NativeFails, AnalyticalUnavailable
<1>5. CASE ReportRuns
  BY <1>5, SMTT(30) DEF ReportRuns
<1>6. CASE OnPause
  <2>1. TypeOK'
    BY <1>6 DEF OnPause, QueueAfterPause
  <2>2. MainInv'
    BY <1>6 DEF OnPause, QueueAfterPause
  <2>3. WorkerInv'
    BY <1>6 DEF OnPause, QueueAfterPause
  <2>4. SequenceInv'
    BY <1>6 DEF OnPause, QueueAfterPause
  <2>5. ReportInv'
    BY <1>6 DEF OnPause, QueueAfterPause
  <2> QED
    BY <2>1, <2>2, <2>3, <2>4, <2>5
<1> QED
  BY <1>1, <1>2, <1>3, <1>4, <1>5, <1>6

\* The main thread inside requestSequenceStop and onPause.
LEMMA PauseStep ==
  ASSUME LifecycleInv, FlagsOK', PauseSteps
  PROVE  LifecycleInv'
<1> USE DEF LifecycleInv, TypeOK, MainInv, WorkerInv, SequenceInv, ReportInv, Polling, Ending,
            WorkerDead, activityVars, pauseVars, nativeVars, flagVars, historyVars
<1>1. CASE RequestReads
  <2>1. TypeOK'
    BY <1>1 DEF RequestReads, AfterRequest
  <2>2. MainInv'
    BY <1>1 DEF RequestReads, AfterRequest
  <2>3. WorkerInv'
    BY <1>1 DEF RequestReads, AfterRequest
  <2>4. SequenceInv'
    BY <1>1 DEF RequestReads, AfterRequest
  <2>5. ReportInv'
    BY <1>1 DEF RequestReads, AfterRequest
  <2> QED
    BY <2>1, <2>2, <2>3, <2>4, <2>5
<1>2. CASE RequestStops
  BY <1>2, SMTT(30) DEF RequestStops, AfterFailedStop, AfterRequest
<1>3. CASE RequestClears
  <2>1. TypeOK'
    BY <1>3 DEF RequestClears, AfterRequest
  <2>2. MainInv'
    BY <1>3 DEF RequestClears, AfterRequest
  <2>3. WorkerInv'
    BY <1>3 DEF RequestClears, AfterRequest
  <2>4. SequenceInv'
    BY <1>3 DEF RequestClears, AfterRequest
  <2>5. ReportInv'
    BY <1>3 DEF RequestClears, AfterRequest
  <2> QED
    BY <2>1, <2>2, <2>3, <2>4, <2>5
<1>4. CASE Joined
  BY <1>4, SMTT(30) DEF Joined
<1>5. CASE JoinTimesOut
  BY <1>5, SMTT(30) DEF JoinTimesOut, JoinGivesUp, LastRound
<1>6. CASE StopNative
  BY <1>6, SMTT(30) DEF StopNative, StopNativeWaits, MonitorFree, NativeGone, Hidden
<1>7. CASE FinishPause
  BY <1>7, SMTT(30) DEF FinishPause, ReleasesCamera
<1> QED
  BY <1>1, <1>2, <1>3, <1>4, <1>5, <1>6, <1>7 DEF PauseSteps

\* The frame worker.
LEMMA FrameWorkerStep ==
  ASSUME LifecycleInv, FlagsOK', FrameWorker
  PROVE  LifecycleInv'
<1> USE DEF LifecycleInv, TypeOK, MainInv, WorkerInv, SequenceInv, ReportInv, Polling, Ending,
            WorkerDead, WorkerUnchanged,
            activityVars, pauseVars, nativeVars, flagVars, historyVars
<1>1. CASE WorkerBegins
  BY <1>1, SMTT(30) DEF WorkerBegins
<1>2. CASE OpenSequence
  BY <1>2, SMTT(30) DEF OpenSequence
<1>3. CASE CheckStopping
  BY <1>3, SMTT(30) DEF CheckStopping, AfterStop
<1>4. CASE StartSequence
  BY <1>4, SMTT(30) DEF StartSequence
<1>5. CASE FlagStarted
  BY <1>5, SMTT(30) DEF FlagStarted
<1>6. CASE Poll
  BY <1>6, SMTT(30) DEF Poll
<1>7. CASE Fetch
  BY <1>7, SMTT(30) DEF Fetch
<1>8. CASE BeginSubmit
  BY <1>8, SMTT(30) DEF BeginSubmit, IsCurrentSource
<1>9. CASE EndSubmit
  BY <1>9, SMTT(30) DEF EndSubmit
<1>10. CASE Unavailable
  BY <1>10, SMTT(30) DEF Unavailable, Reports, IsCurrentSource
<1>11. CASE PostReport
  BY <1>11, SMTT(30) DEF PostReport
<1>12. CASE TakeSequence
  BY <1>12, SMTT(30) DEF TakeSequence
<1>13. CASE StopSequence
  BY <1>13, SMTT(30) DEF StopSequence
<1>14. CASE ReleaseSequence
  BY <1>14, SMTT(30) DEF ReleaseSequence
<1> QED
  BY <1>1, <1>2, <1>3, <1>4, <1>5, <1>6, <1>7, <1>8, <1>9, <1>10, <1>11, <1>12, <1>13, <1>14 DEF FrameWorker

\* Every step of the activity, its source and its controllers.
LEMMA LifecycleStep == LifecycleInv /\ [Next]_vars => LifecycleInv'
<1> SUFFICES ASSUME LifecycleInv, [Next]_vars PROVE LifecycleInv'
  OBVIOUS
<1>1. FlagsOK
  BY DEF LifecycleInv, TypeOK
<1>2. CASE NativeFilters
  <2>1. FlagsOK'
    BY <1>1, <1>2, ZenonT(30) DEF NativeFilters, FlagsOK, activityVars, pauseVars, flagVars, historyVars
  <2> QED
    BY <1>2, <2>1 DEF NativeFilters, LifecycleInv, TypeOK, MainInv, WorkerInv, SequenceInv,
       ReportInv, WorkerDead, activityVars, pauseVars, flagVars, historyVars
<1>3. CASE UNCHANGED vars
  BY <1>3 DEF vars, LifecycleInv, TypeOK, FlagsOK, MainInv, WorkerInv, SequenceInv, ReportInv,
     WorkerDead, activityVars, pauseVars, nativeVars, flagVars, historyVars
<1> QED
  BY <1>1, <1>2, <1>3, CallbackFlags, PauseFlags, FrameWorkerFlags, CallbackStep, PauseStep,
     FrameWorkerStep DEF Next

\* What the frame worker is using is not taken away.  A camera that is released
\* was joined for; a worker is made by a callback of a session that was not
\* quarantined and has no source; whoever destroys the native worker waits for the
\* monitor, unless it is fail().
LEMMA KeepsStep == LifecycleInv /\ [Next]_vars => KeepsWhatLiveCallsUse
<1> SUFFICES ASSUME LifecycleInv, [Next]_vars PROVE KeepsWhatLiveCallsUse
  OBVIOUS
<1> USE DEF LifecycleInv, KeepsWhatLiveCallsUse, activityVars, pauseVars, nativeVars, flagVars,
            historyVars
<1>1. CASE OnResume
  BY <1>1 DEF OnResume
<1>2. CASE OnCameraReady
  BY <1>2 DEF OnCameraReady, StartWorker, AnalyticalUnavailable, NativeGone, MonitorFree, MainInv,
              WorkerInv
<1>3. CASE RevealSurface \/ ReportRuns \/ OnPause
  BY <1>3 DEF RevealSurface, NativeGone, ReportRuns, MonitorFree, OnPause
<1>10. CASE NativeFails
  <2>1. UNCHANGED <<camera, worker>> BY <1>10 DEF NativeFails
  <2> QED BY <1>10, <2>1
<1>4. CASE StopNative
  BY <1>4 DEF StopNative, StopNativeWaits, MonitorFree, NativeGone
<1>5. CASE FinishPause
  BY <1>5 DEF FinishPause, ReleasesCamera, WorkerInv
<1>6. CASE RequestReads \/ RequestStops \/ RequestClears \/ Joined \/ JoinTimesOut
  BY <1>6 DEF RequestReads, RequestStops, RequestClears, Joined, JoinTimesOut
<1>7. CASE FrameWorker
  BY <1>7 DEF FrameWorker, WorkerBegins, OpenSequence, CheckStopping, AfterStop, StartSequence,
              FlagStarted, Poll, Fetch, BeginSubmit, EndSubmit, Unavailable, PostReport,
              TakeSequence, StopSequence, ReleaseSequence, WorkerUnchanged
<1>8. CASE NativeFilters
  BY <1>8 DEF NativeFilters
<1>9. CASE UNCHANGED vars
  BY <1>9 DEF vars
<1> QED
  BY <1>1, <1>2, <1>3, <1>4, <1>5, <1>6, <1>7, <1>8, <1>9, <1>10 DEF Next, PauseSteps

-----------------------------------------------------------------------------
(***************************************************************************)
(* CaptureGuard, of the camera controller as this activity opens it.       *)
(***************************************************************************)
\* Generations are used up one by one: a capture that is under way and a session
\* that is open have one left to use each.
GenerationInv ==
  /\ active => opens # 0
  /\ captureInProgress => active /\ cameraEx # 0
  /\ generation + (IF captureInProgress THEN 1 ELSE 0) + (IF active THEN 1 ELSE 0)
       <= MaxCaptures + 1 + opens

\* A timer is of this camera and of an earlier generation, or of this one, and
\* then the picture it would let go of is its own: whatever changes the picture
\* uses a generation.
TimerApart(timer) ==
  /\ active /\ timer.camera = cameraEx
  /\ timer.generation <= generation
  /\ timer.generation = generation => shutter = generation

TimersApart == \A i \in DOMAIN timers : TimerApart(timers[i])

CaptureHeard ==
  (captureInProgress /\ ~overtaken) =>
    /\ shutter = generation
    /\ \E i \in DOMAIN timers : timers[i].generation = generation

GuardInv == Guard!TypeOK /\ GenerationInv /\ TimersApart /\ CaptureHeard

LEMMA GuardFlags ==
  ASSUME Guard!FlagsOK, [Guard!Next]_guardVars
  PROVE  Guard!FlagsOK'
<1> USE DEF Guard!FlagsOK, Guard!guardVars, Guard!historyVars
<1>1. CASE Guard!Start
  BY <1>1, ZenonT(30) DEF Guard!Start
<1>2. CASE Guard!SurfaceCreated
  BY <1>2, ZenonT(30) DEF Guard!SurfaceCreated, Guard!PreviewAfter
<1>3. CASE Guard!SurfaceDestroyed
  BY <1>3, ZenonT(30) DEF Guard!SurfaceDestroyed
<1>4. CASE Guard!Capture
  BY <1>4, ZenonT(30) DEF Guard!Capture, Guard!CanCapture, Guard!AfterThrow
<1>5. CASE Guard!ShutterKeyUp
  BY <1>5, ZenonT(30) DEF Guard!ShutterKeyUp, Guard!ReleaseShutter, Guard!AfterRelease, Guard!PreviewAfter
<1>6. CASE Guard!TimerFires
  BY <1>6, ZenonT(30) DEF Guard!TimerFires, Guard!TimerApplies, Guard!ReleaseShutter, Guard!AfterRelease, Guard!PreviewAfter
<1>7. CASE Guard!Stop
  BY <1>7, ZenonT(30) DEF Guard!Stop, Guard!TimersAfterStop
<1>8. CASE UNCHANGED guardVars
  BY <1>8, ZenonT(30) DEF guardVars
<1> QED
  BY <1>1, <1>2, <1>3, <1>4, <1>5, <1>6, <1>7, <1>8 DEF Guard!Next

Timer == [generation: 1..MaxCaptures, camera: 1..MaxSessions]

Numbers ==
  /\ generation \in 0..(MaxCaptures + 1 + MaxSessions)
  /\ cameraEx \in 0..MaxSessions /\ opens \in 0..MaxSessions
  /\ shutter \in 0..MaxCaptures

LEMMA GuardTypesSplit == Guard!TypeOK <=> Guard!FlagsOK /\ Numbers /\ timers \in Seq(Timer)
BY DEF Guard!TypeOK, Numbers, Timer

\* Generations, cameras and timers stay in their bounds.
LEMMA GuardTypes ==
  ASSUME Guard!FlagsOK, Numbers, timers \in Seq(Timer), GenerationInv,
         Guard!FlagsOK', [Guard!Next]_guardVars
  PROVE  Numbers' /\ timers' \in Seq(Timer) /\ GenerationInv'
<1> USE LifecycleAssumption, CaptureAssumption
    DEF Numbers, GenerationInv, Guard!FlagsOK, Guard!guardVars, Guard!historyVars,
        LifecycleAssumption, CaptureAssumption
<1>1. CASE Guard!Start
  BY <1>1 DEF Guard!Start
<1>2. CASE Guard!SurfaceCreated
  BY <1>2 DEF Guard!SurfaceCreated
<1>3. CASE Guard!SurfaceDestroyed
  BY <1>3 DEF Guard!SurfaceDestroyed
<1>4. CASE Guard!Capture
  <2>1. [generation |-> generation + 1, camera |-> cameraEx] \in Timer
    BY <1>4 DEF Guard!Capture, Guard!CanCapture, Timer
  <2>2. timers' \in Seq(Timer)
    BY <1>4, <2>1, AppendProperties DEF Guard!Capture
  <2>3. Numbers'
    BY <1>4 DEF Guard!Capture
  <2>4. GenerationInv'
    BY <1>4 DEF Guard!Capture, Guard!CanCapture
  <2> QED
    BY <2>2, <2>3, <2>4
<1>5. CASE Guard!ShutterKeyUp
  BY <1>5 DEF Guard!ShutterKeyUp, Guard!ReleaseShutter, Guard!AfterRelease
<1>6. CASE Guard!TimerFires
  <2>1. timers' \in Seq(Timer)
    BY <1>6, HeadTailProperties DEF Guard!TimerFires
  <2>2. Numbers' /\ GenerationInv'
    BY <1>6 DEF Guard!TimerFires, Guard!TimerApplies, Guard!ReleaseShutter, Guard!AfterRelease
  <2> QED
    BY <2>1, <2>2
<1>7. CASE Guard!Stop
  BY <1>7 DEF Guard!Stop, Guard!TimersAfterStop
<1>8. CASE UNCHANGED guardVars
  BY <1>8 DEF guardVars
<1> QED
  BY <1>1, <1>2, <1>3, <1>4, <1>5, <1>6, <1>7, <1>8 DEF Guard!Next

LEMMA TimerTypes ==
  ASSUME timers \in Seq(Timer)
  PROVE  /\ Len(timers) \in Nat /\ DOMAIN timers = 1..Len(timers)
         /\ \A i \in DOMAIN timers : timers[i] \in Timer /\ timers[i].generation \in Nat
<1>1. Len(timers) \in Nat /\ DOMAIN timers = 1..Len(timers) /\ \A i \in DOMAIN timers : timers[i] \in Timer
  BY LenProperties, ElementOfSeq
<1>2. \A timer \in Timer : timer.generation \in Nat
  BY CaptureAssumption DEF Timer, CaptureAssumption
<1> QED
  BY <1>1, <1>2

\* A timer that is left alone while the generation goes up stays apart.
LEMMA TimerKept ==
  ASSUME NEW timer, timer.generation \in Nat, generation \in Nat, TimerApart(timer),
         UNCHANGED <<active, cameraEx>>,
         generation' = generation + 1 \/ UNCHANGED <<generation, shutter>>
  PROVE  TimerApart(timer)'
BY DEF TimerApart

\* What the controller adds to its queue, or takes from it, keeps the rest apart.
LEMMA TimersStep ==
  ASSUME Numbers, timers \in Seq(Timer), GenerationInv, TimersApart, [Guard!Next]_guardVars
  PROVE  TimersApart'
<1> USE DEF TimersApart, Guard!guardVars, Guard!historyVars
<1>0. generation \in Nat
  BY CaptureAssumption, LifecycleAssumption DEF Numbers, CaptureAssumption, LifecycleAssumption
<1>1. CASE Guard!Start
  <2>1. timers = <<>>
    <3>1. ~(1 \in DOMAIN timers)
      BY <1>1 DEF Guard!Start, TimerApart
    <3> QED
      BY <3>1, TimerTypes, EmptySeq
  <2> QED
    BY <1>1, <2>1 DEF Guard!Start
<1>2. CASE UNCHANGED <<timers, active, cameraEx, generation, shutter>>
  BY <1>0, <1>2, TimerTypes, TimerKept
<1>3. CASE Guard!Capture
  <2> DEFINE own == [generation |-> generation + 1, camera |-> cameraEx]
  <2>1. CASE timers' = Append(timers, own) /\ shutter' = generation + 1
    <3>1. own \in Timer
      BY <1>3, LifecycleAssumption, CaptureAssumption
         DEF Guard!Capture, Guard!CanCapture, Timer, Numbers, LifecycleAssumption, CaptureAssumption
    <3>2. /\ DOMAIN timers' = 1..(Len(timers) + 1)
          /\ \A i \in 1..Len(timers) : timers'[i] = timers[i]
          /\ timers'[Len(timers) + 1] = own
      BY <2>1, <3>1, AppendProperties, LenProperties
    <3> SUFFICES ASSUME NEW i \in DOMAIN timers' PROVE TimerApart(timers[i])'
      OBVIOUS
    <3>3. CASE i = Len(timers) + 1
      BY <1>3, <2>1, <3>2, <3>3 DEF TimerApart, Guard!Capture, Guard!CanCapture
    <3>4. CASE i \in DOMAIN timers
      <4>1. timers'[i] = timers[i]
        BY <3>2, <3>4, TimerTypes
      <4>2. TimerApart(timers[i]) /\ timers[i].generation \in Nat
        BY <3>4, TimerTypes
      <4> QED
        BY <1>0, <1>3, <4>1, <4>2 DEF TimerApart, Guard!Capture
    <3> QED
      BY <3>2, <3>3, <3>4, TimerTypes
  <2>2. CASE UNCHANGED timers
    BY <1>0, <1>3, <2>2, TimerTypes, TimerKept DEF Guard!Capture
  <2> QED
    BY <1>3, <2>1, <2>2 DEF Guard!Capture
<1>4. CASE Guard!ShutterKeyUp
  BY <1>0, <1>4, TimerTypes, TimerKept DEF Guard!ShutterKeyUp, Guard!ReleaseShutter
<1>5. CASE Guard!TimerFires
  <2>1. /\ UNCHANGED <<active, cameraEx>>
        /\ generation' = generation + 1 \/ UNCHANGED <<generation, shutter>>
    BY <1>5 DEF Guard!TimerFires, Guard!ReleaseShutter
  <2>2. /\ DOMAIN timers' = 1..(Len(timers) - 1)
        /\ \A i \in 1..(Len(timers) - 1) : timers'[i] = timers[i + 1]
    BY <1>5, HeadTailProperties, LenProperties DEF Guard!TimerFires
  <2> SUFFICES ASSUME NEW i \in DOMAIN timers' PROVE TimerApart(timers[i])'
    OBVIOUS
  <2>3. i + 1 \in DOMAIN timers /\ timers'[i] = timers[i + 1]
    BY <2>2, TimerTypes
  <2>4. TimerApart(timers[i + 1]) /\ timers[i + 1].generation \in Nat
    BY <2>3, TimerTypes
  <2> QED
    BY <1>0, <2>1, <2>3, <2>4 DEF TimerApart
<1>6. CASE Guard!Stop
  BY <1>6 DEF Guard!Stop, Guard!TimersAfterStop
<1> QED
  BY <1>1, <1>2, <1>3, <1>4, <1>5, <1>6
     DEF Guard!Next, Guard!SurfaceCreated, Guard!SurfaceDestroyed, guardVars

\* A capture that goes on keeps the timer it armed.
LEMMA HeardStep ==
  ASSUME Guard!FlagsOK, Guard!FlagsOK', Numbers, timers \in Seq(Timer), TimersApart, CaptureHeard,
         [Guard!Next]_guardVars
  PROVE  CaptureHeard'
<1> USE DEF CaptureHeard, Guard!FlagsOK, Guard!guardVars, Guard!historyVars
<1>1. CASE captureInProgress' = FALSE
  BY <1>1
<1>2. CASE UNCHANGED <<timers, captureInProgress, generation, shutter, overtaken>>
  BY <1>2
<1>3. CASE Guard!Capture
  <2> DEFINE own == [generation |-> generation + 1, camera |-> cameraEx]
  <2>1. CASE timers' = Append(timers, own) /\ shutter' = generation + 1
    <3>1. own \in Timer
      BY <1>3, LifecycleAssumption, CaptureAssumption
         DEF Guard!Capture, Guard!CanCapture, Timer, Numbers, LifecycleAssumption, CaptureAssumption
    <3>2. Len(timers) + 1 \in DOMAIN timers' /\ timers'[Len(timers) + 1] = own
      BY <2>1, <3>1, AppendProperties, LenProperties
    <3> QED
      BY <1>3, <2>1, <3>2 DEF Guard!Capture
  <2>2. CASE UNCHANGED captureInProgress /\ overtaken' = (overtaken \/ captureInProgress)
    BY <2>2, Zenon
  <2> QED
    BY <1>3, <2>1, <2>2 DEF Guard!Capture, Guard!AfterThrow
<1>4. CASE Guard!TimerFires /\ ~Guard!TimerApplies(Head(timers))
  <2>1. UNCHANGED <<captureInProgress, generation, shutter, overtaken>>
    BY <1>4 DEF Guard!TimerFires
  <2> SUFFICES ASSUME captureInProgress, ~overtaken
               PROVE  \E i \in DOMAIN timers' : timers'[i].generation = generation
    BY <2>1
  <2>2. PICK j \in DOMAIN timers : timers[j].generation = generation
    OBVIOUS
  <2>3. TimerApart(timers[j]) /\ Head(timers) = timers[1]
    BY <2>2 DEF TimersApart
  <2>4. j # 1
    BY <1>4, <2>2, <2>3 DEF TimerApart, Guard!TimerApplies
  <2>5. /\ DOMAIN timers' = 1..(Len(timers) - 1)
        /\ \A i \in 1..(Len(timers) - 1) : timers'[i] = timers[i + 1]
    BY <1>4, HeadTailProperties, LenProperties DEF Guard!TimerFires
  <2>6. j - 1 \in DOMAIN timers' /\ timers'[j - 1] = timers[j]
    BY <2>4, <2>5, TimerTypes
  <2> QED
    BY <2>2, <2>6
<1> QED
  BY <1>1, <1>2, <1>3, <1>4
     DEF Guard!Next, Guard!Start, Guard!SurfaceCreated, Guard!SurfaceDestroyed, Guard!ShutterKeyUp,
         Guard!TimerFires, Guard!ReleaseShutter, Guard!AfterRelease, Guard!Stop, guardVars

\* What a timer lets go of is what it was armed for.
LEMMA LetsGo ==
  ASSUME Numbers, timers \in Seq(Timer), TimersApart, [Guard!Next]_guardVars
  PROVE  Guard!LetsGoOfItsOwn
<1> SUFFICES ASSUME timers # <<>>, timers' = Tail(timers), active', shutter # 0, shutter' = 0
             PROVE  Head(timers).generation = shutter
  BY DEF Guard!LetsGoOfItsOwn
<1>1. Len(timers') = Len(timers) - 1 /\ Len(timers) \in Nat /\ Head(timers) = timers[1]
  BY HeadTailProperties, TimerTypes
<1>2. timers' # timers
  <2>1. ASSUME NEW s, NEW t, Len(s) = Len(t) - 1, Len(t) \in Nat PROVE s # t
    BY <2>1
  <2> QED
    BY <1>1, <2>1
<1>3. generation + 1 # 0
  BY CaptureAssumption, LifecycleAssumption DEF Numbers, CaptureAssumption, LifecycleAssumption
<1>4. Guard!TimerFires /\ Guard!TimerApplies(Head(timers))
  BY <1>2, <1>3
     DEF Guard!Next, Guard!Start, Guard!SurfaceCreated, Guard!SurfaceDestroyed, Guard!Capture,
         Guard!ShutterKeyUp, Guard!TimerFires, Guard!Stop, Guard!guardVars, guardVars
<1>5. 1 \in DOMAIN timers
  BY TimerTypes, EmptySeq
<1>6. TimerApart(timers[1])
  BY <1>5 DEF TimersApart
<1> QED
  BY <1>1, <1>4, <1>6 DEF TimerApart, Guard!TimerApplies

\* The controller that was never started satisfies the invariant.
LEMMA GuardInit == ActivityInit => GuardInv
<1> SUFFICES ASSUME Guard!Init PROVE GuardInv
  BY DEF ActivityInit
<1> USE DEF Guard!Init
<1>0. Guard!FlagsOK
  BY Zenon DEF Guard!FlagsOK
<1>1. Numbers
  BY LifecycleAssumption, CaptureAssumption DEF Numbers, LifecycleAssumption, CaptureAssumption
<1>2. timers \in Seq(Timer) /\ DOMAIN timers = {}
  BY EmptySeq, TimerTypes
<1>3. GenerationInv
  BY CaptureAssumption DEF GenerationInv, CaptureAssumption
<1>4. TimersApart /\ CaptureHeard
  BY <1>2 DEF TimersApart, CaptureHeard
<1> QED
  BY <1>0, <1>1, <1>2, <1>3, <1>4, GuardTypesSplit DEF GuardInv

\* Every step of the controller.
LEMMA GuardStep == GuardInv /\ [Guard!Next]_guardVars => GuardInv' /\ Guard!LetsGoOfItsOwn
<1> SUFFICES ASSUME GuardInv, [Guard!Next]_guardVars
             PROVE  GuardInv' /\ Guard!LetsGoOfItsOwn
  OBVIOUS
<1> USE GuardTypesSplit DEF GuardInv
<1>1. Guard!FlagsOK'
  BY GuardFlags
<1>2. Numbers' /\ timers' \in Seq(Timer) /\ GenerationInv'
  BY <1>1, GuardTypes
<1>3. Guard!TypeOK'
  BY <1>1, <1>2 DEF Guard!TypeOK, Numbers, Timer
<1>4. TimersApart' /\ CaptureHeard' /\ Guard!LetsGoOfItsOwn
  BY <1>1, TimersStep, HeardStep, LetsGo
<1> QED
  BY <1>2, <1>3, <1>4

-----------------------------------------------------------------------------
(***************************************************************************)
(* The two together.                                                       *)
(***************************************************************************)
\* Whatever the activity does is a step of Lifecycle and a step of CaptureGuard, or
\* leaves one of them as it was: a preview that starts, or does not, is
\* onCameraReady's business only while it says so, and a pause is a stop of the
\* controller just when it releases the camera.
LEMMA ActivityStep ==
  [ActivityNext]_<<vars, guardVars>> => [Next]_vars /\ [Guard!Next]_guardVars
<1> SUFFICES ASSUME [ActivityNext]_<<vars, guardVars>>
             PROVE  [Next]_vars /\ [Guard!Next]_guardVars
  OBVIOUS
<1>1. CASE Resumes
  BY <1>1 DEF Resumes, Next, Guard!Next
<1>2. CASE Pausing
  BY <1>2 DEF Pausing, Pauses, PauseSteps, Next, Guard!Next
<1>3. CASE \/ Elsewhere(OnPause) \/ Elsewhere(RevealSurface) \/ Elsewhere(NativeFails)
           \/ Elsewhere(ReportRuns) \/ Elsewhere(FrameWorker) \/ Elsewhere(NativeFilters)
  BY <1>3 DEF Elsewhere, Next
<1>4. CASE \/ Between(Guard!SurfaceCreated) \/ Between(Guard!SurfaceDestroyed)
           \/ Between(shown /\ Guard!Capture) \/ Between(shown /\ Guard!ShutterKeyUp) \/ Timers
  BY <1>4 DEF Between, Timers, TellsActivity, Next, Guard!Next
<1>5. CASE UNCHANGED <<vars, guardVars>>
  BY <1>5
<1> QED
  BY <1>1, <1>2, <1>3, <1>4, <1>5 DEF ActivityNext

\* The activity with its camera controller behaves as the activity was modelled
\* alone and as the controller was modelled alone.
THEOREM ActivityImplementsItsParts ==
  ActivitySpec => Spec /\ Guard!Spec
<1>1. ActivityInit => Init /\ Guard!Init
  BY DEF ActivityInit
<1>2. [Guard!Next]_guardVars => [Guard!Next]_(Guard!vars)
  BY DEF guardVars, Guard!vars, Guard!guardVars, Guard!historyVars
<1> QED
  BY <1>1, <1>2, ActivityStep, PTL DEF ActivitySpec, Spec, Guard!Spec

\* Where every thread is tells what the other one may have done.
THEOREM LifecycleInvariant == ActivitySpec => []LifecycleInv
BY ActivityImplementsItsParts, LifecycleInit, LifecycleStep, PTL DEF Spec

\* Generations tell the timers apart.
THEOREM GuardInvariant == ActivitySpec => []GuardInv
<1>1. ActivitySpec => ActivityInit
  BY PTL DEF ActivitySpec
<1> QED
  BY <1>1, ActivityStep, GuardInit, GuardStep, PTL DEF ActivitySpec

\* A pause that ends without quarantine has given back the worker, the sequence, the
\* native worker and the camera, and a started sequence is stopped, or has refused
\* to be, before it is released.
THEOREM ResourcesAreReleased == ActivitySpec => []ReleasedInOrder
<1>1. LifecycleInv => ReleasedInOrder
  BY DEF LifecycleInv, MainInv, WorkerInv, SequenceInv, ReleasedInOrder, WorkerDead
<1> QED
  BY <1>1, LifecycleInvariant, PTL

\* A failure that one session's worker reports is not acted on in another, unless
\* a pause came between its test and its post.
THEOREM ReportsAreOfTheirSession == ActivitySpec => []ReportsStayInSession
<1>1. LifecycleInv => ReportsStayInSession
  BY DEF LifecycleInv, ReportInv, ReportsStayInSession
<1> QED
  BY <1>1, LifecycleInvariant, PTL

\* A pause does not take the camera from under a live frame worker, unless an
\* earlier one has quarantined it already; no second frame worker is made beside a
\* live one; and no step but fail() destroys the native worker under submitJpeg.
THEOREM LiveCallsAreSafe == ActivitySpec => LiveCallsKeepWhatTheyUse
BY LifecycleInvariant, ActivityImplementsItsParts, KeepsStep, PTL DEF Spec, LiveCallsKeepWhatTheyUse

\* A capture has its timer, unless another takePicture threw meanwhile, and no timer
\* outlives its camera.
THEOREM CapturesAreGuarded == ActivitySpec => []CaptureIsGuarded
<1>1. GuardInv => CaptureIsGuarded
  <2> SUFFICES ASSUME GuardInv PROVE Guard!CaptureIsGuarded
    BY DEF CaptureIsGuarded
  <2>1. Guard!TypeOK /\ TimersApart /\ CaptureHeard /\ timers \in Seq(Timer)
    BY GuardTypesSplit DEF GuardInv
  <2>2. \A i \in DOMAIN timers : timers[i].camera = cameraEx
    BY <2>1 DEF TimersApart, TimerApart
  <2>3. \A i \in DOMAIN timers :
          timers[i] = [generation |-> timers[i].generation, camera |-> timers[i].camera]
    BY <2>1, TimerTypes DEF Timer
  <2>4. ASSUME captureInProgress, ~overtaken
        PROVE  /\ shutter = generation
               /\ \E i \in 1..Len(timers) :
                    timers[i] = [generation |-> generation, camera |-> cameraEx]
    <3>1. PICK i \in DOMAIN timers : timers[i].generation = generation
      BY <2>1, <2>4 DEF CaptureHeard
    <3> QED
      BY <2>1, <2>2, <2>3, <2>4, <3>1, TimerTypes DEF CaptureHeard
  <2> QED
    BY <2>1, <2>2, <2>4 DEF Guard!CaptureIsGuarded, Guard!Contains
<1> QED
  BY <1>1, GuardInvariant, PTL

\* A timer that comes late never lets go of another picture.
THEOREM TimersReleaseTheirOwn == ActivitySpec => TimerReleasesItsOwn
BY GuardInvariant, ActivityStep, GuardStep, PTL DEF ActivitySpec, TimerReleasesItsOwn

=============================================================================
