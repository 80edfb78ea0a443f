---------------------------- MODULE RetroRuntime ----------------------------
(***************************************************************************)
(* The earlier runtime (retrolens_runtime.cpp), kept in the tree and left  *)
(* out of Android.mk: a user interface thread, a process thread that       *)
(* filters and draws, and, in a build with one of the two feature flags, a *)
(* recorder thread that writes clips, snapshots and settings.              *)
(*                                                                         *)
(* mutex_ guards what the first two threads share, recMutex_ the           *)
(* recorder's job slot, renderMutex_ the drawing.  A critical section is   *)
(* one action; what a thread does unlocked is a step of its own.  compare_ *)
(* and controlsVisible_, the counters and the pacing of frames only change *)
(* what is drawn or how often, and are left out.                           *)
(***************************************************************************)
EXTENDS Integers

CONSTANTS RetroClipEnabled, ProcessedDerivativeEnabled,  \* the feature flags
          PresetCount,
          Category,      \* the category of each preset
          Windows, None,
          Inputs,        \* bound: the kinds of calls the user makes
          MaxFrames,     \* bound: frames submitted
          MaxActs        \* bound: calls of the user interface thread

Styles == 0 .. PresetCount - 1
Outputs == RetroClipEnabled \/ ProcessedDerivativeEnabled

VARIABLES
    selected, intensity, scene, favorites,  \* what the user set
    dirty,          \* settingsDirty_
    stored, faulty, \* the settings file, and whether a write of it failed
    running,        \* running_
    slot,           \* the frame in input_, 0 before the first
    pending, inUse, \* framePending_, frameInUse_
    renderRequested, hasFrame, saveRequest, savePreset,
    output,         \* the frame and style that output_ was filtered from
    pc, taken,      \* process thread: what it does, and the pass it is in
    window, refs,   \* window_, and the references held to each window
    renderer,       \* who holds renderMutex_
    drawing,        \* the window being drawn on
    recRunning, recCommand, recPending, recJob, recPreset, recFrame,
    recording, interrupted, recordPreset, lastRecorded,
    rpc, work,      \* recorder: what it does, and the command and job it took
    clip,           \* the stream of avi_: open, its frames, a write that failed
    ended,          \* the last clip finishRecording left on the card
    ui,             \* user interface thread: "up", or a stage of a longer call
    frames, acts    \* used of the two bounds

settings == <<selected, intensity, scene, favorites>>
frameVars == <<slot, pending, inUse, hasFrame, output>>
jobVars == <<recPending, recJob, recPreset, recFrame, lastRecorded>>
clipVars == <<recording, recordPreset, clip, ended>>
winVars == <<window, refs, renderer, drawing>>
recVars == <<recRunning, recCommand, interrupted, rpc, work>>
vars == <<settings, dirty, stored, faulty, running, frameVars, renderRequested,
          saveRequest, savePreset, pc, taken, winVars, recVars, jobVars,
          clipVars, ui, frames, acts>>

Live == [selected |-> selected, intensity |-> intensity, favorites |-> favorites]
NoClip == [open |-> FALSE, frames |-> 0, failed |-> FALSE]
Nowhere == [name |-> "none", failed |-> FALSE]
NoPass == [stamp |-> 0, style |-> 0, render |-> FALSE, snapshot |-> FALSE]
NoWork == [command |-> "none", job |-> "none",
           live |-> [selected |-> 0, intensity |-> 100, favorites |-> {}]]

\* The constructor: the settings of a first start, both threads created (the
\* recorder only in a build that records), a first picture requested.
Init == /\ selected = 0 /\ intensity = 100 /\ scene = "camera"
        /\ favorites = {} /\ dirty = FALSE /\ stored = Live /\ faulty = FALSE
        /\ running = TRUE /\ slot = 0 /\ pending = FALSE /\ inUse = FALSE
        /\ renderRequested = TRUE /\ hasFrame = FALSE
        /\ saveRequest = FALSE /\ savePreset = 0
        /\ output = [stamp |-> 0, style |-> 0]
        /\ pc = "wait" /\ taken = NoPass
        /\ window = None /\ refs = [w \in Windows |-> 0]
        /\ renderer = "nobody" /\ drawing = None
        /\ recRunning = TRUE /\ recCommand = "none" /\ recPending = FALSE
        /\ recJob = "none" /\ recPreset = 0
        /\ recFrame = [stamp |-> 0, style |-> 0] /\ recording = FALSE
        /\ interrupted = FALSE /\ recordPreset = 0 /\ lastRecorded = 0
        /\ rpc = IF Outputs THEN "check" ELSE "ended"
        /\ work = NoWork
        /\ clip = NoClip /\ ended = Nowhere
        /\ ui = "up" /\ frames = 0 /\ acts = 0

-----------------------------------------------------------------------------
\* The user interface thread.

Acts == ui = "up" /\ acts < MaxActs /\ acts' = acts + 1

Wrap(i) == (i + PresetCount) % PresetCount

\* changePreset(): nothing while a clip is being recorded.
ChangePreset(delta) ==
    selected' = IF recording THEN selected ELSE Wrap(selected + delta)

\* changeCategory(): on to the first style of another category, or all the way
\* round.
ChangeCategory(direction) ==
    LET Steps == {n \in 1 .. PresetCount :
                    LET i == (selected + n * direction + n * PresetCount)
                             % PresetCount
                    IN  Category[i] # Category[selected] \/ i = selected}
        n == CHOOSE n \in Steps : \A k \in Steps : n <= k
    IN  selected' = (selected + n * direction + n * PresetCount) % PresetCount

\* What key() and touch() do last.
Noted == renderRequested' = TRUE /\ dirty' = TRUE

InputKeeps == UNCHANGED <<stored, faulty, running, frameVars, saveRequest, savePreset,
                          pc, taken, winVars, recVars, jobVars, clipVars, ui,
                          frames>>

KeyLeftRight(delta) == /\ Acts /\ ChangePreset(delta) /\ Noted /\ InputKeeps
                       /\ UNCHANGED <<intensity, scene, favorites>>

Level(i) == IF i > 100 THEN 100 ELSE IF i < 0 THEN 0 ELSE i

KeyUpDown(direction) ==
    /\ Acts
    /\ \/ /\ scene = "drawer"
          /\ intensity' = Level(intensity - 5 * direction)
          /\ UNCHANGED selected
       \/ /\ scene # "drawer" /\ ChangeCategory(direction)
          /\ UNCHANGED intensity
    /\ Noted /\ InputKeeps /\ UNCHANGED <<scene, favorites>>

\* Keys 5, 6, 7 and 9: open or close a scene, or back to the camera.
KeyScene(to) == /\ Acts
                /\ scene' = IF scene = to THEN "camera" ELSE to
                /\ Noted /\ InputKeeps
                /\ UNCHANGED <<selected, intensity, favorites>>

\* touch(): a swipe or a tap at the edge changes the style, a drag in the
\* drawer the intensity, a double tap the favorites; any touch is noted.
TouchStyle(delta) == /\ Acts /\ ChangePreset(delta) /\ Noted /\ InputKeeps
                     /\ UNCHANGED <<intensity, scene, favorites>>

TouchDrag(level) == /\ Acts /\ scene = "drawer" /\ intensity' = level
                    /\ Noted /\ InputKeeps
                    /\ UNCHANGED <<selected, scene, favorites>>

TouchTwice == /\ Acts
              /\ favorites' = IF selected \in favorites
                              THEN favorites \ {selected}
                              ELSE favorites \union {selected}
              /\ Noted /\ InputKeeps /\ UNCHANGED <<selected, intensity, scene>>

\* captureRequested() and setError(): something to draw.
AsksToDraw == /\ Acts /\ renderRequested' = TRUE
              /\ InputKeeps /\ UNCHANGED <<settings, dirty>>

SaveSnapshot ==
    /\ Acts /\ ProcessedDerivativeEnabled
    /\ saveRequest' = TRUE /\ savePreset' = selected
    /\ UNCHANGED <<settings, dirty, stored, faulty, running, frameVars,
                   renderRequested, pc, taken, winVars, recVars, jobVars,
                   clipVars, ui, frames>>

\* pthread_cond_signal(&recCondition_).
Signalled == IF rpc = "asleep" THEN "check" ELSE rpc

Told == Signalled

\* toggleRecording(): a command in a build that records, else a message.
ToggleRecording ==
    /\ Acts
    /\ \/ /\ RetroClipEnabled
          /\ recCommand' = IF recording THEN "finish" ELSE "start"
          /\ interrupted' = FALSE /\ rpc' = Told
          /\ UNCHANGED renderRequested
       \/ /\ ~RetroClipEnabled /\ renderRequested' = TRUE
          /\ UNCHANGED <<recCommand, interrupted, rpc>>
    /\ UNCHANGED <<settings, dirty, stored, faulty, running, frameVars, saveRequest,
                   savePreset, pc, taken, winVars, recRunning, work, jobVars,
                   clipVars, ui, frames>>

StopRecording(byFault) ==
    /\ Acts
    /\ recording \/ recCommand = "start"
    /\ recCommand' = "finish" /\ interrupted' = byFault /\ rpc' = Told
    /\ UNCHANGED <<settings, dirty, stored, faulty, running, frameVars,
                   renderRequested, saveRequest, savePreset, pc, taken,
                   winVars, recRunning, work, jobVars, clipVars, ui, frames>>

\* ANativeWindow_release(w).
Released(w) == IF w = None THEN refs ELSE [refs EXCEPT ![w] = @ - 1]

\* setSurface(): ANativeWindow_fromSurface took a reference to w, the one to
\* the window before it goes, and this thread draws once itself.
SetSurface(w) ==
    /\ Acts
    /\ refs' = [Released(window) EXCEPT ![w] = @ + 1] /\ window' = w
    /\ renderRequested' = TRUE /\ ui' = "draw"
    /\ UNCHANGED <<settings, dirty, stored, faulty, running, frameVars, saveRequest,
                   savePreset, pc, taken, renderer, drawing, recVars, jobVars,
                   clipVars, frames>>

ClearSurface ==
    /\ Acts /\ refs' = Released(window) /\ window' = None
    /\ UNCHANGED <<settings, dirty, stored, faulty, running, frameVars,
                   renderRequested, saveRequest, savePreset, pc, taken,
                   renderer, drawing, recVars, jobVars, clipVars, ui, frames>>

-----------------------------------------------------------------------------
\* Frames and the process thread.

SlotFree == ~pending /\ ~inUse

\* submit(), from the camera's thread: a frame that comes too early or finds
\* the slot taken is dropped, so only what it accepts is a step.
Submit == /\ running /\ frames < MaxFrames /\ frames' = frames + 1
          /\ SlotFree
          /\ slot' = frames' /\ pending' = TRUE
          /\ UNCHANGED <<settings, dirty, stored, faulty, running, inUse, hasFrame,
                         output, renderRequested, saveRequest, savePreset, pc,
                         taken, winVars, recVars, jobVars, clipVars, ui, acts>>

\* What processLoop waits for; every change of it is signalled.
HasWork == pending \/ renderRequested

\* The pass takes the frame and the style it will be filtered with.
TakePass ==
    /\ pc = "wait" /\ running /\ HasWork
    /\ taken' = [stamp |-> slot, style |-> selected,
                 render |-> renderRequested, snapshot |-> FALSE]
    /\ renderRequested' = FALSE
    /\ pending' = FALSE /\ inUse' = pending
    /\ pc' = IF pending THEN "filter" ELSE IF Outputs THEN "request" ELSE "draw"
    /\ UNCHANGED <<settings, dirty, stored, faulty, running, slot, hasFrame, output,
                   saveRequest, savePreset, winVars, recVars, jobVars, clipVars,
                   ui, frames, acts>>

\* The frame is decoded and filtered unlocked, or found broken.
FilterFrame ==
    /\ pc = "filter"
    /\ \/ /\ output' = [stamp |-> taken.stamp, style |-> taken.style]
          /\ hasFrame' = TRUE /\ taken' = [taken EXCEPT !.render = TRUE]
       \/ UNCHANGED <<output, hasFrame, taken>>
    /\ inUse' = FALSE
    /\ pc' = IF Outputs THEN "request" ELSE "draw"
    /\ UNCHANGED <<settings, dirty, stored, faulty, running, slot, pending,
                   renderRequested, saveRequest, savePreset, winVars, recVars,
                   jobVars, clipVars, ui, frames, acts>>

\* queueOutputJobs(), its section under mutex_: a snapshot request is taken.
TakeRequest ==
    /\ pc = "request" /\ pc' = "queue"
    /\ taken' = [taken EXCEPT !.snapshot = saveRequest /\ hasFrame]
    /\ saveRequest' = (saveRequest /\ ~hasFrame)
    /\ UNCHANGED <<settings, dirty, stored, faulty, running, frameVars,
                   renderRequested, savePreset, winVars, recVars, jobVars,
                   clipVars, ui, frames, acts>>

\* mutant: a new job takes the place of the one in the slot.
JobSlotFree_always == TRUE

JobSlotFree == ~recPending

\* ... and its section under recMutex_: the snapshot, or the next frame of the
\* clip once its time has come, is copied for the recorder.  A snapshot that
\* finds the slot taken is gone, a clip frame is counted as dropped.
QueueJob == \E due \in BOOLEAN :
    /\ pc = "queue" /\ pc' = "draw"
    /\ due => recording /\ hasFrame /\ taken.stamp # lastRecorded
    /\ IF (taken.snapshot \/ due) /\ JobSlotFree
       THEN /\ recFrame' = output /\ recPending' = TRUE
            /\ recJob' = IF taken.snapshot THEN "snapshot" ELSE "video"
            /\ recPreset' = IF taken.snapshot THEN savePreset ELSE recordPreset
            /\ lastRecorded' = IF taken.snapshot THEN lastRecorded
                                                 ELSE taken.stamp
            /\ rpc' = Signalled
       ELSE UNCHANGED <<jobVars, rpc>>
    /\ UNCHANGED <<settings, dirty, stored, faulty, running, frameVars,
                   renderRequested, saveRequest, savePreset, taken, winVars,
                   recRunning, recCommand, interrupted, work, clipVars, ui,
                   frames, acts>>

\* render(), entered by the process thread and by setSurface(): under
\* renderMutex_ the window is acquired ...
Enters(t) == \/ t = "process" /\ pc = "draw" /\ taken.render
             \/ t = "ui" /\ ui = "draw"

\* ANativeWindow_acquire(window_), under mutex_.
Acquired == IF window = None THEN refs ELSE [refs EXCEPT ![window] = @ + 1]

BeginRender(t) ==
    /\ Enters(t) /\ renderer = "nobody"
    /\ renderer' = t /\ drawing' = window /\ refs' = Acquired
    /\ UNCHANGED <<settings, dirty, stored, faulty, running, frameVars,
                   renderRequested, saveRequest, savePreset, pc, taken, window,
                   recVars, jobVars, clipVars, ui, frames, acts>>

\* ... and released once the picture is posted or could not be.
EndRender(t) ==
    /\ renderer = t /\ renderer' = "nobody"
    /\ drawing' = None /\ refs' = Released(drawing)
    /\ IF t = "process" THEN pc' = "wait" /\ taken' = NoPass
                        ELSE UNCHANGED <<pc, taken>>
    /\ ui' = IF t = "ui" THEN "up" ELSE ui
    /\ UNCHANGED <<settings, dirty, stored, faulty, running, frameVars,
                   renderRequested, saveRequest, savePreset, window,
                   recVars, jobVars, clipVars, frames, acts>>

SkipRender ==
    /\ pc = "draw" /\ ~taken.render /\ pc' = "wait" /\ taken' = NoPass
    /\ UNCHANGED <<settings, dirty, stored, faulty, running, frameVars,
                   renderRequested, saveRequest, savePreset, winVars,
                   recVars, jobVars, clipVars, ui, frames, acts>>

ProcessEnds ==
    /\ pc = "wait" /\ ~running /\ pc' = "ended"
    /\ UNCHANGED <<settings, dirty, stored, faulty, running, frameVars,
                   renderRequested, saveRequest, savePreset, taken, winVars,
                   recVars, jobVars, clipVars, ui, frames, acts>>

-----------------------------------------------------------------------------
\* The recorder thread.

RecKeeps == UNCHANGED <<settings, running, frameVars, renderRequested,
                        saveRequest, savePreset, pc, taken, winVars,
                        recRunning, interrupted, ui, frames, acts>>

Leaves == ~recRunning

\* The head of recorderLoop, under recMutex_: sleep, leave, or take the command
\* and note the job that is in the slot at this moment.
RecorderChecks ==
    /\ rpc = "check"
    /\ \/ /\ Leaves /\ rpc' = "closing"
          /\ UNCHANGED <<recCommand, work>>
       \/ /\ ~Leaves /\ recCommand = "none" /\ ~recPending /\ ~dirty
          /\ rpc' = "asleep" /\ UNCHANGED <<recCommand, work>>
       \/ /\ ~Leaves /\ (recCommand # "none" \/ recPending \/ dirty)
          /\ work' = [work EXCEPT !.command = recCommand,
                                  !.job = IF recPending THEN recJob ELSE "none"]
          /\ recCommand' = "none" /\ rpc' = "command"
    /\ RecKeeps /\ UNCHANGED <<dirty, stored, faulty, jobVars, clipVars>>

\* startRecording(), unlocked: first the style the manifest will name ...
StartClip == /\ rpc = "command" /\ work.command = "start"
             /\ recordPreset' = selected /\ rpc' = "open"
             /\ RecKeeps
             /\ UNCHANGED <<dirty, stored, faulty, recCommand, work, jobVars, recording,
                            clip, ended>>

\* ... then the stream, which closes one that was still open.
OpenClip == /\ rpc = "open"
            /\ recording' \in BOOLEAN
            /\ clip' = [open |-> recording', frames |-> 0, failed |-> FALSE]
            /\ lastRecorded' = 0 /\ rpc' = "job"
            /\ RecKeeps
            /\ UNCHANGED <<dirty, stored, faulty, recCommand, work, recPending, recJob,
                           recPreset, recFrame, recordPreset, ended>>

\* mutant: the clip gets its name whatever the stream says.
NameOf_always(whole, byFault) == IF byFault THEN "incomplete" ELSE "final"

\* The temporary file is renamed only when the stream finished without an error.
NameOf(whole, byFault) == IF ~whole THEN "temporary"
                          ELSE IF byFault THEN "incomplete" ELSE "final"

\* finishRecording(): nothing without a clip, else the stream is finished, the
\* file renamed and the manifest written.
FinishClip(byFault) == \E flushed \in BOOLEAN :
    IF ~recording THEN UNCHANGED clipVars
    ELSE /\ ended' = [name |-> NameOf(flushed /\ ~clip.failed, byFault),
                      failed |-> clip.failed]
         /\ clip' = [clip EXCEPT !.open = FALSE]
         /\ recording' = FALSE /\ UNCHANGED recordPreset

RecorderFinishes == /\ rpc = "command" /\ work.command = "finish"
                    /\ FinishClip(interrupted) /\ rpc' = "job" /\ RecKeeps
                    /\ UNCHANGED <<dirty, stored, faulty, recCommand, work, jobVars>>

NoCommand == /\ rpc = "command" /\ work.command = "none" /\ rpc' = "job"
             /\ RecKeeps
             /\ UNCHANGED <<dirty, stored, faulty, recCommand, work, jobVars, clipVars>>

\* writeJob(): recorderFrame_ is encoded, added to the clip or written as a
\* photo, and the slot is freed.  A frame the stream does not take ends the clip:
\* there is no stream, its index is full, or the write failed, with the frame
\* counted or not.
WriteJob ==
    /\ rpc = "job" /\ work.job # "none"
    /\ recPending' = FALSE /\ recJob' = "none"
    /\ \/ rpc' = "settings" /\ UNCHANGED clip  \* not encoded, or a snapshot
       \/ /\ work.job = "video" /\ clip.open /\ rpc' = "settings"
          /\ clip' = [clip EXCEPT !.frames = @ + 1]
       \/ /\ work.job = "video" /\ rpc' = "stop"
          /\ \/ UNCHANGED clip
             \/ /\ clip.open
                /\ \E counted \in {0, 1} :
                      clip' = [clip EXCEPT !.frames = @ + counted,
                                           !.failed = TRUE]
    /\ RecKeeps
    /\ UNCHANGED <<dirty, stored, faulty, recCommand, work, recPreset, recFrame,
                   lastRecorded, recording, recordPreset, ended>>

NoJob == /\ rpc = "job" /\ work.job = "none" /\ rpc' = "settings" /\ RecKeeps
         /\ UNCHANGED <<dirty, stored, faulty, recCommand, work, jobVars, clipVars>>

StopAfterJob == /\ rpc = "stop" /\ FinishClip(TRUE) /\ rpc' = "settings"
                /\ RecKeeps
                /\ UNCHANGED <<dirty, stored, faulty, recCommand, work, jobVars>>

\* saveSettingsNow(): a temporary file, renamed when it could be flushed.  The
\* mark is taken back at the end, unless the file could not be opened.
Saved(live) == \/ faulty' = TRUE /\ UNCHANGED <<stored, dirty>>
               \/ faulty' = TRUE /\ dirty' = FALSE /\ UNCHANGED stored
               \/ stored' = live /\ dirty' = FALSE /\ UNCHANGED faulty

\* The recorder reads the settings without a lock ...
RecorderReads == /\ rpc = "settings"
                 /\ IF dirty THEN work' = [work EXCEPT !.live = Live]
                                  /\ rpc' = "save"
                             ELSE rpc' = "check" /\ work' = NoWork
                 /\ RecKeeps
                 /\ UNCHANGED <<dirty, stored, faulty, recCommand, jobVars,
                                clipVars>>

\* ... and takes the mark back when they are on the card.
RecorderSaves == /\ rpc = "save" /\ rpc' = "check" /\ Saved(work.live)
                 /\ work' = NoWork
                 /\ RecKeeps /\ UNCHANGED <<recCommand, jobVars, clipVars>>

RecorderEnds == /\ rpc = "closing" /\ FinishClip(TRUE) /\ rpc' = "ended"
                /\ RecKeeps
                /\ UNCHANGED <<dirty, stored, faulty, recCommand, work, jobVars>>

-----------------------------------------------------------------------------
\* The destructor, on the user interface thread: join the process thread, then
\* the recorder, let the window go and save what is marked.

DestroyKeeps == UNCHANGED <<settings, frameVars, renderRequested, saveRequest,
                            savePreset, pc, taken, renderer, drawing,
                            recCommand, interrupted, work, jobVars, clipVars,
                            frames, acts>>

Destroy == /\ ui = "up" /\ ui' = "joinProcess" /\ running' = FALSE
           /\ DestroyKeeps
           /\ UNCHANGED <<dirty, stored, faulty, window, refs, recRunning, rpc>>

JoinProcess == /\ ui = "joinProcess" /\ pc = "ended" /\ ui' = "joinRecorder"
               /\ recRunning' = FALSE /\ rpc' = Signalled
               /\ DestroyKeeps
               /\ UNCHANGED <<dirty, stored, faulty, running, window, refs>>

JoinRecorder == /\ ui = "joinRecorder" /\ rpc = "ended" /\ ui' = "save"
                /\ refs' = Released(window) /\ window' = None
                /\ DestroyKeeps
                /\ UNCHANGED <<dirty, stored, faulty, running, recRunning, rpc>>

SaveAtEnd == /\ ui = "save" /\ ui' = "gone"
             /\ IF dirty THEN Saved(Live) ELSE UNCHANGED <<stored, faulty, dirty>>
             /\ DestroyKeeps
             /\ UNCHANGED <<running, window, refs, recRunning, rpc>>

Gone == ui = "gone" /\ UNCHANGED vars

-----------------------------------------------------------------------------

Keys == \/ \E delta \in {-1, 1} : \/ KeyLeftRight(delta) \/ KeyUpDown(delta)
                                  \/ TouchStyle(delta)
        \/ \E to \in {"drawer", "browser", "gallery", "camera"} : KeyScene(to)
        \/ \E level \in {0, 100} : TouchDrag(level)

Recording == \/ SaveSnapshot \/ ToggleRecording
             \/ \E byFault \in BOOLEAN : StopRecording(byFault)

Surface == (\E w \in Windows : SetSurface(w)) \/ ClearSurface \/ AsksToDraw

UserActs == \/ "keys" \in Inputs /\ Keys
            \/ "favorite" \in Inputs /\ TouchTwice
            \/ "recording" \in Inputs /\ Recording
            \/ "surface" \in Inputs /\ Surface

Process == \/ TakePass \/ FilterFrame \/ TakeRequest \/ QueueJob \/ SkipRender
           \/ ProcessEnds \/ BeginRender("process") \/ EndRender("process")

Recorder == \/ RecorderChecks \/ StartClip \/ OpenClip \/ RecorderFinishes
            \/ NoCommand \/ WriteJob \/ NoJob \/ StopAfterJob \/ RecorderReads
            \/ RecorderSaves \/ RecorderEnds

Teardown == \/ JoinProcess \/ JoinRecorder \/ SaveAtEnd
            \/ BeginRender("ui") \/ EndRender("ui")

Next == UserActs \/ Submit \/ Process \/ Recorder \/ Destroy \/ Teardown \/ Gone

Spec == Init /\ [][Next]_vars

-----------------------------------------------------------------------------

Frames == [stamp : 0 .. MaxFrames, style : Styles]
Commands == {"none", "start", "finish"}
Jobs == {"none", "video", "snapshot"}
Settings == [selected : Styles, intensity : 0 .. 100, favorites : SUBSET Styles]

FlagsOK ==
    /\ dirty \in BOOLEAN /\ faulty \in BOOLEAN /\ running \in BOOLEAN
    /\ pending \in BOOLEAN /\ inUse \in BOOLEAN /\ renderRequested \in BOOLEAN
    /\ hasFrame \in BOOLEAN /\ saveRequest \in BOOLEAN /\ recRunning \in BOOLEAN
    /\ recPending \in BOOLEAN /\ recording \in BOOLEAN /\ interrupted \in BOOLEAN

\* Every variable has the values of its type.
TypeOK ==
    /\ Live \in Settings /\ stored \in Settings
    /\ scene \in {"camera", "drawer", "browser", "gallery"}
    /\ FlagsOK
    /\ slot \in 0 .. MaxFrames /\ lastRecorded \in 0 .. MaxFrames
    /\ savePreset \in Styles /\ recPreset \in Styles /\ recordPreset \in Styles
    /\ output \in Frames /\ recFrame \in Frames
    /\ pc \in {"wait", "filter", "request", "queue", "draw", "ended"}
    /\ taken.style \in Styles /\ taken.stamp \in 0 .. MaxFrames
    /\ window \in Windows \union {None} /\ drawing \in Windows \union {None}
    /\ refs \in [Windows -> Nat] /\ renderer \in {"nobody", "process", "ui"}
    /\ recCommand \in Commands /\ work.command \in Commands
    /\ recJob \in Jobs /\ work.job \in Jobs /\ work.live \in Settings
    /\ rpc \in {"check", "asleep", "command", "open", "job", "stop", "settings",
                "save", "closing", "ended"}
    /\ ended.name \in {"none", "temporary", "incomplete", "final"}
    /\ ui \in {"up", "draw", "joinProcess", "joinRecorder", "save", "gone"}

\* The frame the process thread decodes is not overwritten by the camera's
\* thread meanwhile.
FrameIsStill == [][pc = "filter" => slot' = slot]_vars

\* The recorder has noted a job and not encoded it yet.
JobNoted == rpc \in {"command", "open", "job"} /\ work.job # "none"

\* From the moment the recorder notes a job until it has encoded it, the picture
\* in the job slot stands still, though commands, a new clip and more frames
\* come in between.
JobIsStill == [][JobNoted => recFrame' = recFrame]_vars

\* Every reference to a window belongs to the runtime or to the drawing in
\* progress: a window that is drawn on is held, also when the surface changes
\* under the drawing, and none is held once the runtime is gone.
References(w) == (IF window = w THEN 1 ELSE 0) + (IF drawing = w THEN 1 ELSE 0)
WindowsAreHeld == \A w \in Windows : refs[w] = References(w)
=============================================================================
