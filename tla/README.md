# RetroLens in TLA+

RetroLens is a camera application for Sony cameras that run Android: it shows Sony's preview, polls
an *analytical* sequence of small JPEG frames beside it, filters them natively in a chosen style, and
keeps a processed derivative of every photo the camera takes. This directory models it: the parts
where threads, callbacks, failures and restarts meet, and the arithmetic of the picture on its way to
the screen. TLC checks the models on small instances; TLAPS proves the safety of the frame path, the
photo thread, the photo store, the style settings, the way to the card, the activity with its camera, the
filter, the copy to the window and the clip writer for every instance.

Paths below are relative to the repository: `jni/` is `app/src/main/jni/`, `java/` is
`app/src/main/java/io/pihda/retrolens/`.

## The system

```
main thread (Android callbacks)          frame worker (Java)       native process thread   native photo thread
RetroLensActivity                        CameraSequenceFrameSource DisplayProbeWorker::run DisplayProbeWorker::photoRun
 |- SonyCameraController -- CameraEx      open/start/poll/release       ^ mutex_                ^ photoMutex_
 |- NativeDisplayProbeController --JNI------ submitJpeg ----------------|                       |
 |   posts the finished screen and polls, each every 125 ms             |--- requestPhoto, key --|-> PhotoStore (card)
 |- StorageProbeWorker (own thread) -- StorageController (card) -- verdict --------------------->|
 |- Logger (monitor; flush() writes to the card)
```

| Component | State it keeps | Operations | Made correct by |
|---|---|---|---|
| Frame pipeline, `jni/display_probe_worker.cpp` | one-slot input, raw, filtered and previous image, flags, selected style | `submitJpeg`, `run`, style changes, `requestPhoto`, `stop` | no frame lost or overwritten; no two styles in one history; a photo shows the style it is filed under; changes reach the screen |
| Photo worker, same file | job slot, one shared frame buffer, gallery index, count and thumbnail, message | `photoRun`, `key`, `requestPhoto`, `configureStorage`, `stop` | each accepted job done and answered once; indices valid; what is shown is what is selected |
| Settings and styles, same file and `jni/photo_store.cpp` | selected style, intensity, adjustments, favorites, recent list, drawers; `settings.cfg` | `key`, `touch`, the load by the photo thread, the save in `stop` | what was left is read again; lists stay lists; the screen names what is selected |
| Photo store, `jni/photo_store.cpp` | files of up to 48 photos, index, entries in memory | `initialize`, `savePhoto`, `deletePhoto`, rebuild | the index names complete sets only, wherever the process ends; memory and card agree |
| Storage gate, `java/StorageProbeWorker.java`, `java/StorageController.java` | retry schedule, verdict, two probe files | `start`, `stopAndJoin`, the probe | a verdict reaches the worker of its own session, and every worker gets one |
| Activity, `java/RetroLensActivity.java` | resumed, quarantined, the current frame source | `onResume`, `onPause`, callbacks | everything is released, in order, unless a Sony call hangs: then quarantine |
| Frame source, `java/CameraSequenceFrameSource.java` | sequence, started, stopping, buffer counts | `start`, `stopAndJoin`, `requestSequenceStop`, the worker | stopped before released; never two workers; an alarm has a cause |
| Native controller, `java/NativeDisplayProbeController.java` | native handle, surface, ticks, reveal | `start`, `stop`, `fail`, `submitJpeg`, ticks and polls | not destroyed under a call, except by `fail()`; only a filtered picture covers the Sony preview; posting goes on |
| Camera controller, `java/SonyCameraController.java` | camera, preview, capture generation, timers | `start`, `stop`, `capture`, release by key or timer | every picture let go of, only by its own timer |
| Filter core, `jni/retrolens_core.cpp` | the previous frame; otherwise pure | `processFrame`, `blitRgb565CenterCrop`, presets | tones and trails are what the preset says; no pixel outside its place |
| Compositor, `jni/display_probe.cpp` | none; pure | `renderDisplayProbe` | answers readable, labels true, everything on the screen |
| Clip writer, `AviWriter` in `jni/retrolens_core.cpp` | a file, its index | `open`, `addFrame`, `finish`, `abort` | a finished clip plays, whatever write failed before |
| Earlier runtime, `jni/retrolens_runtime.cpp` | slot, window references, recorder job, clip, settings | frames, keys, surfaces, recorder, destructor | what a thread works on unlocked stands still; a clip gets its name only when it plays |
| Encoder, vendored decoder, movie controller, status view, key dispatch, scripts | none that matters | | not modelled, see the end |

The hard behaviours are: work done between two critical sections on state that others change; a job
slot given back before the job's results are out; an index and files that must agree whatever
interrupts them; callbacks, posts, timers and verdicts that arrive after the session they belong to;
Sony and card calls that throw or never return; and integer arithmetic that feeds back or is rounded
more than once. `PROJECT.json` lists them one by one under `hazards`, at the line where each bites,
with the properties that watch it.

## The modules

| Module | Models | An action is |
|---|---|---|
| `FramePipeline` | the frame path of `DisplayProbeWorker` | one critical section of `mutex_`, or one stretch of `run()` between two of them |
| `PhotoWorker` | `photoRun`, its slot and the gallery | one UI operation (they hold `mutex_` throughout), or one step of `photoRun` between mutexes |
| `PhotoStore` | the files on the card | one file operation (write of a temporary, rename, unlink), or its failure |
| `Gallery` | what the store promises whoever opens the card | a photo added, a photo removed |
| `StoreCalls` | what the store promises its caller, and asks of it | a call and its answer |
| `StyleSettings` | style state, drawers, `settings.cfg` | one key or touch, the load, an orderly stop, a kill |
| `StorageGate` | probe workers, verdict, native gate, logger's monitor | one file operation, one step of a thread, one callback |
| `Lifecycle` | activity, frame source and native controller | one callback, or one step of one that waits; one step of the frame worker |
| `CaptureGuard` | `SonyCameraController` | one callback of the main thread |
| `Display` | buffers, native drawing, surface, ticks and polls | one callback, one step of the native or frame worker |
| `Screen` | `renderDisplayProbe`: pictures, boxes, texts | one composition |
| `Catalogue`, `PixelFilter` | the 70 presets; `processFrame` for one pixel | one frame |
| `Raster` | the copies into the window's buffer, the sampling of `processFrame` | one row copied |
| `AviClip` | `AviWriter` and its file | one call, failing or not |
| `RetroRuntime` | the earlier runtime's three threads | one critical section, or one stretch between two |
| `FramePipelineProofs`, `PhotoWorkerProofs`, `PhotoStoreProofs`, `StyleSettingsProofs`, `StorageGateProofs` | theorems about the module of that name | |
| `EarlierRuntimeProofs` | theorems about `MCEarlierRuntime` and its two parts | |
| `WindowProofs` | theorems about `Display`, and about `MCDrawing` with its `PixelFilter`, `Raster` and `Screen` | |
| `ActivityProofs` | theorems about `MCActivity` and its two parts | |
| `MCActivity` | composition: `Lifecycle` with `CaptureGuard` as its camera | a step of either; opening, closing and the start of a preview are joint |
| `MCEarlierRuntime` | composition: `RetroRuntime` with `AviClip` as its `avi_`; `AviClip` also alone | a recorder step and the writer call it stands for are joint |
| `MCDrawing` | the filter, the compositor and the copy, each explored with the others at rest | as in their modules |
| other `MC...` | instances for TLC | |

How the models correspond to the code:

* **FramePipeline.** An image is the number of its frame, the look it was rendered with and the set of
  looks that reached it through the temporal blend. `phase` says where the process thread is between
  its critical sections. A *look* stands for all that `processFrame` takes besides pixels, so that
  selecting, dialling, stepping categories and loading settings are one action, `ChangeLook`. A decode
  that fails half-way leaves the raw image `Torn`. The copy in `requestPhoto` may take part of the old
  and part of the new image while `run()` is filtering (`CopySources`).
* **PhotoWorker.** A photo is a number; frame buffer, thumbnail and stored entry are the photo they
  show. The store is `StoreCalls`, an interface: `PhotoWorker` makes the calls in the order it asks for
  (`StoreIsCalledReady`), `PhotoStore` implements their answers (`CallsDoAsAnswered`), and as the thread is blocked in
  its call, the two meet nowhere else. `overlapped`
  records that a job was accepted between the freeing of the slot and the posting.
* **PhotoStore.** A file is present or absent, since `flushAndClose` comes before the rename; a
  temporary file is there or not, and one that a failed call could not remove stays (`littered`). `Visible` is what the caller sees: the entries of before, until its call returns
  with `result`. `ProcessEnds` keeps the card and forgets the memory. `EditCard` is
  someone else at the card: a file removed or the index damaged while the store is not looking.
* **StyleSettings.** `live` is what `settingsLocked()` would collect; `card` is the file, whose reading
  back goes through the clamps and limits of `loadSettings`. `left` remembers what an orderly stop
  stored, so that the next load can be held to it; `blind` that a session could not read the file. `keyHeld` and `finger` are
  the user's compare key and finger, on which only `ShownIsLive` looks.
* **StorageGate.** One Java worker per session, its probe cut at each file operation; an operation
  may take for ever. `onPause` waits at most 750 ms: then the worker is an orphan that goes on beside the next
  session's. Of a probe file only its writer matters, since the probes check what they wrote.
* **Lifecycle.** The main thread is inside a callback that waits while `main` is not `"free"`. Sony's
  sequence is external: each call succeeds, throws or, as the worker's steps are not fair, never
  returns. One worker variable is enough because no second worker is started beside a live one.
* **CaptureGuard.** The timers all have the same delay, so they are a queue. Any call on the camera may
  throw. In `MCActivity` the camera is opened by `onResume`, stopped by the pause that
  releases it, and `onCameraReady` is called exactly when a preview starts; keys come only while the
  activity is shown.
* **Display.** A drawing is what `Screen` would show for the worker's state at that moment, reduced to
  its picture and its alert. Between the native post and what Java does with its result the worker may
  complete a frame (`ui`, `outcome`).
* **Screen.** A piece is named by its text and takes the cells the code computes; a box covers what
  was drawn before. Places are the numbers of the source.
* **PixelFilter.** The passes in the order and with the truncating divisions of `processFrame`; the
  output of each frame is the `previous_` of the next. A look is a preset's record, a subject a sampled colour
  and a gradient; the grain's random number is an input.
* **Raster.** The buffer maps each index to the source index whose colour it has, or `Stale`.
* **AviClip.** Positions are the byte positions of the file; a chunk is header, data and pad byte. A
  write may fail anywhere and raises the stream's error, which nothing clears.
* **RetroRuntime.** `pc` and `rpc` say what the process thread and the recorder do unlocked, `refs`
  counts the references to each window, `clip` and `ended` are the file and the name it was left with.
  The module is of a file that `Android.mk` leaves out of the library.

Definitions whose name ends in an underscore and a word (`SlotFree_whileDecoding`) are *mutants*: the
definition above which they stand, with one plausible slip. Each property has one that breaks it.

## What is checked

| Run | Bounds | States | What it shows |
|---|---|---|---|
| `frame_pipeline` | 2 looks, 3 frames | 152 k | frame conservation, no overwriting, histories and snapshots of one look, changes reach the screen |
| `photo_worker` | a store of 2, 1 on the card, 2 saves | 1.2 M | the job slot, the gallery's indices and messages, the order of calls into the store; `stop()` returns |
| `photo_store` | a store of 2, 4 photos, 1 edit of the card | 13.9 M | index and files under every error, interruption and one edit; `PhotoStore` implements `Gallery` between edits; a call has done what it answers |
| `activity` | 2 sessions, 3 captures | 990 k | release order, quarantine, reports, captures and their timers; a pause returns |
| `style_settings` | 4 styles, a list of 3, 2 parameters, 6 keys, 2 sessions | 1.1 M | lists, names on the screen, what is stored is what was left |
| `storage_gate` | 2 attempts, 2 sessions | 50 k | whose verdict it is, what a native failure means, the gate opens |
| `display` | 4 buffers, 2 native workers | 580 k | what covers the preview, how long posting goes on, when it is revealed or given up |
| `drawing` | 70 presets over extreme pixels; every scene; sources to 7x6, buffers to 5x5 with a row of padding more or less | 200 k | tones, trails, texts and rows |
| `earlier_runtime` | 2 presets, 2 windows, an index of 2, 3 clips | 1.3 M | what is worked on unlocked stands still; a named clip plays |
| `delete_confirmation` | a store of 2, 2 on the card, 1 save | | a violated sentence, see below |
| `lifecycle_quarantine`, `history_reset` | as `activity`, `frame_pipeline` | | two more |

Why these bounds are enough:

* Two looks are all that a history can mix; three frames allow one processed, one in work and one
  dropped at the same time.
* A store of two makes a save evict and gives the gallery a next and a last photo; a second save
  overlaps the posting of the first. Four photos in the store of two leave more complete sets on the card
  than a rebuild keeps, two of them with the same time (`MCMTime`).
* In two sessions a report, a probe worker, a timer or a quarantine meets the session after its own.
  Three captures let one overtake another and a third follow.
* Four styles, two in the same category around one that is not, and a list of three: the list overflows,
  a style moves up from its middle and its end. Six keys reach every drawer and change two settings.
* Three decode failures in a row are what `pollStats` gives up on; a fourth buffer comes before or after them.
* Adjustments, grain and pixels are taken at their extremes and between, texts at their shortest and
  longest (`ScreenIsReadable` has those between), buffers odd and even, smaller and larger than the source, with and
  without padding.
* An index of two frames is full at the second; odd and even sizes need and do not need a pad byte.

The bounds are `MaxFrames`, `MaxSaves`, `MaxPhotos`, `MaxEdits`, `MaxSessions`, `MaxCaptures`,
`MaxActs`, `MaxStarts`, `MaxClips` and `Submitted`, each in the guard of an action the environment
starts (a frame, a save, a resume, a key); none limits a step the program takes by itself. `MaxEntries`,
`RecentMax`, `MaxAttempts` and `MaxFrames` and `MaxJpeg` of `AviClip` are limits of the code, made small. Deadlock
is checked for the store, where the process can always be started again, and for the drawing; elsewhere the
user may stop.

**Fairness.** It is assumed of the program's own threads and queues, never of the user or of a Sony
call:

* process thread and photo thread: weak; each waits on a condition that is broadcast by whoever changes
  what it waits for, or with a timeout. The message's expiry likewise: it is tested at every
  drawing;
* `activity`: weak for the main thread inside a callback, for its queue of reports, and for those steps of
  the frame worker that call nothing of Sony's; strong for the capture timers, since the handler serves its
  queue between callbacks that all return but a pause comes again and again;
* `storage_gate`: weak for callbacks, the workers' own steps and the native thread, and for `GateOpens`
  also for each file operation, "the card answers": that property promises nothing of a card that hangs;
* `display`: weak for the native worker's completion, for queued ticks and polls and for what follows a post;
  camera frames and Android's surface may stay away. It is taken for granted that Android destroys the surface of
  a view that was hidden before it shows the next one.

A property that something must happen is stated `P ~> Q` or, where `P` is the absence of `Q`,
as `[]<>`.

### What the code does not keep

Three runs state a sentence of `README.md` and TLC finds the program breaking it:

| Run | Sentence | What happens |
|---|---|---|
| `history_reset` | history "resets on style changes" | a change during the very first frame is not remembered (`styleDirty_ = hasRaw_` is false), so its look is blended into the next |
| `delete_confirmation` | "removes only the selected derivative" | a save posted while the dialog is open takes index 0, and the new photo is deleted instead of the one that was selected and shown when the dialog opened |
| `lifecycle_quarantine` | "quarantined rather than released beneath a live call" | the second pause finds no frame source any more and releases the camera |

Others were met while modelling. The passing properties that touch them name the
exception, so that they say exactly what is left of each promise:

| Where | Documented | What the code does |
|---|---|---|
| `display_probe_worker.cpp:439` | the "sidecar records preset" | a photo taken before the restyle ran shows the old look under the new name (`styleDirty` in `SnapshotShowsSelection`) |
| `display_probe_worker.cpp:694` | "Playback displays the selected processed image" | a gallery step during a load is refused, and another photo's thumbnail stays beside the new index (`overlapped` in `ThumbnailIsLoadedPhoto`) |
| `display_probe_worker.cpp:698`, `:321` | "expires routine messages" (`DEVICE_FINDINGS.md:39`) | FAILED after a thumbnail that could not be loaded has no deadline, nor has BUSY after a refused delete: both stay until another job or message replaces them (`Undated` in `MessagesExpire`) |
| `display_probe_worker.cpp:876` | a photo is of "a processed analytical frame" | after a decode that failed half-way, a restyle filters a torn image and a photo can keep it (`Torn`) |
| `display_probe_worker.cpp:603` | selected style and favorites "are versioned and persisted" | what the user chose before the store answered is overwritten by the load (`StoredIsWhatWasLeft` speaks of what was live at the stop) |
| `display_probe_worker.cpp:617` | quick controls choose a parameter | the load shows the intensity beside the name of the chosen parameter |
| `display_probe_worker.cpp:355` | the "diagnostics state" is persisted | a drawer left by another key than Fn stays stored as open |
| `display_probe_worker.cpp:382` | "Hold original/effect split compare" | the end of any touch ends the comparison while the key is down |
| `display_probe_worker.cpp:372` | "Hold original/effect split compare" | a touch that Android cancels (`ACTION_CANCEL`) leaves the comparison on, until the next touch ends or the key is used (`TouchCancel`; excepted in `ShownIsLive`) |
| `NativeDisplayProbeController.java:282` | `start`, `stop` and `submitJpeg` are `synchronized`, so that the native worker is not destroyed under a submission | `fail()`, which a tick or a poll calls, takes no monitor and destroys it; what the submission does then is undefined and not modelled (`NativeFails` in `LiveCallsKeepWhatTheyUse`) |
| `RetroLensActivity.java:97` | "one bounded Java worker" probes | a worker that outlives its join goes on at the probe files beside the next one (`orphaned` in `NativeFailureIsReal`) |
| `Logger.java:47` | "storage-pending shutdown is bounded" | `onPause` logs first, and waits for a `flush()` that holds the monitor at a card that hangs |
| `NativeDisplayProbeController.java:242` | "decode failure hides native output" | after one processed frame the last picture stays, however many frames fail (`PollDecides` says so) |
| `display_probe.cpp:277` | the movie key displays `PHOTO ONLY` | gallery scenes draw no message |
| `display_probe.cpp:175` | playback shows preset and label | the longest name runs into the label (excluded in `TextsAreApart`) |
| `retrolens_core.cpp:340` | "Cyan-magenta-black-white" palette | dithering comes after the palette and adds darker tones (`TonesStand` counts the tones of posterizing only) |
| `retrolens_runtime.cpp:561` | "preset change ignored while Retro Clip is recording" | the category key changes it |

`CaptureGuard`'s `overtaken` is an exception of its own: a second `takePicture` that throws uses up the
generation the first capture's timer was armed with.

## What is proved

The proofs hold for every value of the constants. Each module names its only assumption, an `ASSUME` that
TLC evaluates in every run; none restricts more than the code does (limits are natural numbers or
positive, ids are distinct, ranges are not empty). Where a property is not inductive, a strengthening is; TLC
checked each of them before it was proved.

| Module | Run properties it proves | Inductive invariant |
|---|---|---|
| `FramePipelineProofs` | `FrameConservation`, `DecodedFrameIsTaken`, `HistoryOfOneLook`, `SnapshotShowsSelection` | `IInv` |
| `PhotoWorkerProofs` | `SavesAreAnswered`, `ThumbnailIsLoadedPhoto`, `IndicesAgree`, `StoreIsCalledReady` | `WorkerInv`, `ReadyInv` |
| `PhotoStoreProofs` | `IndexNamesCompleteSets`, `CardAndMemoryAgree`, `ImplementsGallery`, `CallsDoAsAnswered` | `StoreInv`, `AnswerInv` |
| `StyleSettingsProofs` | `RecentIsHistory`, `ShownIsLive`, `StoredIsWhatWasLeft` | `StyleInv` |
| `StorageGateProofs` | `VerdictOfThisSession`, `NativeFailureIsReal` | `GateInv` |
| `ActivityProofs` | `ReleasedInOrder`, `ReportsStayInSession`, `LiveCallsKeepWhatTheyUse`, `CaptureIsGuarded`, `TimerReleasesItsOwn` | `LifecycleInv`, `GuardInv` |
| `EarlierRuntimeProofs` | `NamedClipIsPlayable`, `WorkStandsStill` | `Inv`, `RuntimeInv` |
| `WindowProofs` | `OverlayIsFiltered`, `ImbalanceHasACause`, the safety half of `PostingGoesOn`; `RowsAreWhole`, `DrawnInRange`, `TonesStand`, `TrailsDecay`, `ScreenReads` | `CoverInv`, `BalanceInv`, `ChainInv`; `DrawingInv` (`RowsInv`, `FilterInv`); `ScreenInv` |

**`FramePipelineProofs`** (from `PipelineAssumption`: the initial look is a look, the bound a natural
number). `IInv` adds to the type invariant and the properties

* `Handshake`: `inputInUse_` is up exactly while a frame task runs, decoding is only ever of a frame
  task, a history implies a decoded frame, and a restyle runs without a history. Conservation needs it to
  know that completing a frame takes exactly one out of the slot.
* `Buffers`: the compressed buffer holds the task's frame while it is decoded (`submitJpeg` is locked out
  by `Handshake`), raw and filtered image hold the task's frame after that, and a filtered frame exists
  once the flags say so.
* `History`: as long as no change came during the first frame and no restyle is owed, the history is of
  the selected look and a running task works with it; in any case each image blends one look at most.

**`PhotoWorkerProofs`** (from `WorkerAssumption`: the capacity is positive, the photos found on the card fit in it). `SlotInv` says who has the job slot at each step of
`photoRun`, and that a job found in it before the last results are posted has *overlapped* them. `CountInv`
says that the count on the screen is the store's except from a job's end to the posting of its results
(`StoreChanged`), and that the selection and a queued job stay below it. `ThumbnailInv` says which photo
the thumbnail and the shared buffer show meanwhile. The arithmetic of a store that evicts its oldest,
appends, or loses one from the middle is in lemmas on sequences (`WithEntryProperties`, `RemovedEntry`).
`StoreIsCalledInOrder` is the caller's half of the interface `StoreCalls`. `deletePhoto` does not ask whether the store
is Ready, and `storageReady_`, by which the UI thread goes, is posted after the slot is freed: `ReadyInv` says that it is
late, but never up for a store that was not Ready, and that no job is in the slot or at work on such a store.

**`PhotoStoreProofs`** (from `StoreAssumption`: capacity and bound are positive, modification times are numbers). The invariant is one part per call:
what is on the card at each stage of a save (`SaveInv`: the files of the earlier stages are there, the photo is newer than
all others and not in the index), of a deletion, of a rebuild, and of the unlinking that follows
(`UnlinkInv`: what is unlinked is no longer in the index). `IndexInv` is the promise itself, excepting only
what someone else removed; `TidyInv` accounts for every file on the card exactly, so that
`CardAndMemoryAgree` follows when a call ends. `StoreImplementsGallery` is the refinement, with the index on
the card as the gallery: its rename is a step of `Gallery`, and every other step of the store
stutters, the end of the process included. Between someone's edit of the card and the next `Ready` nothing is promised.
`CallsAreAnswered` is the store's half of `StoreCalls`. `AnswerInv` says what is already done while files are unlinked
and what the answer will be; the lists an initialization finds name no photo twice. The interface showed that the
worker's model had left out an outcome: an index that cannot be rewritten after a rebuild that found nothing.

**`StyleSettingsProofs`** (from `StyleAssumption`: a preset's id is its own, each range has a value and
an adjustment's includes 0). `Good` is what settings may be; `FileInv` says that the file is
always the image of good settings, and that a session which changed nothing since it loaded them holds exactly what
it says. Two lemmas carry it: `RecordedProperties` (a style moves to the front and no entry is lost to
or duplicated by the shift) and `ReadWritten` (every setting survives the file). `UserIsTidy` treats all
keys and touches at once: whatever the user does, settings stay good, a change is marked dirty and the screen
is consistent.

**`StorageGateProofs`** (from `GateAssumption`: at least one attempt). `SessionInv`: exactly the worker
of this session is not told to stop. `VerdictInv`: what was passed on is the verdict of that worker, which is done,
and the photo thread starts on the card only with "Ready". `FilesInv`: while no worker of an earlier session is
left, the files are those of the native probe, whose failure is then the card's.

**`ActivityProofs`** (from `LifecycleAssumption` and `CaptureAssumption`: the bounds are natural numbers). A
step of `MCActivity` is one of `Lifecycle`, one of `CaptureGuard` or of both
(`ActivityImplementsItsParts`), so that what is proved of each part holds of the composition. `LifecycleInv`
says where the main thread, the frame worker and Sony's sequence can be at the same time: `SequenceInv`
has the sequence's state for each step of the worker, which is what makes "stopped before released" true
although two threads may stop it; `ReportInv` says that only a report that straddled a pause
can be of another session. `GuardInv` says that whatever changes the picture uses up a generation, so that
a timer which finds its own generation finds its own picture (`TimersApart`), and that a capture under way has
a timer to let go of it (`CaptureHeard`). The theorems carry the exceptions of their properties: a camera that an
earlier pause has quarantined, and `fail()`, in `LiveCallsAreSafe`; `straddled` and `overtaken` in the others.

**`EarlierRuntimeProofs`** (from `ClipAssumption`: the limits are natural numbers, the index holds at least one
frame; and `RuntimeAssumption`: there is a preset, `None` is no window, the bounds are natural numbers). Of `AviClip`:
a clip which `finish()` accepts is tiled by its chunks, each named by its index entry, whatever
writes failed before and however often the writer was used. The invariant `Inv` is `TypeOK`, `PastHeader` (an
open file's position is past the header), `IndexKeepsUp` (as long as the stream shows no error, the chunks
written are those the index has, and the last ends at the position) and the property itself. `TilesOn` and
`NamesOn` are the step of one more frame. Of `RetroRuntime`: `RuntimeInv` has, beside the types, `FrameHeld` (the
frame being decoded is marked, which locks `submit()` out), `JobHeld` (a job that the recorder has noted is
still in the slot, which locks `queueOutputJobs()` out, through a command, a new clip and the end of one) and `WindowsInv`
(while nobody draws no window is held for drawing). That a key which looks for another category always
ends at a preset (`CategoryStep`) takes the least element of a set and arithmetic of remainders. Of the composition:
its steps are steps of both (`EarlierImplementsItsParts`), and only `Finishes` ends a clip
(`ClipsEndFinished`), so that a clip with a name is one of which `finish()` said true.

**`WindowProofs`**, of `Display`: `CoverInv` says that the surface is visible only in a session that
has processed a frame, and that whatever is drawn from then on may cover the preview; the one thing that may not, a
buffer nothing could be drawn into, lasts until the UI thread reads the result of its post.
`BalanceInv` says that without a failed release or a foreign buffer at most the buffer in hand is received and
not released. `ChainInv` says that a tick is queued exactly while the flag is up, and only by a controller that runs.
`OneChainOfTicks`, which also has the types, needs `DisplayAssumption` (the bounds are natural numbers). Of `Raster` (from
`RasterAssumption`: sizes are positive): `SourceInside`, that a cropped copy
takes each pixel from inside its source, and `SampledInside`, that `processFrame` samples inside
the frame for every shift and cell, both from lemmas on truncating division; `RowsAreWholeAlways` and `RasterTypes`,
that the rows copied are whole and padding and later rows are untouched. `RowsInv` says what the whole
buffer holds after any number of rows. `CroppedPictureIsCentered` bounds the sum of three roundings, of the part that is
kept (`CutIsNear`), of its margin and of the sample (`SampleIsNear`), by two pixels of the source. Of
`PixelFilter` (from `FilterAssumption`, the ranges that the 70 presets, the quick controls and a byte keep to; colours,
places and intensities between TLC's samples are covered too): each pass takes any colour of
integers to another (`GradedPasses`, `RemappedPasses`, `TexturedPasses`), so what brings a channel back before it feeds
into the next frame is posterizing, to one of its tones (`DevelopedInTones`). A previous frame counts for at most 78
hundredths (`ShareBounds`), which makes a trail come nearer by more than a rounding (`MixedInside`,
`ChannelDecays`). `FilterInv` says that what is shown was filtered, from some history, with the look and subject
named beside it. `ShadeBounds` and `PhotoShadedAt` hold at every place of a photo. Their proof found the model's first
bound wrong: a scan line under a mask in the vignette's corner rounds three times, so a photo keeps half
of a channel less three, and not less two (a channel of 187, which no sampled colour gives).

Of `Screen`: `ScreenIsReadable` takes the texts by their lengths only (`WrittenAssumption`: no literal has more
than 30 characters, a style shown in the bars no more than 19, a category no more than 21; no name is a label of the
compare), so it holds for every index, count, value, name and line of numbers of that kind. `ScreenInv` is simply
that the screen is a composition of the metrics; the work is in the composition. A scene is a pile of pieces: the
invariant `Scene`, carried from piece to piece (`LineIsLaid`, `BoxIsLaid`), says that its pieces lie on the screen, its
texts lie in their part of it (`Within`), no two of them that are shown meet (`Apart`), and in the row being written they
end before the next place (`Reaches`). `SceneYields` and `NoticesAreApart` then say that whatever comes over a scene
clears its texts or covers them with its box, `ApartJoins` that this is enough, and `ScreenIsOpen` that nothing
but an alert crosses an answer and nothing the label of the left half. The proof needed the two exclusions of
`TextsAreApart` (`Tidy`) and no other. It also found that the type invariant's bound of the quick control's bar spoke of any
piece named like it; it now speaks of boxes.

**Only model-checked.**

* Everything that must *happen*, since it rests on fairness and `ENABLED`: `LookReachesScreen`, `MessagesExpire`,
  `StopReturns`, `FailureHidesOutput`, `PauseReturns`, `ShutterIsLetGo`, `GateOpens`, the other half of
  `PostingGoesOn`, and `PollDecides`.
* The lengths of the texts and of the presets' names (`WrittenAssumption`), which the provers do not know: TLC
  evaluates `Len` and `ToString` for every literal and every metrics of the run. The proof of `ScreenReads` starts there.

## What is not modelled, and why

* `choosePerformance`, which nothing in the loaded library calls, and `changeStyle()`, which the
  application never calls.
* Colours, shadows and the dots of glyphs in the compositor; `nextRandom` and the way jitter and tear
  amounts are drawn from it (any amount is allowed instead); `jsonEscape` and the wording of the sidecar.
* The arithmetic of JPEG decoding and encoding, which wraps vendored, stateless code; its failures are
  modelled.
* File names (taken to be distinct), file sizes, short writes that `fflush` does not report, an intact
  index that cannot be opened, and the limits of 256 and 512 inspected names other than that a clean-up
  may leave files behind.
* `updateSequenceMetrics`, timing counters, log lines; the handle checks and string copies of the JNI bridge.
* A failure to hide the surface or to decode is not `FailureHidesOutput`'s, which is the sequence's part of that sentence;
  `Display` has the other two.
* Autofocus and the movie controller, which keep no state that matters: recording is disabled in this
  version. The key dispatch and the status view.
* The earlier runtime's `loadSettings`, its metrics and what its `render()` draws; its `hasPrevious_` (lines 557, 630)
  and the timeouts that ask for another rendering (597), on which no property depends.

## Plan

1. **Composition**: `StorageGate`'s sessions inside those of `MCActivity`.
2. **Names and sizes** in `PhotoStore`: two photos of one second, a store disabled by lack of space.
