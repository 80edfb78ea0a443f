-------------------------- MODULE MCEarlierRuntime --------------------------
(***************************************************************************)
(* The earlier runtime with the writer its recorder drives: RetroRuntime   *)
(* knows a clip as open, failed and its number of frames; here every such  *)
(* step is also the call of avi_ that it stands for, on AviClip's file.    *)
(* The writer is explored alone too, with calls in every order.            *)
(*                                                                         *)
(* Two presets in two categories, two windows, so that one can replace     *)
(* another under a drawing, an index of two frames.                        *)
(***************************************************************************)
EXTENDS AviClip

CONSTANTS
  RetroClipEnabled, ProcessedDerivativeEnabled, PresetCount, Category, Windows, None, Inputs,
  Submitted,   \* bound: frames submitted
  MaxActs      \* bound: calls of the user interface thread

ASSUME RuntimeAssumption ==
  /\ RetroClipEnabled \in BOOLEAN /\ ProcessedDerivativeEnabled \in BOOLEAN
  /\ PresetCount \in Nat \ {0} /\ None \notin Windows
  /\ Submitted \in Nat /\ MaxActs \in Nat

MCCategory == [preset \in 0..1 |-> IF preset = 0 THEN "tape" ELSE "film"]

VARIABLES
  alone,
  selected, intensity, scene, favorites, dirty, stored, faulty, running, slot, pending, inUse,
  renderRequested, hasFrame, saveRequest, savePreset, output, pc, taken, window, refs, renderer,
  drawing, recRunning, recCommand, recPending, recJob, recPreset, recFrame, recording,
  interrupted, recordPreset, lastRecorded, rpc, work, clip, ended, ui, frames, acts

runtimeVars ==
  <<selected, intensity, scene, favorites, dirty, stored, faulty, running, slot, pending, inUse,
    renderRequested, hasFrame, saveRequest, savePreset, output, pc, taken, window, refs, renderer,
    drawing, recRunning, recCommand, recPending, recJob, recPreset, recFrame, recording,
    interrupted, recordPreset, lastRecorded, rpc, work, clip, ended, ui, frames, acts>>

Runtime == INSTANCE RetroRuntime WITH MaxFrames <- Submitted

-----------------------------------------------------------------------------
EarlierInit == alone \in BOOLEAN /\ Runtime!Init /\ Init

\* avi_.open() has a stream whose header was written, or startRecording has none.
Opens ==
  /\ rpc = "open" /\ Runtime!OpenClip
  /\ \/ recording' /\ Open /\ ~error'
     \/ ~recording' /\ OpenRefused
     \/ ~recording' /\ Open /\ error'

\* A frame that no clip is waiting for: refused, or written behind a stream whose
\* header is already lost.
Refuses(size) ==
  \/ ~Fits(size) /\ UNCHANGED vars
  \/ ~clip.open /\ AddFrame(size) /\ error'

\* avi_.addFrame() takes the frame, refuses it, or fails under it.
Adds ==
  /\ rpc = "job" /\ work.job = "video" /\ Runtime!WriteJob
  /\ \/ rpc' = "settings" /\ clip' = clip /\ UNCHANGED vars   \* not encoded
     \/ \E size \in Sizes :
          \/ rpc' = "settings" /\ clip' # clip /\ AddFrame(size) /\ ~error'
          \/ rpc' = "stop" /\ clip' = clip /\ Refuses(size)
          \/ rpc' = "stop" /\ clip'.failed /\ clip'.frames # clip.frames
               /\ AddFrame(size) /\ error'
          \/ rpc' = "stop" /\ clip'.failed /\ clip'.frames = clip.frames
               /\ \E written \in {0, size - 1} : AddTorn(size, written)

\* avi_.finish() decides the name of the file.
Finishes ==
  /\ recording /\ (Runtime!RecorderFinishes \/ Runtime!StopAfterJob \/ Runtime!RecorderEnds)
  /\ Finish
  /\ \E byFault \in BOOLEAN : ended'.name = Runtime!NameOf(answer'.ok, byFault)

\* Every other step leaves the writer alone.
CallsWriter == rpc = "open" \/ (rpc = "job" /\ work.job = "video")
               \/ (recording /\ (rpc \in {"stop", "closing"}
                                 \/ (rpc = "command" /\ work.command = "finish")))
Elsewhere ==
  \/ Runtime!UserActs
  \/ Runtime!Submit
  \/ Runtime!Process
  \/ ~CallsWriter /\ Runtime!Recorder
  \/ Runtime!Destroy
  \/ Runtime!Teardown
  \/ Runtime!Gone

EarlierNext ==
  \/ alone /\ Next /\ UNCHANGED <<alone, runtimeVars>>
  \/ ~alone /\ Opens /\ UNCHANGED alone
  \/ ~alone /\ Adds /\ UNCHANGED alone
  \/ ~alone /\ Finishes /\ UNCHANGED alone
  \/ ~alone /\ Elsewhere /\ UNCHANGED <<alone, vars>>

EarlierSpec == EarlierInit /\ [][EarlierNext]_<<alone, vars, runtimeVars>>

-----------------------------------------------------------------------------
\* A clip of which finish() says true is one a player can read, whatever was
\* refused, aborted or failed before; and a clip is given a name, its own or the
\* one of an interrupted clip, only when it is such a clip: finishRecording
\* trusts the answer of finish() alone.
NamedClipIsPlayable ==
  /\ []FinishedClipIsPlayable
  /\ [][recording /\ ~recording' /\ answer'.call = "finish" /\ ended'.name # "temporary"
         => Playable(disk')]_<<disk, answer, recording, ended>>

\* What a thread works on outside the mutexes stands still until it is done: the
\* frame being decoded, the picture being encoded, the window being drawn on.
WorkStandsStill ==
  /\ [](Runtime!TypeOK /\ Runtime!WindowsAreHeld)
  /\ Runtime!FrameIsStill
  /\ Runtime!JobIsStill
=============================================================================
