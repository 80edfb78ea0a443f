---------------------------- MODULE StorageGate ----------------------------
(***************************************************************************)
(* The way to the memory card: StorageProbeWorker's bounded retries of     *)
(* StorageController.probe, the verdict's way over the main thread and     *)
(* NativeDisplayProbeController to the native photo thread, which sleeps   *)
(* until then and probes the card once more in PhotoStore::initialize.     *)
(*                                                                         *)
(* Both probes write, rename and read back the same two names.  onPause    *)
(* waits at most 750 ms for a worker: one that hangs in a file operation   *)
(* lives on beside the workers of later sessions.  Logger is a monitor     *)
(* whose flush() writes to the card while it is held.                      *)
(*                                                                         *)
(* Of a probe file only its writer matters (the native probe checks size   *)
(* and first byte); a directory that cannot be made fails like a file that *)
(* cannot be written.                                                      *)
(***************************************************************************)
EXTENDS Integers

CONSTANTS
  MaxAttempts,  \* the length of RETRY_DELAYS_MS
  MaxSessions   \* bound: resumes

ASSUME GateAssumption == MaxAttempts \in Nat \ {0} /\ MaxSessions \in Nat

Sessions == 1..MaxSessions
Verdicts == {"Initializing", "Ready", "Failed", "NoSpace"}

VARIABLES
  temporary, completed,   \* storage_probe.tmp and .ok: their writer, or "none"
  \* main thread and activity
  main, resumed, session, \* session: the storageProbeWorker of this session
  posted,                 \* the sessions whose verdict waits in the main queue
  loggerHolder,           \* the session whose worker holds Logger's monitor, or 0
  \* StorageProbeWorker, one per session
  pc, stopping, attempts, result,
  \* NativeDisplayProbeController
  handle, storageStatus,
  \* DisplayProbeWorker's photo thread
  configured, photoThread, storageState,
  \* history
  verdictFrom,            \* the session whose verdict storageStatus is
  nativeFault,            \* the card itself failed the native probe
  orphaned                \* this session began with an earlier worker at the files

fileVars == <<temporary, completed>>
mainVars == <<main, resumed, session, posted, orphaned>>
workerVars == <<pc, stopping, attempts, result>>
controllerVars == <<handle, storageStatus, verdictFrom>>
nativeVars == <<configured, photoThread, storageState, nativeFault>>
vars == <<fileVars, mainVars, loggerHolder, workerVars, controllerVars, nativeVars>>

WorkerPcs == {"none", "sleep", "clean", "write", "rename", "read", "tidy", "undo", "judge",
              "log", "flush", "post", "done"}
\* Past "judge" a worker no longer touches the probe files.
Probing == {"clean", "write", "rename", "read", "tidy", "undo"}
NativeProbing == {"clean", "write", "rename", "read"}

Init ==
  /\ temporary = "none" /\ completed = "none"
  /\ main = "free" /\ resumed = FALSE /\ session = 0 /\ posted = {} /\ orphaned = FALSE
  /\ loggerHolder = 0
  /\ pc = [s \in Sessions |-> "none"] /\ stopping = [s \in Sessions |-> FALSE]
  /\ attempts = [s \in Sessions |-> 0] /\ result = [s \in Sessions |-> "Initializing"]
  /\ handle = FALSE /\ storageStatus = "Initializing" /\ verdictFrom = 0
  /\ configured = "Initializing" /\ photoThread = "none" /\ storageState = "Initializing"
  /\ nativeFault = FALSE

-----------------------------------------------------------------------------
(***************************************************************************)
(* StorageProbeWorker                                                      *)
(***************************************************************************)
WorkerGoes(s, to) == pc' = [pc EXCEPT ![s] = to]
Others == UNCHANGED <<mainVars, controllerVars, nativeVars>>

\* Sleep for the next delay; an interrupt, or stopping, ends the worker.
WakeUp(s) ==
  /\ pc[s] = "sleep"
  /\ IF stopping[s] THEN WorkerGoes(s, "done") /\ UNCHANGED attempts
                    ELSE WorkerGoes(s, "clean") /\ attempts' = [attempts EXCEPT ![s] = @ + 1]
  /\ UNCHANGED <<fileVars, loggerHolder, stopping, result>> /\ Others

\* The directories, and no remains of an earlier probe.
Clean(s) ==
  /\ pc[s] = "clean"
  /\ \/ temporary' = "none" /\ completed' = "none" /\ WorkerGoes(s, "write")
        /\ UNCHANGED result
     \/ UNCHANGED fileVars /\ WorkerGoes(s, "judge")
        /\ result' = [result EXCEPT ![s] = "Failed"]
  /\ UNCHANGED <<loggerHolder, stopping, attempts>> /\ Others

Write(s) ==
  /\ pc[s] = "write"
  /\ \/ temporary' = "java" /\ WorkerGoes(s, "rename")
     \/ temporary' \in {temporary, "java"} /\ WorkerGoes(s, "undo")
  /\ UNCHANGED <<completed, loggerHolder, stopping, attempts, result>> /\ Others

Rename(s) ==
  /\ pc[s] = "rename"
  /\ \/ /\ temporary # "none"
        /\ completed' = temporary /\ temporary' = "none" /\ WorkerGoes(s, "read")
     \/ UNCHANGED fileVars /\ WorkerGoes(s, "undo")
  /\ UNCHANGED <<loggerHolder, stopping, attempts, result>> /\ Others

ReadBack(s) ==
  /\ pc[s] = "read"
  /\ \/ completed # "none" /\ WorkerGoes(s, "tidy")
     \/ WorkerGoes(s, "undo")
  /\ UNCHANGED <<fileVars, loggerHolder, stopping, attempts, result>> /\ Others

\* Deletes both files, after success as after an IOException.
Tidy(s) ==
  /\ pc[s] \in {"tidy", "undo"}
  /\ temporary' = "none" /\ completed' = "none"
  /\ WorkerGoes(s, "judge")
  /\ \E verdict \in IF pc[s] = "undo" THEN {"Failed"} ELSE {"Ready", "NoSpace"} :
       result' = [result EXCEPT ![s] = verdict]
  /\ UNCHANGED <<loggerHolder, stopping, attempts>> /\ Others

Final(s) == result[s] \in {"Ready", "NoSpace"} \/ attempts[s] = MaxAttempts
Judge(s) ==
  /\ pc[s] = "judge" /\ loggerHolder = 0
  /\ WorkerGoes(s, IF stopping[s] THEN "done"
                   ELSE IF ~Final(s) THEN "sleep"
                   ELSE IF result[s] = "Ready" THEN "log" ELSE "post")
  /\ UNCHANGED <<fileVars, loggerHolder, stopping, attempts, result>> /\ Others

\* Logger.configure and Logger.flush: the monitor is held while the card is written.
EnterLogger(s) ==
  /\ pc[s] = "log" /\ loggerHolder = 0
  /\ loggerHolder' = s /\ WorkerGoes(s, "flush")
  /\ UNCHANGED <<fileVars, stopping, attempts, result>> /\ Others
Flush(s) ==
  /\ pc[s] = "flush"
  /\ loggerHolder' = 0 /\ WorkerGoes(s, "post")
  /\ UNCHANGED <<fileVars, stopping, attempts, result>> /\ Others

Post(s) ==
  /\ pc[s] = "post"
  /\ posted' = posted \union {s} /\ WorkerGoes(s, "done")
  /\ UNCHANGED <<fileVars, main, resumed, session, orphaned, loggerHolder, stopping, attempts,
                 result, controllerVars, nativeVars>>

-----------------------------------------------------------------------------
(***************************************************************************)
(* The main thread.  Each callback logs, so it needs Logger's monitor.     *)
(***************************************************************************)
MainRuns(at) == main = at /\ loggerHolder = 0

\* configureStorageRoot; there is no handle while the activity is paused.
StatusAtResume_kept == storageStatus   \* mutant: the last verdict still stands
StatusAtResume == "Initializing"
Resume ==
  /\ MainRuns("free") /\ ~resumed /\ session < MaxSessions
  /\ resumed' = TRUE /\ session' = session + 1
  /\ orphaned' = \E s \in Sessions : pc[s] \in Probing
  /\ storageStatus' = StatusAtResume
  /\ pc' = [pc EXCEPT ![session + 1] = "sleep"]
  /\ UNCHANGED <<fileVars, main, posted, loggerHolder, stopping, attempts, result, handle,
                 verdictFrom, nativeVars>>

\* The posted runnable and onStorageProbeComplete.
Wanted_whileResumed(s) == resumed   \* mutant: any worker's verdict will do
Wanted(s) == ~stopping[s] /\ resumed /\ s = session

CompleteStorageProbe_forwarded(s) ==   \* mutant: the verdict is not kept for a later start()
  /\ configured' = IF handle /\ configured = "Initializing" THEN result[s] ELSE configured
  /\ UNCHANGED <<storageStatus, verdictFrom>>
CompleteStorageProbe(s) ==
  /\ storageStatus' = result[s] /\ verdictFrom' = s
  /\ configured' = IF handle /\ configured = "Initializing" THEN result[s] ELSE configured

Deliver(s) ==
  /\ MainRuns("free") /\ s \in posted
  /\ posted' = posted \ {s}
  /\ IF Wanted(s) THEN CompleteStorageProbe(s)
                  ELSE UNCHANGED <<storageStatus, verdictFrom, configured>>
  /\ UNCHANGED <<fileVars, main, resumed, session, orphaned, loggerHolder, workerVars, handle,
                 photoThread, storageState, nativeFault>>

\* start(), when the camera is ready and whenever it failed before.
NativeStarts ==
  /\ MainRuns("free") /\ resumed /\ ~handle
  /\ handle' = TRUE /\ configured' = storageStatus
  /\ photoThread' = "asleep" /\ storageState' = "Initializing" /\ nativeFault' = FALSE
  /\ UNCHANGED <<fileVars, mainVars, loggerHolder, workerVars, storageStatus, verdictFrom>>

\* fail(): the native worker is stopped, its photo thread joined.
NativeJoined == photoThread \in {"none", "asleep", "done"}
NativeFails ==
  /\ MainRuns("free") /\ handle /\ NativeJoined
  /\ handle' = FALSE /\ photoThread' = "none"
  /\ UNCHANGED <<fileVars, mainVars, loggerHolder, workerVars, storageStatus, verdictFrom,
                 configured, storageState, nativeFault>>

PauseBegins ==
  /\ main = "free" /\ resumed
  /\ main' = "pause"
  /\ UNCHANGED <<fileVars, resumed, session, posted, orphaned, loggerHolder, workerVars,
                 controllerVars, nativeVars>>

\* resumed = false, the queue emptied, stopAndJoin's flags set.
StopWorker ==
  /\ MainRuns("pause")
  /\ resumed' = FALSE /\ posted' = {}
  /\ stopping' = [stopping EXCEPT ![session] = TRUE]
  /\ main' = "join"
  /\ UNCHANGED <<fileVars, session, orphaned, loggerHolder, pc, attempts, result,
                 controllerVars, nativeVars>>

\* The worker has ended, or 750 ms have passed.
JoinReturns ==
  /\ main = "join"
  /\ main' = "native"
  /\ UNCHANGED <<fileVars, resumed, session, posted, orphaned, loggerHolder, workerVars,
                 controllerVars, nativeVars>>

PauseEnds ==
  /\ MainRuns("native") /\ NativeJoined
  /\ handle' = FALSE /\ photoThread' = "none"
  /\ main' = "free"
  /\ UNCHANGED <<fileVars, resumed, session, posted, orphaned, loggerHolder, workerVars,
                 storageStatus, verdictFrom, configured, storageState, nativeFault>>

-----------------------------------------------------------------------------
(***************************************************************************)
(* photoRun and PhotoStore::initialize                                     *)
(***************************************************************************)
PhotoGoes(from, to) ==
  /\ photoThread = from /\ photoThread' = to
  /\ UNCHANGED <<mainVars, loggerHolder, workerVars, controllerVars, configured>>

\* The sleep ends when a verdict is there; only READY leads to the card.
LeaveGate ==
  /\ configured # "Initializing"
  /\ IF configured = "Ready" THEN PhotoGoes("asleep", "clean") /\ UNCHANGED storageState
                             ELSE PhotoGoes("asleep", "done") /\ storageState' = configured
  /\ UNCHANGED <<fileVars, nativeFault>>

NativeRefused == storageState' = "Failed" /\ UNCHANGED <<fileVars, nativeFault>>
CardFails(from) ==
  /\ PhotoGoes(from, "done")
  /\ storageState' = "Failed" /\ nativeFault' = TRUE
  /\ UNCHANGED fileVars

NativeClean ==
  \/ /\ PhotoGoes("clean", "write")
     /\ temporary' = "none" /\ completed' = "none" /\ UNCHANGED <<storageState, nativeFault>>
  \/ /\ PhotoGoes("clean", "done")
     /\ storageState' = "NoSpace" /\ UNCHANGED <<fileVars, nativeFault>>
  \/ CardFails("clean")
NativeWrite ==
  \/ /\ PhotoGoes("write", "rename")
     /\ temporary' = "native" /\ UNCHANGED <<completed, storageState, nativeFault>>
  \/ CardFails("write")

\* atomicReplace, and the size of what it left.
NativeRename ==
  \/ /\ temporary = "native" /\ PhotoGoes("rename", "read")
     /\ completed' = "native" /\ temporary' = "none" /\ UNCHANGED <<storageState, nativeFault>>
  \/ temporary # "native" /\ PhotoGoes("rename", "done") /\ NativeRefused
  \/ CardFails("rename")
NativeRead ==
  \/ /\ completed = "native" /\ PhotoGoes("read", "done")
     /\ completed' = "none" /\ storageState' = "Ready" /\ UNCHANGED <<temporary, nativeFault>>
  \/ completed # "native" /\ PhotoGoes("read", "done") /\ NativeRefused
  \/ CardFails("read")

-----------------------------------------------------------------------------
FileStep(s) == Clean(s) \/ Write(s) \/ Rename(s) \/ ReadBack(s) \/ Tidy(s)
ThreadStep(s) == WakeUp(s) \/ Judge(s) \/ EnterLogger(s) \/ Post(s)
PauseStep == StopWorker \/ JoinReturns \/ PauseEnds
NativeStep == LeaveGate \/ NativeClean \/ NativeWrite \/ NativeRename \/ NativeRead

Next ==
  \/ Resume \/ PauseBegins \/ PauseStep \/ NativeStarts \/ NativeFails
  \/ \E s \in Sessions : Deliver(s) \/ FileStep(s) \/ ThreadStep(s) \/ Flush(s)
  \/ NativeStep

Spec == Init /\ [][Next]_vars

\* Threads run, and the main thread serves its queue; the card may hang any
\* operation of a probe worker, Logger.flush included.
HangingSpec ==
  /\ Spec
  /\ WF_vars(PauseStep) /\ WF_vars(NativeStep)
  /\ \A s \in Sessions : WF_vars(Deliver(s)) /\ WF_vars(ThreadStep(s))

\* The card answers.
FairSpec == HangingSpec /\ \A s \in Sessions : WF_vars(FileStep(s)) /\ WF_vars(Flush(s))

-----------------------------------------------------------------------------
(***************************************************************************)
(* What the code keeps                                                     *)
(***************************************************************************)
FlagsOK ==
  /\ resumed \in BOOLEAN /\ orphaned \in BOOLEAN
  /\ handle \in BOOLEAN /\ nativeFault \in BOOLEAN

\* Types; a worker makes no more attempts than there are delays.
TypeOK ==
  /\ temporary \in {"none", "java", "native"} /\ completed \in {"none", "java", "native"}
  /\ main \in {"free", "pause", "join", "native"} /\ session \in 0..MaxSessions
  /\ posted \subseteq Sessions /\ loggerHolder \in 0..MaxSessions
  /\ pc \in [Sessions -> WorkerPcs] /\ stopping \in [Sessions -> BOOLEAN]
  /\ attempts \in [Sessions -> 0..MaxAttempts] /\ result \in [Sessions -> Verdicts]
  /\ storageStatus \in Verdicts /\ configured \in Verdicts /\ storageState \in Verdicts
  /\ photoThread \in {"none", "asleep", "done"} \union NativeProbing
  /\ verdictFrom \in 0..MaxSessions
  /\ FlagsOK

\* The verdict the controller keeps and the one the photo thread was given are
\* those of this session's worker, whichever workers of earlier sessions are
\* still alive, and whenever they post.  README: the probe is proved "before JNI
\* unlocks native photo initialization": the photo thread is on the card only
\* after this session's worker, and no operation of that worker is outstanding.
VerdictOfThisSession ==
  /\ TypeOK
  /\ resumed /\ storageStatus # "Initializing" =>
       verdictFrom = session /\ storageStatus = result[session]
  /\ handle /\ resumed => configured \in {"Initializing", storageStatus}
  /\ photoThread \in NativeProbing => result[session] = "Ready" /\ pc[session] = "done"

\* The native probe, which is not retried, fails only because of the card; or
\* because a worker of an earlier session, which outlived its bounded join, is
\* at the same two files.
NativeFailureIsReal ==
  photoThread = "done" /\ configured = "Ready" /\ storageState = "Failed" =>
    nativeFault \/ orphaned

\* If the card answers, a native worker that runs gets to know its storage,
\* whether it was created before or after the verdict.
GateOpens == handle ~> (photoThread = "done" \/ ~handle \/ ~resumed)

=============================================================================
