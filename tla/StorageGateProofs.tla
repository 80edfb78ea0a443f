------------------------- MODULE StorageGateProofs -------------------------
(***************************************************************************)
(* Proofs about the way to the memory card, for any number of attempts and *)
(* of sessions: the verdict that unlocks the native photo thread is that   *)
(* of this session's worker, and when the native probe fails, the card or  *)
(* a worker of an earlier session was the cause.                           *)
(***************************************************************************)
EXTENDS StorageGate, TLAPS

-----------------------------------------------------------------------------
(***************************************************************************)
(* The invariant.                                                          *)
(***************************************************************************)
\* Exactly the worker of the session that is on is not told to stop.
SessionInv ==
  /\ resumed => session # 0
  /\ main = "pause" => resumed
  /\ main \in {"join", "native"} => ~resumed
  /\ \A s \in Sessions : s < session \/ (s = session /\ ~resumed) => stopping[s]
  /\ resumed => ~stopping[session]
  /\ \A s \in Sessions : s > session => ~stopping[s] /\ pc[s] = "none"

\* What is posted is posted by a worker that has nothing left to do.
WorkerInv ==
  \A s \in Sessions :
    /\ pc[s] \in {"none", "sleep"} => attempts[s] < MaxAttempts
    /\ s \in posted => pc[s] = "done"

\* A verdict that was passed on is that of a worker that is done; the photo thread
\* leaves its sleep with that verdict, and for the card only when it is "Ready".
\* No handle outlives its session.
VerdictInv ==
  /\ (resumed /\ storageStatus # "Initializing") =>
       verdictFrom = session /\ storageStatus = result[session] /\ pc[session] = "done"
  /\ handle <=> photoThread # "none"
  /\ handle => session # 0 /\ (resumed \/ main \in {"join", "native"})
  /\ (handle /\ configured # "Initializing") =>
       /\ configured = result[session] /\ pc[session] = "done"
       /\ resumed => storageStatus = configured
  /\ photoThread \in {"done"} \union NativeProbing => configured # "Initializing"
  /\ photoThread \in NativeProbing => configured = "Ready"

\* Without a worker of an earlier session at the files, the native probe finds
\* what it left there.
FilesInv ==
  ~orphaned =>
    /\ \A s \in Sessions : s < session => pc[s] \notin Probing
    /\ photoThread = "rename" => temporary = "native"
    /\ photoThread = "read" => completed = "native"

GateInv == TypeOK /\ SessionInv /\ WorkerInv /\ VerdictInv /\ FilesInv /\ NativeFailureIsReal

-----------------------------------------------------------------------------
(***************************************************************************)
(* Flags keep their type; the rest of the proof can take them so.          *)
(***************************************************************************)
LEMMA FlagsStep ==
  ASSUME FlagsOK, [Next]_vars
  PROVE  FlagsOK'
<1> USE DEF FlagsOK, fileVars, mainVars, workerVars, controllerVars, nativeVars, Others
<1>1. CASE UNCHANGED vars
  BY <1>1, Zenon DEF vars
<1>2. CASE Resume
  <2>1. orphaned' \in BOOLEAN
    BY <1>2, Zenon DEF Resume
  <2> QED
    BY <1>2, <2>1, Zenon DEF Resume
<1>3. CASE PauseBegins \/ PauseStep \/ NativeStarts \/ NativeFails
  BY <1>3, Zenon DEF PauseBegins, PauseStep, StopWorker, JoinReturns, PauseEnds, NativeStarts,
                     NativeFails
<1>4. ASSUME NEW s \in Sessions, Deliver(s) \/ FileStep(s) \/ ThreadStep(s) \/ Flush(s)
      PROVE  FlagsOK'
  <2>1. CASE Deliver(s)
    BY <2>1, Zenon DEF Deliver, CompleteStorageProbe
  <2>2. CASE FileStep(s)
    BY <2>2, Zenon DEF FileStep, Clean, Write, Rename, ReadBack, Tidy
  <2>3. CASE ThreadStep(s) \/ Flush(s)
    BY <2>3, Zenon DEF ThreadStep, WakeUp, Judge, EnterLogger, Post, Flush
  <2> QED
    BY <1>4, <2>1, <2>2, <2>3
<1>5. CASE NativeStep
  BY <1>5, Zenon DEF NativeStep, LeaveGate, NativeClean, NativeWrite, NativeRename, NativeRead,
                     PhotoGoes, CardFails, NativeRefused
<1> QED
  BY <1>1, <1>2, <1>3, <1>4, <1>5 DEF Next

-----------------------------------------------------------------------------
(***************************************************************************)
(* One lemma per thread.                                                   *)
(***************************************************************************)
\* The probe workers.
LEMMA WorkerStep ==
  ASSUME GateInv, FlagsOK', NEW s \in Sessions, FileStep(s) \/ ThreadStep(s) \/ Flush(s)
  PROVE  GateInv'
<1> USE GateAssumption DEF GateInv, TypeOK, SessionInv, WorkerInv, VerdictInv, FilesInv,
        NativeFailureIsReal, Sessions, Verdicts, WorkerPcs, Probing, NativeProbing, WorkerGoes, Others,
        fileVars, mainVars, workerVars, controllerVars, nativeVars, GateAssumption
<1>1. CASE WakeUp(s)
  <2>1. TypeOK'
    <3>1. CASE stopping[s]
      BY <1>1, <3>1 DEF WakeUp
    <3>2. CASE ~stopping[s]
      <4>1. attempts[s] + 1 \in 0..MaxAttempts
        BY <1>1 DEF WakeUp
      <4>2. attempts' \in [Sessions -> 0..MaxAttempts]
        BY <1>1, <3>2, <4>1 DEF WakeUp
      <4>3. pc' \in [Sessions -> WorkerPcs]
        BY <1>1, <3>2 DEF WakeUp
      <4> QED
        BY <1>1, <4>2, <4>3 DEF WakeUp
    <3> QED
      BY <3>1, <3>2
  <2>2. SessionInv' /\ WorkerInv'
    BY <1>1 DEF WakeUp
  <2>3. VerdictInv'
    BY <1>1 DEF WakeUp
  <2>4. FilesInv' /\ NativeFailureIsReal'
    BY <1>1 DEF WakeUp
  <2> QED
    BY <2>1, <2>2, <2>3, <2>4 DEF GateInv
<1>2. CASE Clean(s)
  <2>1. TypeOK'
    BY <1>2, SMTT(30) DEF Clean
  <2>2. SessionInv' /\ WorkerInv'
    BY <1>2 DEF Clean
  <2>3. VerdictInv'
    BY <1>2 DEF Clean
  <2>4. FilesInv' /\ NativeFailureIsReal'
    BY <1>2 DEF Clean
  <2> QED
    BY <2>1, <2>2, <2>3, <2>4 DEF GateInv
<1>3. CASE Write(s)
  <2>1. TypeOK'
    <3>1. temporary' \in {"none", "java", "native"} /\ completed' = completed
      BY <1>3 DEF Write
    <3>2. pc' \in [Sessions -> WorkerPcs]
      BY <1>3 DEF Write
    <3> QED
      BY <1>3, <3>1, <3>2 DEF Write
  <2>2. SessionInv' /\ WorkerInv'
    BY <1>3 DEF Write
  <2>3. VerdictInv'
    BY <1>3 DEF Write
  <2>4. FilesInv' /\ NativeFailureIsReal'
    BY <1>3 DEF Write
  <2> QED
    BY <2>1, <2>2, <2>3, <2>4 DEF GateInv
<1>4. CASE Rename(s)
  BY <1>4, SMTT(30) DEF Rename
<1>5. CASE ReadBack(s)
  BY <1>5, SMTT(30) DEF ReadBack
<1>6. CASE Tidy(s)
  BY <1>6 DEF Tidy
<1>7. CASE Judge(s)
  BY <1>7 DEF Judge, Final
<1>8. CASE EnterLogger(s)
  BY <1>8 DEF EnterLogger
<1>9. CASE Flush(s)
  BY <1>9 DEF Flush
<1>10. CASE Post(s)
  BY <1>10 DEF Post
<1> QED
  BY <1>1, <1>2, <1>3, <1>4, <1>5, <1>6, <1>7, <1>8, <1>9, <1>10 DEF FileStep, ThreadStep

\* The main thread.
LEMMA MainStep ==
  ASSUME GateInv, FlagsOK',
         \/ Resume \/ PauseBegins \/ PauseStep \/ NativeStarts \/ NativeFails
         \/ \E s \in Sessions : Deliver(s)
  PROVE  GateInv'
<1> USE GateAssumption DEF GateInv, TypeOK, SessionInv, WorkerInv, VerdictInv, FilesInv,
        NativeFailureIsReal, Sessions, Verdicts, WorkerPcs, Probing, NativeProbing, MainRuns,
        NativeJoined, fileVars, mainVars, workerVars, controllerVars, nativeVars, GateAssumption
<1>1. CASE Resume
  <2>1. TypeOK'
    BY <1>1 DEF Resume, StatusAtResume
  <2>2. SessionInv'
    <3>1. resumed' /\ session' = session + 1 /\ session' \in Sessions /\ main' = "free"
      BY <1>1 DEF Resume
    <3>2. stopping' = stopping /\ \A s \in Sessions : s # session' => pc'[s] = pc[s]
      BY <1>1, <3>1 DEF Resume
    <3>3. \A s \in Sessions : s < session' => stopping'[s]
      BY <1>1, <3>1, <3>2 DEF Resume
    <3> QED
      BY <3>1, <3>2, <3>3
  <2>5. WorkerInv'
    <3>1. /\ session + 1 \in Sessions /\ pc[session + 1] = "none"
          /\ attempts' = attempts /\ posted' = posted
          /\ pc' = [pc EXCEPT ![session + 1] = "sleep"]
      BY <1>1 DEF Resume
    <3> QED
      BY <3>1
  <2>3. VerdictInv'
    BY <1>1 DEF Resume, StatusAtResume
  <2>4. FilesInv' /\ NativeFailureIsReal'
    BY <1>1 DEF Resume, StatusAtResume
  <2> QED
    BY <2>1, <2>2, <2>3, <2>4, <2>5 DEF GateInv
<1>2. CASE NativeStarts
  BY <1>2 DEF NativeStarts
<1>3. CASE NativeFails
  BY <1>3 DEF NativeFails
<1>4. CASE PauseBegins
  BY <1>4 DEF PauseBegins
<1>5. CASE StopWorker
  BY <1>5 DEF StopWorker
<1>6. CASE JoinReturns
  BY <1>6 DEF JoinReturns
<1>7. CASE PauseEnds
  BY <1>7 DEF PauseEnds
<1>8. ASSUME NEW s \in Sessions, Deliver(s) PROVE GateInv'
  BY <1>8 DEF Deliver, Wanted, CompleteStorageProbe
<1> QED
  BY <1>1, <1>2, <1>3, <1>4, <1>5, <1>6, <1>7, <1>8 DEF PauseStep

\* The native photo thread.
LEMMA NativeThreadStep ==
  ASSUME GateInv, FlagsOK', NativeStep
  PROVE  GateInv'
<1> USE GateAssumption DEF GateInv, TypeOK, SessionInv, WorkerInv, VerdictInv, FilesInv,
        NativeFailureIsReal, Sessions, Verdicts, WorkerPcs, Probing, NativeProbing, PhotoGoes,
        CardFails, NativeRefused, fileVars, mainVars, workerVars, controllerVars, nativeVars,
        GateAssumption
<1>1. CASE LeaveGate
  <2>1. TypeOK'
    <3>1. photoThread' \in {"none", "asleep", "done"} \union NativeProbing /\ storageState' \in Verdicts
      BY <1>1 DEF LeaveGate
    <3>2. UNCHANGED <<fileVars, mainVars, loggerHolder, workerVars, controllerVars, configured>>
      BY <1>1 DEF LeaveGate
    <3> QED
      BY <3>1, <3>2
  <2>2. SessionInv' /\ WorkerInv'
    BY <1>1 DEF LeaveGate
  <2>3. VerdictInv'
    BY <1>1 DEF LeaveGate
  <2>4. FilesInv' /\ NativeFailureIsReal'
    BY <1>1 DEF LeaveGate
  <2> QED
    BY <2>1, <2>2, <2>3, <2>4 DEF GateInv
<1>2. CASE NativeClean
  <2>1. TypeOK'
    BY <1>2, ZenonT(30) DEF NativeClean
  <2>2. SessionInv' /\ WorkerInv'
    BY <1>2 DEF NativeClean
  <2>3. VerdictInv'
    BY <1>2 DEF NativeClean
  <2>4. FilesInv' /\ NativeFailureIsReal'
    BY <1>2 DEF NativeClean
  <2> QED
    BY <2>1, <2>2, <2>3, <2>4 DEF GateInv
<1>3. CASE NativeWrite
  <2>1. TypeOK'
    BY <1>3, ZenonT(30) DEF NativeWrite
  <2>2. SessionInv' /\ WorkerInv'
    BY <1>3 DEF NativeWrite
  <2>3. VerdictInv'
    BY <1>3 DEF NativeWrite
  <2>4. FilesInv' /\ NativeFailureIsReal'
    BY <1>3 DEF NativeWrite
  <2> QED
    BY <2>1, <2>2, <2>3, <2>4 DEF GateInv
<1>4. CASE NativeRename
  <2>1. TypeOK'
    BY <1>4, ZenonT(30) DEF NativeRename
  <2>2. SessionInv' /\ WorkerInv'
    BY <1>4 DEF NativeRename
  <2>3. VerdictInv'
    BY <1>4 DEF NativeRename
  <2>4. FilesInv' /\ NativeFailureIsReal'
    BY <1>4 DEF NativeRename
  <2> QED
    BY <2>1, <2>2, <2>3, <2>4 DEF GateInv
<1>5. CASE NativeRead
  <2>1. TypeOK'
    BY <1>5 DEF NativeRead
  <2>2. SessionInv' /\ WorkerInv'
    BY <1>5 DEF NativeRead
  <2>3. VerdictInv'
    BY <1>5 DEF NativeRead
  <2>4. FilesInv' /\ NativeFailureIsReal'
    BY <1>5 DEF NativeRead
  <2> QED
    BY <2>1, <2>2, <2>3, <2>4 DEF GateInv
<1> QED
  BY <1>1, <1>2, <1>3, <1>4, <1>5 DEF NativeStep

-----------------------------------------------------------------------------
LEMMA GateInit == Init => GateInv
<1> SUFFICES ASSUME Init PROVE GateInv
  OBVIOUS
<1>1. FlagsOK
  BY Zenon DEF Init, FlagsOK
<1>2. TypeOK
  BY <1>1, GateAssumption
     DEF Init, TypeOK, Sessions, Verdicts, WorkerPcs, NativeProbing, GateAssumption
<1>3. SessionInv /\ WorkerInv /\ FilesInv
  BY GateAssumption
     DEF Init, SessionInv, WorkerInv, FilesInv, Sessions, Probing, GateAssumption
<1>4. VerdictInv /\ NativeFailureIsReal
  BY DEF Init, VerdictInv, NativeFailureIsReal, NativeProbing
<1> QED
  BY <1>2, <1>3, <1>4 DEF GateInv

LEMMA GateStep == GateInv /\ [Next]_vars => GateInv'
<1> SUFFICES ASSUME GateInv, [Next]_vars PROVE GateInv'
  OBVIOUS
<1>1. FlagsOK'
  BY FlagsStep DEF GateInv, TypeOK
<1>2. CASE UNCHANGED vars
  BY <1>2 DEF vars, fileVars, mainVars, workerVars, controllerVars, nativeVars, GateInv, TypeOK,
              FlagsOK, SessionInv, WorkerInv, VerdictInv, FilesInv, NativeFailureIsReal
<1> QED
  BY <1>1, <1>2, WorkerStep, MainStep, NativeThreadStep DEF Next

\* Whatever the threads of this session and of those before do, GateInv holds: who
\* is told to stop, what a posted verdict says of its worker, which verdict went
\* how far, and who may be at the probe files.
THEOREM GateInvariant == Spec => []GateInv
BY GateInit, GateStep, PTL DEF Spec

\* The photo thread is on the card only after the worker of this session proved it,
\* and by that worker's verdict.
THEOREM VerdictsAreOfTheirSession == Spec => []VerdictOfThisSession
<1>1. GateInv => VerdictOfThisSession
  BY DEF GateInv, VerdictInv, VerdictOfThisSession, NativeProbing
<1> QED
  BY <1>1, GateInvariant, PTL

\* The native probe, which nobody retries, fails only with a cause.
THEOREM NativeProbeIsRight == Spec => []NativeFailureIsReal
BY GateInvariant, PTL DEF GateInv

=============================================================================
