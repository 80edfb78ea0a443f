------------------------ MODULE EarlierRuntimeProofs ------------------------
(***************************************************************************)
(* Proofs about the earlier runtime: its writer (AviClip), the runtime     *)
(* that drives it (RetroRuntime, as Runtime), and the two together         *)
(* (MCEarlierRuntime), for every index length, limit and set of picture    *)
(* sizes, every catalogue and any number of windows, frames and calls.     *)
(*                                                                         *)
(* The writer first.  Its three invariants are inductive together:         *)
(* FinishedClipIsPlayable needs IndexKeepsUp in the step that finishes a   *)
(* clip, both need the types of the two sequences, and the type of an      *)
(* index entry needs PastHeader.                                           *)
(***************************************************************************)
EXTENDS MCEarlierRuntime, WellFoundedInduction, TLAPS

\* A stream is written from behind its header on, so no offset is negative.
PastHeader == file_ => pos >= MoviData

Inv == TypeOK /\ PastHeader /\ IndexKeepsUp /\ FinishedClipIsPlayable

\* What an answer is made of.
LEMMA Answers ==
  ASSUME NEW call \in Calls, NEW ok \in BOOLEAN
  PROVE  /\ Says(call, ok) \in [call : Calls, ok : BOOLEAN]
         /\ Says(call, ok).call = call /\ Says(call, ok).ok = ok
BY DEF Says

\* The header is a file without chunks.
LEMMA HeaderIsAFile == Header \in Files
<1>1. <<>> \in Seq(Chunks) /\ <<>> \in Seq(Entries)
  OBVIOUS
<1>2. MoviData + 4 \in Nat
  BY DEF MoviData
<1> QED BY <1>1, <1>2 DEF Header, Files

\* A file with one more chunk is a file.
LEMMA OneMoreChunk ==
  ASSUME NEW d \in Files, NEW at \in Nat, NEW size \in Sizes
  PROVE  [d EXCEPT !.chunks = Append(@, Chunk(at, size))] \in Files
<1>1. Append(d.chunks, Chunk(at, size)) \in Seq(Chunks)
  BY DEF Files, Chunk, Chunks
<1> QED BY <1>1 DEF Files

\* A chunk appended where the last one ends keeps the file tiled, up to the end
\* of the new chunk.
LEMMA TilesOn ==
  ASSUME NEW chunks \in Seq(Chunks), NEW end \in Nat,
         NEW size \in Sizes, Tiled(chunks, end)
  PROVE  Tiled(Append(chunks, Chunk(end, size)), end + 8 + Padded(size))
<1> DEFINE new == Append(chunks, Chunk(end, size))
<1>0. size \in Nat /\ Chunk(end, size) \in Chunks
  BY ClipAssumption DEF Chunk, Chunks
<1>1. /\ Len(new) = Len(chunks) + 1 /\ new # <<>>
      /\ new[Len(new)] = Chunk(end, size)
      /\ \A i \in 1 .. Len(chunks) : new[i] = chunks[i]
      /\ Len(chunks) \in Nat
      /\ chunks = <<>> <=> Len(chunks) = 0
  BY <1>0
<1>2. end + 8 + Padded(size) = After(new[Len(new)])
  <2>1. After(Chunk(end, size)) = end + 8 + size + (size % 2)
    BY DEF After, Chunk
  <2>2. size % 2 \in 0 .. 1
    BY <1>0
  <2> QED BY <1>0, <1>1, <2>1, <2>2 DEF Padded
<1>3. new[1].at = MoviData + 4
  <2>1. CASE chunks = <<>>
    BY <2>1, <1>1 DEF Tiled, Chunk
  <2>2. CASE chunks # <<>>
    BY <2>2, <1>1 DEF Tiled
  <2> QED BY <2>1, <2>2
<1>4. ASSUME NEW i \in 1 .. Len(new) - 1
      PROVE  new[i + 1].at = After(new[i])
  <2>1. CASE i = Len(chunks)
    <3>1. chunks # <<>> /\ new[i] = chunks[Len(chunks)]
      BY <2>1, <1>1
    <3> QED BY <3>1, <2>1, <1>1 DEF Tiled, Chunk
  <2>2. CASE i # Len(chunks)
    <3>1. i \in 1 .. Len(chunks) - 1 /\ i + 1 \in 1 .. Len(chunks)
      BY <2>2, <1>1
    <3>2. new[i] = chunks[i] /\ new[i + 1] = chunks[i + 1]
      BY <3>1, <1>1
    <3> QED BY <3>1, <3>2 DEF Tiled
  <2> QED BY <2>1, <2>2
<1> QED BY <1>1, <1>2, <1>3, <1>4 DEF Tiled

\* An entry appended with the chunk it names keeps the index complete.
LEMMA NamesOn ==
  ASSUME NEW chunks \in Seq(Chunks), NEW entries \in Seq(Entries),
         NEW at \in Nat, NEW size \in Sizes, Names(entries, chunks)
  PROVE  Names(Append(entries, Entry(OffsetOf(at), size)),
               Append(chunks, Chunk(at, size)))
<1> USE ClipAssumption DEF Chunks, Entries
<1> DEFINE new == Append(chunks, Chunk(at, size))
           more == Append(entries, Entry(OffsetOf(at), size))
<1>1. Len(entries) = Len(chunks) /\ Len(chunks) \in Nat
  BY DEF Names
<1>2. /\ Len(new) = Len(chunks) + 1 /\ Len(more) = Len(chunks) + 1
      /\ new[Len(chunks) + 1] = Chunk(at, size)
      /\ more[Len(chunks) + 1] = Entry(OffsetOf(at), size)
      /\ \A i \in 1 .. Len(chunks) : new[i] = chunks[i] /\ more[i] = entries[i]
  BY <1>1
<1>3. ASSUME NEW i \in 1 .. Len(new)
      PROVE  more[i] = Entry(new[i].at - MoviData, new[i].size)
  <2>1. CASE i = Len(chunks) + 1
    BY <2>1, <1>2 DEF Entry, Chunk, OffsetOf
  <2>2. CASE i # Len(chunks) + 1
    BY <2>2, <1>1, <1>2 DEF Names
  <2> QED BY <2>1, <2>2
<1> QED BY <1>2, <1>3 DEF Names

LEMMA InitInv == Init => Inv
<1> SUFFICES ASSUME Init PROVE Inv
  OBVIOUS
<1>1. TypeOK
  <2>1. Says("none", FALSE) \in [call : Calls, ok : BOOLEAN]
    BY Answers DEF Calls
  <2>2. index \in Seq(Entries) /\ Len(index) <= MaxFrames
    BY ClipAssumption DEF Init
  <2>3. pos \in Nat /\ clips \in 0 .. MaxClips
    BY ClipAssumption DEF Init
  <2>4. file_ \in BOOLEAN /\ error \in BOOLEAN /\ disk \in Files
    BY HeaderIsAFile DEF Init
  <2>5. answer \in [call : Calls, ok : BOOLEAN]
    BY <2>1 DEF Init
  <2> QED BY <2>2, <2>3, <2>4, <2>5 DEF TypeOK
<1>2. PastHeader /\ IndexKeepsUp /\ FinishedClipIsPlayable
  BY DEF Init, PastHeader, IndexKeepsUp, FinishedClipIsPlayable, Says
<1> QED BY <1>1, <1>2 DEF Inv

\* Every step keeps the three invariants.
LEMMA StepInv == Inv /\ [Next]_vars => Inv'
<1> SUFFICES ASSUME Inv, [Next]_vars PROVE Inv'
  OBVIOUS
<1> USE ClipAssumption DEF Inv
<1>1. CASE OpenRefused
  <2>1. TypeOK'
    <3>1. Says("open", FALSE) \in [call : Calls, ok : BOOLEAN]
      BY Answers DEF Calls
    <3>2. clips' \in 0 .. MaxClips
      BY <1>1 DEF OpenRefused, TypeOK
    <3>3. file_' \in BOOLEAN /\ answer' \in [call : Calls, ok : BOOLEAN]
      BY <1>1, <3>1 DEF OpenRefused
    <3> QED BY <1>1, <3>2, <3>3 DEF OpenRefused, TypeOK
  <2>2. PastHeader' /\ IndexKeepsUp' /\ FinishedClipIsPlayable'
    BY <1>1 DEF OpenRefused, PastHeader, IndexKeepsUp, FinishedClipIsPlayable, Says
  <2> QED BY <2>1, <2>2
<1>2. CASE Open
  <2>1. TypeOK'
    <3>1. disk' \in Files
      BY <1>2, HeaderIsAFile DEF Open
    <3>2. pos' \in Nat /\ index' \in Seq(Entries) /\ Len(index') = 0
      BY <1>2 DEF Open, MoviData
    <3>3. clips' \in 0 .. MaxClips
      BY <1>2 DEF Open, TypeOK
    <3>4. file_' \in BOOLEAN /\ error' \in BOOLEAN
      BY <1>2 DEF Open
    <3>5. answer' \in [call : Calls, ok : BOOLEAN]
      BY <1>2, <3>4, Answers DEF Open, Calls
    <3> QED BY <3>1, <3>2, <3>3, <3>4, <3>5 DEF TypeOK
  <2>2. PastHeader' /\ IndexKeepsUp'
    BY <1>2 DEF Open, Header, PastHeader, IndexKeepsUp, Tiled, Names, MoviData
  <2>3. FinishedClipIsPlayable'
    BY <1>2 DEF Open, FinishedClipIsPlayable, Says
  <2> QED BY <2>1, <2>2, <2>3
<1>3. CASE Finish
  <2>1. /\ file_' = FALSE /\ error' \in BOOLEAN
        /\ index' = index /\ clips' = clips
    BY <1>3 DEF Finish, TypeOK
  <2> DEFINE end == pos + 8 + 16 * Len(index)
  <2>2. /\ pos' = end
        /\ disk' = [disk EXCEPT !.movi = pos - MoviData, !.idx1 = index,
                                !.avih = Len(index), !.strh = Len(index),
                                !.riff = end - 8, !.length = end]
    BY <1>3 DEF Finish
  <2>3. TypeOK'
    <3>1. end \in Nat /\ Len(index) \in Nat
      BY DEF TypeOK
    <3>2. disk' \in Files
      <4>1. pos - MoviData \in Int /\ end - 8 \in Int
        BY <3>1 DEF TypeOK, MoviData
      <4> QED BY <2>2, <3>1, <4>1 DEF TypeOK, Files
    <3>3. answer' \in [call : Calls, ok : BOOLEAN]
      <4>1. \A flushed \in BOOLEAN : Whole(flushed, error') \in BOOLEAN
        BY DEF Whole
      <4> QED BY <1>3, <4>1, Answers DEF Finish, Calls
    <3> QED BY <2>1, <2>2, <3>1, <3>2, <3>3 DEF TypeOK
  <2>4. PastHeader' /\ IndexKeepsUp'
    BY <2>1 DEF PastHeader, IndexKeepsUp
  <2>5. FinishedClipIsPlayable'
    <3> SUFFICES ASSUME answer' = Says("finish", TRUE) PROVE Playable(disk')
      BY DEF FinishedClipIsPlayable
    <3>1. file_ /\ ~error
      <4>1. PICK flushed \in BOOLEAN :
                answer' = Says("finish", Whole(flushed, error'))
        BY <1>3 DEF Finish
      <4>2. Whole(flushed, error') \in BOOLEAN /\ "finish" \in Calls
        BY DEF Whole, Calls
      <4>3. Whole(flushed, error') = TRUE
        BY <4>1, <4>2, Answers
      <4>4. error' = FALSE /\ error' \in {error, TRUE} /\ file_
        BY <4>3, <2>1, <1>3 DEF Whole, Finish
      <4> QED BY <4>4
    <3>2. Tiled(disk.chunks, pos) /\ Names(index, disk.chunks)
      BY <3>1 DEF IndexKeepsUp
    <3>3. /\ disk'.chunks = disk.chunks /\ disk'.idx1 = index
          /\ disk'.movi = pos - MoviData /\ disk'.riff = end - 8
          /\ disk'.avih = Len(index) /\ disk'.strh = Len(index)
          /\ disk'.length = end
      BY <2>2 DEF TypeOK, Files
    <3>4. /\ pos \in Nat /\ Len(index) = Len(disk.chunks)
          /\ MoviData + (pos - MoviData) = pos
      BY <3>2 DEF TypeOK, Names, MoviData
    <3> QED BY <3>2, <3>3, <3>4 DEF Playable
  <2> QED BY <2>3, <2>4, <2>5
<1>4. CASE FinishClosed
  <2>1. TypeOK'
    <3>1. Says("finish", FALSE) \in [call : Calls, ok : BOOLEAN]
      BY Answers DEF Calls
    <3>2. file_' \in BOOLEAN /\ answer' \in [call : Calls, ok : BOOLEAN]
      BY <1>4, <3>1 DEF FinishClosed, TypeOK
    <3> QED BY <1>4, <3>2 DEF FinishClosed, TypeOK
  <2>2. PastHeader' /\ IndexKeepsUp' /\ FinishedClipIsPlayable'
    BY <1>4 DEF FinishClosed, PastHeader, IndexKeepsUp, FinishedClipIsPlayable, Says
  <2> QED BY <2>1, <2>2
<1>5. CASE Abort
  <2>1. TypeOK'
    <3>1. Says("abort", FALSE) \in [call : Calls, ok : BOOLEAN]
      BY Answers DEF Calls
    <3>2. file_' \in BOOLEAN /\ answer' \in [call : Calls, ok : BOOLEAN]
      BY <1>5, <3>1 DEF Abort, TypeOK
    <3> QED BY <1>5, <3>2 DEF Abort, TypeOK
  <2>2. PastHeader' /\ IndexKeepsUp' /\ FinishedClipIsPlayable'
    BY <1>5 DEF Abort, PastHeader, IndexKeepsUp, FinishedClipIsPlayable, Says
  <2> QED BY <2>1, <2>2
<1>6. ASSUME NEW size \in Sizes, AddRefused(size) PROVE Inv'
  <2>1. TypeOK'
    <3>1. Says("addFrame", FALSE) \in [call : Calls, ok : BOOLEAN]
      BY Answers DEF Calls
    <3>2. file_' \in BOOLEAN /\ answer' \in [call : Calls, ok : BOOLEAN]
      BY <1>6, <3>1 DEF AddRefused, TypeOK
    <3> QED BY <1>6, <3>2 DEF AddRefused, TypeOK
  <2>2. PastHeader' /\ IndexKeepsUp' /\ FinishedClipIsPlayable'
    BY <1>6 DEF AddRefused, PastHeader, IndexKeepsUp, FinishedClipIsPlayable, Says
  <2> QED BY <2>1, <2>2
<1>7. ASSUME NEW size \in Sizes, AddFrame(size) PROVE Inv'
  <2>1. /\ index' = Append(index, Entry(OffsetOf(pos), size))
        /\ disk' = [disk EXCEPT !.chunks = Append(@, Chunk(pos, size))]
        /\ pos' = pos + 8 + Padded(size) /\ Len(index) < MaxFrames
        /\ file_' = file_ /\ file_ /\ clips' = clips
        /\ error' \in {error, TRUE} /\ answer' = Says("addFrame", ~error')
    BY <1>7 DEF AddFrame, Fits
  <2>2. disk'.chunks = Append(disk.chunks, Chunk(pos, size))
    BY <2>1 DEF TypeOK, Files
  <2>3. TypeOK'
    <3>1. pos \in Nat /\ OffsetOf(pos) \in Nat
      <4>1. pos \in Nat /\ pos >= MoviData /\ MoviData \in Nat
        BY <2>1 DEF TypeOK, PastHeader, MoviData
      <4> QED BY <4>1 DEF OffsetOf
    <3>2. size \in Nat /\ pos' \in Nat
      BY <3>1, <2>1 DEF Padded
    <3>3. /\ Entry(OffsetOf(pos), size) \in Entries
          /\ Chunk(pos, size) \in Chunks
      BY <3>1 DEF Entry, Entries, Chunk, Chunks
    <3>4. index' \in Seq(Entries) /\ Len(index') <= MaxFrames
      BY <2>1, <3>3 DEF TypeOK
    <3>5. disk' \in Files
      BY <2>1, <3>1, OneMoreChunk DEF TypeOK
    <3>6. error' \in BOOLEAN /\ answer' = Says("addFrame", ~error')
      BY <2>1 DEF TypeOK
    <3>7. answer' \in [call : Calls, ok : BOOLEAN]
      BY <3>6, Answers DEF Calls
    <3> QED BY <2>1, <3>2, <3>4, <3>5, <3>6, <3>7 DEF TypeOK
  <2>4. IndexKeepsUp'
    <3>1. CASE error
      BY <3>1, <2>1 DEF IndexKeepsUp
    <3>2. CASE ~error
      <4>1. Tiled(disk.chunks, pos) /\ Names(index, disk.chunks)
        BY <3>2, <2>1 DEF IndexKeepsUp
      <4>2. pos \in Nat /\ disk.chunks \in Seq(Chunks) /\ index \in Seq(Entries)
        BY DEF TypeOK, Files
      <4>3. Tiled(disk'.chunks, pos') /\ Names(index', disk'.chunks)
        BY <4>1, <4>2, <2>1, <2>2, TilesOn, NamesOn
      <4> QED BY <4>3 DEF IndexKeepsUp
    <3> QED BY <3>1, <3>2
  <2>5. PastHeader'
    <3>1. /\ pos \in Nat /\ size \in Nat /\ MoviData \in Nat
          /\ pos >= MoviData /\ size % 2 \in 0 .. 1
      BY <2>1 DEF PastHeader, TypeOK, MoviData
    <3>2. pos' >= MoviData
      BY <2>1, <3>1 DEF Padded
    <3> QED BY <3>2 DEF PastHeader
  <2>6. FinishedClipIsPlayable'
    BY <2>1 DEF FinishedClipIsPlayable, Says
  <2> QED BY <2>3, <2>4, <2>5, <2>6
<1>8. ASSUME NEW size \in Sizes, NEW written \in {0, size - 1},
             AddTorn(size, written)
      PROVE  Inv'
  <2>1. /\ disk' = [disk EXCEPT !.chunks = Append(@, Chunk(pos, size))]
        /\ pos' = pos + 8 + written /\ written \in Nat
        /\ UNCHANGED <<file_, index, clips>>
        /\ error' = TRUE /\ answer' = Says("addFrame", FALSE)
    BY <1>8 DEF AddTorn, Fits
  <2>2. TypeOK'
    <3>1. Says("addFrame", FALSE) \in [call : Calls, ok : BOOLEAN]
      BY Answers DEF Calls
    <3>2. disk' \in Files /\ pos' \in Nat
      BY <2>1, OneMoreChunk DEF TypeOK
    <3> QED BY <2>1, <3>1, <3>2 DEF TypeOK
  <2>3. PastHeader'
    <3>1. pos \in Nat /\ MoviData \in Nat /\ (file_ => pos >= MoviData)
      BY DEF PastHeader, TypeOK, MoviData
    <3> QED BY <2>1, <3>1 DEF PastHeader
  <2>4. IndexKeepsUp' /\ IndexKeepsUp' /\ FinishedClipIsPlayable'
    BY <2>1 DEF IndexKeepsUp, FinishedClipIsPlayable, Says
  <2> QED BY <2>2, <2>3, <2>4
<1>9. CASE UNCHANGED vars
  <2>1. TypeOK'
    BY <1>9 DEF vars, TypeOK
  <2>2. PastHeader' /\ IndexKeepsUp' /\ FinishedClipIsPlayable'
    BY <1>9 DEF vars, PastHeader, IndexKeepsUp, FinishedClipIsPlayable
  <2> QED BY <2>1, <2>2
<1> QED
  BY <1>1, <1>2, <1>3, <1>4, <1>5, <1>6, <1>7, <1>8, <1>9 DEF Next

\* The writer's index fits its arrays for every limit.
THEOREM ClipTypes == Spec => []TypeOK
<1>1. Init => Inv
  BY InitInv
<1>2. Inv /\ [Next]_vars => Inv'
  BY StepInv
<1>3. Inv => TypeOK
  BY DEF Inv
<1> QED BY <1>1, <1>2, <1>3, PTL DEF Spec

\* For every limit and every set of picture sizes: a clip that finish() called
\* good can be walked, indexed and counted the same way.
THEOREM GoodClipsArePlayable == Spec => [](IndexKeepsUp /\ FinishedClipIsPlayable)
<1>1. Init => Inv
  BY InitInv
<1>2. Inv /\ [Next]_vars => Inv'
  BY StepInv
<1>3. Inv => IndexKeepsUp /\ FinishedClipIsPlayable
  BY DEF Inv
<1> QED BY <1>1, <1>2, <1>3, PTL DEF Spec

-----------------------------------------------------------------------------
(***************************************************************************)
(* The runtime that drives the writer.  Each part of its invariant says    *)
(* what the variables of one thread may be; a lemma shows that every step  *)
(* keeps it, first the steps that change those variables, then the rest.   *)
(***************************************************************************)
\* Every step keeps the flags.
LEMMA FlagsStep ==
  ASSUME Runtime!FlagsOK, Runtime!Next
  PROVE  Runtime!FlagsOK'
<1> USE DEF Runtime!FlagsOK
<1> DEFINE passFlags == <<running, pending, inUse, hasFrame, renderRequested, saveRequest>>
           recFlags == <<dirty, faulty, recRunning, recPending, recording, interrupted>>
<1>1. CASE UNCHANGED <<passFlags, recFlags>>
  BY <1>1, ZenonT(30)
<1>2. CASE UNCHANGED passFlags /\ UNCHANGED <<recRunning, interrupted>>
           /\ dirty' \in {dirty, FALSE} /\ faulty' \in {faulty, TRUE}
           /\ recPending' \in {recPending, FALSE} /\ recording' \in {recording, TRUE, FALSE}
  <2>1. /\ dirty' \in BOOLEAN /\ faulty' \in BOOLEAN
        /\ recPending' \in BOOLEAN /\ recording' \in BOOLEAN
    BY <1>2, Zenon
  <2> QED
    BY <1>2, <2>1, Zenon
<1>3. CASE Runtime!UserActs
  <2>1. ASSUME UNCHANGED <<running, pending, inUse, hasFrame, faulty, recRunning, recPending,
                           recording>>,
               dirty' \in {dirty, TRUE}, renderRequested' \in {renderRequested, TRUE},
               saveRequest' \in {saveRequest, TRUE}, interrupted' \in BOOLEAN
        PROVE  Runtime!FlagsOK'
    BY <2>1, ZenonT(30)
  <2>2. CASE Runtime!Keys \/ Runtime!TouchTwice \/ Runtime!AsksToDraw
    BY <2>1, <2>2 DEF Runtime!Keys, Runtime!KeyLeftRight, Runtime!KeyUpDown, Runtime!KeyScene,
                      Runtime!TouchStyle, Runtime!TouchDrag, Runtime!TouchTwice,
                      Runtime!AsksToDraw, Runtime!Noted, Runtime!InputKeeps, Runtime!settings,
                      Runtime!frameVars, Runtime!jobVars, Runtime!clipVars, Runtime!winVars,
                      Runtime!recVars
  <2>3. CASE \/ Runtime!SaveSnapshot \/ Runtime!ClearSurface
             \/ \E w \in Windows : Runtime!SetSurface(w)
    BY <2>1, <2>3 DEF Runtime!SaveSnapshot, Runtime!ClearSurface, Runtime!SetSurface,
                      Runtime!settings, Runtime!frameVars, Runtime!jobVars, Runtime!clipVars,
                      Runtime!winVars, Runtime!recVars
  <2>4. CASE Runtime!ToggleRecording \/ \E byFault \in BOOLEAN : Runtime!StopRecording(byFault)
    BY <2>1, <2>4 DEF Runtime!ToggleRecording, Runtime!StopRecording, Runtime!settings,
                      Runtime!frameVars, Runtime!jobVars, Runtime!clipVars, Runtime!winVars,
                      Runtime!recVars
  <2> QED
    BY <1>3, <2>2, <2>3, <2>4, Zenon DEF Runtime!UserActs, Runtime!Keys, Runtime!Recording,
                                         Runtime!Surface
<1>4. CASE Runtime!Submit
  BY <1>4, Zenon DEF Runtime!Submit, Runtime!settings, Runtime!frameVars, Runtime!jobVars,
                     Runtime!clipVars, Runtime!winVars, Runtime!recVars
<1>5. CASE Runtime!Process
  <2>1. CASE Runtime!TakePass
    BY <2>1, Zenon DEF Runtime!TakePass, Runtime!settings, Runtime!frameVars, Runtime!jobVars,
                       Runtime!clipVars, Runtime!winVars, Runtime!recVars
  <2>2. CASE Runtime!FilterFrame
    BY <2>2, ZenonT(30) DEF Runtime!FilterFrame, Runtime!settings, Runtime!frameVars, Runtime!jobVars,
                       Runtime!clipVars, Runtime!winVars, Runtime!recVars
  <2>3. CASE Runtime!TakeRequest
    <3>1. (saveRequest /\ ~hasFrame) \in BOOLEAN
      BY Zenon
    <3> QED
      BY <2>3, <3>1, ZenonT(30) DEF Runtime!TakeRequest, Runtime!settings, Runtime!frameVars,
                               Runtime!jobVars, Runtime!clipVars, Runtime!winVars,
                               Runtime!recVars
  <2>4. CASE Runtime!QueueJob
    <3>1. UNCHANGED <<passFlags, dirty, faulty, recRunning, recording, interrupted>>
      BY <2>4 DEF Runtime!QueueJob, Runtime!settings, Runtime!frameVars, Runtime!jobVars,
                  Runtime!clipVars, Runtime!winVars, Runtime!recVars
    <3>2. recPending' \in {recPending, TRUE}
      BY <2>4 DEF Runtime!QueueJob, Runtime!jobVars
    <3> QED
      BY <3>1, <3>2, ZenonT(30)
  <2>5. CASE \/ Runtime!SkipRender \/ Runtime!ProcessEnds
             \/ Runtime!BeginRender("process") \/ Runtime!EndRender("process")
    BY <1>1, <2>5 DEF Runtime!SkipRender, Runtime!ProcessEnds, Runtime!BeginRender,
                      Runtime!EndRender, Runtime!settings, Runtime!frameVars, Runtime!jobVars,
                      Runtime!clipVars, Runtime!winVars, Runtime!recVars
  <2> QED
    BY <1>5, <2>1, <2>2, <2>3, <2>4, <2>5, Zenon DEF Runtime!Process
<1>6. CASE Runtime!Recorder
  <2>1. UNCHANGED passFlags /\ UNCHANGED <<recRunning, interrupted>>
    BY <1>6, Zenon DEF Runtime!Recorder, Runtime!RecorderChecks, Runtime!StartClip,
                       Runtime!OpenClip, Runtime!RecorderFinishes, Runtime!NoCommand,
                       Runtime!WriteJob, Runtime!NoJob, Runtime!StopAfterJob,
                       Runtime!RecorderReads, Runtime!RecorderSaves, Runtime!RecorderEnds,
                       Runtime!RecKeeps, Runtime!frameVars
  <2>2. CASE UNCHANGED <<dirty, faulty, recPending, recording>>
    BY <1>1, <2>1, <2>2
  <2>3. CASE Runtime!RecorderChecks \/ Runtime!StartClip \/ Runtime!NoCommand \/ Runtime!NoJob
             \/ Runtime!RecorderReads
    BY <2>2, <2>3 DEF Runtime!RecorderChecks, Runtime!StartClip, Runtime!NoCommand,
                      Runtime!NoJob, Runtime!RecorderReads, Runtime!jobVars, Runtime!clipVars
  <2>4. CASE Runtime!OpenClip \/ Runtime!WriteJob
    BY <1>2, <2>1, <2>4 DEF Runtime!OpenClip, Runtime!WriteJob
  <2>5. CASE Runtime!RecorderFinishes \/ Runtime!StopAfterJob \/ Runtime!RecorderEnds
    BY <1>2, <2>1, <2>5
       DEF Runtime!RecorderFinishes, Runtime!StopAfterJob, Runtime!RecorderEnds,
           Runtime!FinishClip, Runtime!jobVars, Runtime!clipVars
  <2>6. CASE Runtime!RecorderSaves
    BY <1>2, <2>1, <2>6 DEF Runtime!RecorderSaves, Runtime!Saved, Runtime!jobVars,
                            Runtime!clipVars
  <2> QED
    BY <1>6, <2>3, <2>4, <2>5, <2>6, Zenon DEF Runtime!Recorder
<1>7. CASE Runtime!Destroy \/ Runtime!JoinProcess
  <2>1. /\ UNCHANGED <<pending, inUse, hasFrame, renderRequested, saveRequest>>
        /\ UNCHANGED <<dirty, faulty, recPending, recording, interrupted>>
        /\ running' \in {running, FALSE} /\ recRunning' \in {recRunning, FALSE}
    BY <1>7 DEF Runtime!Destroy, Runtime!JoinProcess, Runtime!DestroyKeeps, Runtime!frameVars,
                Runtime!jobVars, Runtime!clipVars
  <2> QED
    BY <2>1, ZenonT(30)
<1>8. CASE \/ Runtime!JoinRecorder \/ Runtime!Gone
           \/ Runtime!BeginRender("ui") \/ Runtime!EndRender("ui")
  BY <1>1, <1>8 DEF Runtime!JoinRecorder, Runtime!BeginRender, Runtime!EndRender,
                    Runtime!DestroyKeeps, Runtime!Gone, Runtime!vars, Runtime!settings,
                    Runtime!frameVars, Runtime!jobVars, Runtime!clipVars, Runtime!winVars,
                    Runtime!recVars
<1>9. CASE Runtime!SaveAtEnd
  BY <1>2, <1>9 DEF Runtime!SaveAtEnd, Runtime!Saved, Runtime!DestroyKeeps, Runtime!frameVars,
                    Runtime!jobVars, Runtime!clipVars
<1> QED
  BY <1>3, <1>4, <1>5, <1>6, <1>7, <1>8, <1>9, Zenon DEF Runtime!Next, Runtime!Teardown

\* What the user set, what is on the card, and the styles noted for later.
SettingsInv ==
  /\ selected \in Runtime!Styles /\ intensity \in 0..100 /\ favorites \in SUBSET Runtime!Styles
  /\ scene \in {"camera", "drawer", "browser", "gallery"} /\ stored \in Runtime!Settings
  /\ savePreset \in Runtime!Styles /\ recPreset \in Runtime!Styles
  /\ recordPreset \in Runtime!Styles

\* What the recorder was told, what it took and what it left.
WorkInv ==
  /\ {"command", "job", "live"} \subseteq DOMAIN work
  /\ work.command \in Runtime!Commands /\ work.job \in Runtime!Jobs
  /\ work.live \in Runtime!Settings
  /\ recCommand \in Runtime!Commands /\ recJob \in Runtime!Jobs
  /\ rpc \in {"check", "asleep", "command", "open", "job", "stop", "settings", "save",
              "closing", "ended"}
  /\ ended.name \in {"none", "temporary", "incomplete", "final"}

\* The frames: those submitted, and their way to the recorder.
FramesInv ==
  /\ frames \in 0..Submitted /\ slot \in 0..Submitted /\ lastRecorded \in 0..Submitted
  /\ output \in Runtime!Frames /\ recFrame \in Runtime!Frames
  /\ {"stamp", "style", "render", "snapshot"} \subseteq DOMAIN taken
  /\ taken.stamp \in 0..Submitted /\ taken.style \in Runtime!Styles
  /\ pc \in {"wait", "filter", "request", "queue", "draw", "ended"}
  /\ ui \in {"up", "draw", "joinProcess", "joinRecorder", "save", "gone"}

\* A set of natural numbers has a least one.
LEMMA Least ==
  ASSUME NEW T \in SUBSET Nat, T # {}
  PROVE  \E x \in T : \A y \in T : x <= y
<1> DEFINE less == OpToRel(<, Nat)
<1>1. IsWellFoundedOn(less, Nat)
  BY NatLessThanWellFounded
<1>2. PICK x \in T : \A y \in T : <<y, x>> \notin less
  <2> HIDE DEF less
  <2> QED
    BY <1>1, WFMin
<1>3. \A y \in T : <<y, x>> \notin less => ~(y < x)
  BY DEF OpToRel
<1>4. x \in Nat /\ \A y \in T : y \in Nat /\ ~(y < x)
  BY <1>2, <1>3
<1> QED
  BY <1>4

\* Going round any number of times ends where it began.
LEMMA AllTheWayRound ==
  ASSUME NEW n \in Nat \ {0}, NEW i \in 0..(n - 1), NEW k \in Int
  PROVE  (i + k * n) % n = i
<1> DEFINE to == i + k * n
           q == to \div n
<1>1. to \in Int
  <2>1. k * n \in Int
    OBVIOUS
  <2> QED
    BY <2>1
<1>2. to = n * q + (to % n) /\ to % n \in 0..(n - 1) /\ q \in Int
  <2> HIDE DEF to
  <2> QED
    BY <1>1
<1>3. n * (k - q) = (to % n) - i
  BY <1>2
<1>4. k - q = 0
  <2>1. CASE k - q >= 1
    <3>1. n * (k - q) >= n
      BY <2>1, <1>2
    <3> QED
      BY <3>1, <1>2, <1>3
  <2>2. CASE k - q <= -1
    <3>1. n * (k - q) <= -n
      BY <2>2, <1>2
    <3> QED
      BY <3>1, <1>2, <1>3
  <2> QED
    BY <2>1, <2>2, <1>2
<1> QED
  BY <1>2, <1>3, <1>4

\* Whichever category comes next, its style is one of the presets: the search
\* ends, at the latest where it began.
LEMMA CategoryStep ==
  ASSUME selected \in Runtime!Styles, NEW direction \in {-1, 1}, Runtime!ChangeCategory(direction)
  PROVE  selected' \in Runtime!Styles
<1> USE RuntimeAssumption DEF RuntimeAssumption, Runtime!Styles
<1> DEFINE At(n) == (selected + n * direction + n * PresetCount) % PresetCount
           Steps == {n \in 1..PresetCount :
                       LET i == (selected + n * direction + n * PresetCount) % PresetCount
                       IN  Category[i] # Category[selected] \/ i = selected}
           first == CHOOSE n \in Steps : \A k \in Steps : n <= k
<1>1. PresetCount \in Steps
  <2>1. At(PresetCount) = (selected + (direction + PresetCount) * PresetCount) % PresetCount
    <3>1. selected + PresetCount * direction + PresetCount * PresetCount
            = selected + (direction + PresetCount) * PresetCount
      OBVIOUS
    <3> QED
      BY <3>1
  <2>2. At(PresetCount) = selected
    BY <2>1, AllTheWayRound
  <2> QED
    BY <2>2
<1>2. \E n \in Steps : \A k \in Steps : n <= k
  <2>1. Steps \subseteq 1..PresetCount
    OBVIOUS
  <2>2. Steps # {}
    BY <1>1
  <2> HIDE DEF Steps
  <2>3. Steps \in SUBSET Nat
    BY <2>1
  <2> QED
    BY <2>2, <2>3, Least
<1>3. first \in Steps
  <2> HIDE DEF Steps
  <2> QED
    BY <1>2
<1>4. first \in Nat
  BY <1>3
<1>5. selected' = At(first)
  BY DEF Runtime!ChangeCategory
<1> HIDE DEF first, Steps
<1>6. selected + first * direction + first * PresetCount \in Int
  BY <1>4
<1> QED
  BY <1>5, <1>6

\* Every step keeps SettingsInv.
LEMMA SettingsStep ==
  ASSUME SettingsInv, WorkInv, Runtime!Next
  PROVE  SettingsInv'
<1> USE DEF SettingsInv
<1> DEFINE kept == <<Runtime!settings, stored, savePreset, recPreset, recordPreset>>
<1>1. CASE UNCHANGED kept
  BY <1>1 DEF Runtime!settings
<1>2. CASE Runtime!UserActs
  <2>1. ASSUME UNCHANGED <<stored, savePreset, recPreset, recordPreset>>,
               selected' \in Runtime!Styles, intensity' \in 0..100,
               favorites' \in SUBSET Runtime!Styles,
               scene' \in {"camera", "drawer", "browser", "gallery"}
        PROVE  SettingsInv'
    BY <2>1
  <2>2. ASSUME NEW delta \in {-1, 1}, Runtime!ChangePreset(delta) PROVE selected' \in Runtime!Styles
    BY <2>2, RuntimeAssumption
       DEF Runtime!ChangePreset, Runtime!Wrap, Runtime!Styles, RuntimeAssumption
  <2>3. ASSUME NEW delta \in {-1, 1}, Runtime!KeyLeftRight(delta) \/ Runtime!TouchStyle(delta)
        PROVE  SettingsInv'
    BY <2>1, <2>2, <2>3 DEF Runtime!KeyLeftRight, Runtime!TouchStyle, Runtime!InputKeeps,
                            Runtime!jobVars, Runtime!clipVars
  <2>4. ASSUME NEW delta \in {-1, 1}, Runtime!KeyUpDown(delta) PROVE SettingsInv'
    <3>1. UNCHANGED <<stored, savePreset, recPreset, recordPreset, scene, favorites>>
      BY <2>4 DEF Runtime!KeyUpDown, Runtime!InputKeeps, Runtime!jobVars, Runtime!clipVars
    <3>2. \/ UNCHANGED selected /\ intensity' = Runtime!Level(intensity - 5 * delta)
          \/ Runtime!ChangeCategory(delta) /\ UNCHANGED intensity
      BY <2>4 DEF Runtime!KeyUpDown
    <3>3. intensity' \in 0..100
      BY <3>2 DEF Runtime!Level
    <3>4. selected' \in Runtime!Styles
      BY <3>2, CategoryStep
    <3> QED
      BY <2>1, <3>1, <3>3, <3>4
  <2>5. CASE \E to \in {"drawer", "browser", "gallery", "camera"} : Runtime!KeyScene(to)
    BY <2>1, <2>5 DEF Runtime!KeyScene, Runtime!InputKeeps, Runtime!jobVars, Runtime!clipVars
  <2>6. CASE \E level \in {0, 100} : Runtime!TouchDrag(level)
    BY <2>1, <2>6 DEF Runtime!TouchDrag, Runtime!InputKeeps, Runtime!jobVars, Runtime!clipVars
  <2>7. CASE Runtime!TouchTwice
    BY <2>1, <2>7 DEF Runtime!TouchTwice, Runtime!InputKeeps, Runtime!jobVars, Runtime!clipVars
  <2>8. CASE Runtime!SaveSnapshot
    BY <2>8 DEF Runtime!SaveSnapshot, Runtime!settings, Runtime!jobVars, Runtime!clipVars
  <2>9. CASE \/ Runtime!AsksToDraw \/ Runtime!ToggleRecording \/ Runtime!Surface
             \/ \E byFault \in BOOLEAN : Runtime!StopRecording(byFault)
    BY <1>1, <2>9 DEF Runtime!AsksToDraw, Runtime!ToggleRecording, Runtime!Surface,
                      Runtime!SetSurface, Runtime!ClearSurface, Runtime!StopRecording,
                      Runtime!InputKeeps, Runtime!settings, Runtime!jobVars, Runtime!clipVars
  <2>10. CASE Runtime!Keys
    BY <2>3, <2>4, <2>5, <2>6, <2>10, Zenon DEF Runtime!Keys
  <2> QED
    BY <1>2, <2>7, <2>8, <2>9, <2>10, Zenon DEF Runtime!UserActs, Runtime!Recording
<1>3. CASE Runtime!Submit
  BY <1>1, <1>3 DEF Runtime!Submit, Runtime!jobVars, Runtime!clipVars
<1>4. CASE Runtime!Process
  <2>1. CASE Runtime!QueueJob
    BY <2>1 DEF Runtime!QueueJob, Runtime!settings, Runtime!jobVars, Runtime!clipVars
  <2>2. CASE ~Runtime!QueueJob
    BY <1>1, <1>4, <2>2
       DEF Runtime!Process, Runtime!TakePass, Runtime!FilterFrame, Runtime!TakeRequest,
           Runtime!SkipRender, Runtime!ProcessEnds, Runtime!BeginRender, Runtime!EndRender,
           Runtime!jobVars, Runtime!clipVars
  <2> QED
    BY <2>1, <2>2
<1>5. CASE Runtime!Recorder
  <2>1. UNCHANGED <<Runtime!settings, savePreset>>
    BY <1>5, Zenon DEF Runtime!Recorder, Runtime!RecorderChecks, Runtime!StartClip,
                       Runtime!OpenClip, Runtime!RecorderFinishes, Runtime!NoCommand,
                       Runtime!WriteJob, Runtime!NoJob, Runtime!StopAfterJob,
                       Runtime!RecorderReads, Runtime!RecorderSaves, Runtime!RecorderEnds,
                       Runtime!RecKeeps
  <2>2. CASE Runtime!StartClip
    BY <2>1, <2>2 DEF Runtime!StartClip, Runtime!settings, Runtime!jobVars
  <2>3. CASE Runtime!RecorderSaves
    BY <2>1, <2>3 DEF Runtime!RecorderSaves, Runtime!Saved, Runtime!settings, Runtime!jobVars,
                      Runtime!clipVars, WorkInv
  <2>4. CASE ~Runtime!StartClip /\ ~Runtime!RecorderSaves
    <3>1. UNCHANGED <<stored, recPreset, recordPreset>>
      BY <1>5, <2>4 DEF Runtime!Recorder, Runtime!RecorderChecks, Runtime!StartClip,
                        Runtime!OpenClip, Runtime!RecorderFinishes, Runtime!NoCommand,
                        Runtime!WriteJob, Runtime!NoJob, Runtime!StopAfterJob,
                        Runtime!RecorderReads, Runtime!RecorderSaves, Runtime!RecorderEnds,
                        Runtime!RecKeeps, Runtime!FinishClip, Runtime!jobVars, Runtime!clipVars
    <3> QED
      BY <1>1, <2>1, <3>1
  <2> QED
    BY <2>2, <2>3, <2>4
<1>6. CASE Runtime!SaveAtEnd
  <2>1. UNCHANGED <<Runtime!settings, savePreset, recPreset, recordPreset>>
    BY <1>6 DEF Runtime!SaveAtEnd, Runtime!DestroyKeeps, Runtime!jobVars, Runtime!clipVars
  <2>2. Runtime!Live \in Runtime!Settings
    BY DEF Runtime!Live, Runtime!Settings
  <2>3. stored' \in {stored, Runtime!Live}
    BY <1>6 DEF Runtime!SaveAtEnd, Runtime!Saved
  <2> QED
    BY <2>1, <2>2, <2>3 DEF Runtime!settings
<1>7. CASE Runtime!Destroy \/ Runtime!JoinProcess \/ Runtime!JoinRecorder \/ Runtime!Gone
           \/ Runtime!BeginRender("ui") \/ Runtime!EndRender("ui")
  BY <1>1, <1>7
     DEF Runtime!Destroy, Runtime!JoinProcess, Runtime!JoinRecorder, Runtime!Gone, Runtime!vars,
         Runtime!BeginRender, Runtime!EndRender, Runtime!DestroyKeeps, Runtime!jobVars,
         Runtime!clipVars
<1> QED
  BY <1>2, <1>3, <1>4, <1>5, <1>6, <1>7, Zenon DEF Runtime!Next, Runtime!Teardown

\* Every step keeps WorkInv.
LEMMA WorkStep ==
  ASSUME SettingsInv, WorkInv, Runtime!Next
  PROVE  WorkInv'
<1> USE DEF WorkInv
<1>1. ASSUME UNCHANGED <<work, recJob, ended>>, rpc' \in {rpc, "check"},
             recCommand' \in {recCommand, "start", "finish"}
      PROVE  WorkInv'
  BY <1>1 DEF Runtime!Commands
<1>2. CASE Runtime!UserActs
  BY <1>1, <1>2
     DEF Runtime!UserActs, Runtime!Keys, Runtime!Recording, Runtime!Surface,
         Runtime!KeyLeftRight, Runtime!KeyUpDown, Runtime!KeyScene, Runtime!TouchStyle,
         Runtime!TouchDrag, Runtime!TouchTwice, Runtime!SaveSnapshot, Runtime!ToggleRecording,
         Runtime!StopRecording, Runtime!SetSurface, Runtime!ClearSurface, Runtime!AsksToDraw,
         Runtime!InputKeeps, Runtime!Signalled, Runtime!Told, Runtime!recVars, Runtime!jobVars,
         Runtime!clipVars
<1>3. CASE Runtime!Submit \/ Runtime!Destroy \/ Runtime!Teardown \/ Runtime!Gone
  <2>1. CASE Runtime!Submit \/ Runtime!Destroy \/ Runtime!Gone
    BY <1>1, <2>1 DEF Runtime!Submit, Runtime!Destroy, Runtime!DestroyKeeps, Runtime!Gone,
                      Runtime!vars, Runtime!recVars, Runtime!jobVars, Runtime!clipVars
  <2>2. CASE Runtime!JoinProcess \/ Runtime!JoinRecorder \/ Runtime!SaveAtEnd
    BY <1>1, <2>2 DEF Runtime!JoinProcess, Runtime!JoinRecorder, Runtime!SaveAtEnd,
                      Runtime!Signalled, Runtime!DestroyKeeps, Runtime!jobVars, Runtime!clipVars
  <2>3. CASE Runtime!BeginRender("ui") \/ Runtime!EndRender("ui")
    BY <1>1, <2>3 DEF Runtime!BeginRender, Runtime!EndRender, Runtime!recVars, Runtime!jobVars,
                      Runtime!clipVars
  <2> QED
    BY <1>3, <2>1, <2>2, <2>3 DEF Runtime!Teardown
<1>4. CASE Runtime!Process
  <2>1. CASE Runtime!QueueJob
    <3>1. UNCHANGED <<work, ended, recCommand>> /\ rpc' \in {rpc, "check"}
      BY <2>1 DEF Runtime!QueueJob, Runtime!Signalled, Runtime!clipVars
    <3>2. recJob' \in {recJob, "snapshot", "video"}
      BY <2>1 DEF Runtime!QueueJob, Runtime!jobVars
    <3> QED
      BY <3>1, <3>2 DEF Runtime!Jobs
  <2>2. CASE ~Runtime!QueueJob
    BY <1>1, <1>4, <2>2
       DEF Runtime!Process, Runtime!TakePass, Runtime!FilterFrame, Runtime!TakeRequest,
           Runtime!SkipRender, Runtime!ProcessEnds, Runtime!BeginRender, Runtime!EndRender,
           Runtime!recVars, Runtime!jobVars, Runtime!clipVars
  <2> QED
    BY <2>1, <2>2
<1>5. CASE Runtime!Recorder
  <2>1. CASE Runtime!RecorderChecks
    BY <2>1 DEF Runtime!RecorderChecks, Runtime!Commands, Runtime!Jobs, Runtime!jobVars,
                Runtime!clipVars
  <2>2. CASE Runtime!StartClip \/ Runtime!OpenClip \/ Runtime!NoCommand \/ Runtime!NoJob
    BY <2>2 DEF Runtime!StartClip, Runtime!OpenClip, Runtime!NoCommand, Runtime!NoJob,
                Runtime!jobVars, Runtime!clipVars
  <2>3. CASE Runtime!WriteJob
    BY <2>3 DEF Runtime!WriteJob, Runtime!Jobs
  <2>4. CASE Runtime!RecorderFinishes \/ Runtime!StopAfterJob \/ Runtime!RecorderEnds
    <3>1. UNCHANGED <<work, recCommand, recJob>> /\ rpc' \in {"job", "settings", "ended"}
      BY <2>4 DEF Runtime!RecorderFinishes, Runtime!StopAfterJob, Runtime!RecorderEnds,
                  Runtime!jobVars
    <3>2. ended' = ended \/ ended'.name \in {"temporary", "incomplete", "final"}
      BY <2>4 DEF Runtime!RecorderFinishes, Runtime!StopAfterJob, Runtime!RecorderEnds,
                  Runtime!FinishClip, Runtime!NameOf, Runtime!clipVars
    <3> QED
      BY <3>1, <3>2
  <2>5. CASE Runtime!RecorderReads
    <3>1. Runtime!Live \in Runtime!Settings /\ Runtime!NoWork.live \in Runtime!Settings
      BY RuntimeAssumption DEF SettingsInv, RuntimeAssumption, Runtime!Live, Runtime!NoWork,
                               Runtime!Settings, Runtime!Styles
    <3> QED
      BY <2>5, <3>1 DEF Runtime!RecorderReads, Runtime!NoWork, Runtime!Commands, Runtime!Jobs,
                        Runtime!jobVars, Runtime!clipVars
  <2>6. CASE Runtime!RecorderSaves
    <3>1. Runtime!NoWork.live \in Runtime!Settings
      BY RuntimeAssumption DEF Runtime!NoWork, Runtime!Settings, Runtime!Styles, RuntimeAssumption
    <3> QED
      BY <2>6, <3>1 DEF Runtime!RecorderSaves, Runtime!NoWork, Runtime!Commands, Runtime!Jobs,
                        Runtime!jobVars, Runtime!clipVars
  <2> QED
    BY <1>5, <2>1, <2>2, <2>3, <2>4, <2>5, <2>6 DEF Runtime!Recorder
<1> QED
  BY <1>2, <1>3, <1>4, <1>5 DEF Runtime!Next

\* Every step keeps FramesInv.
LEMMA FramesStep ==
  ASSUME SettingsInv, FramesInv, Runtime!Next
  PROVE  FramesInv'
<1> USE DEF FramesInv
<1>1. ASSUME UNCHANGED <<frames, slot, lastRecorded, output, recFrame, taken, pc>>,
             ui' \in {ui, "up", "draw", "joinProcess", "joinRecorder", "save", "gone"}
      PROVE  FramesInv'
  BY <1>1
<1>2. CASE Runtime!UserActs
  BY <1>1, <1>2
     DEF Runtime!UserActs, Runtime!Keys, Runtime!Recording, Runtime!Surface,
         Runtime!KeyLeftRight, Runtime!KeyUpDown, Runtime!KeyScene, Runtime!TouchStyle,
         Runtime!TouchDrag, Runtime!TouchTwice, Runtime!SaveSnapshot, Runtime!ToggleRecording,
         Runtime!StopRecording, Runtime!SetSurface, Runtime!ClearSurface, Runtime!AsksToDraw,
         Runtime!InputKeeps, Runtime!frameVars, Runtime!jobVars
<1>3. CASE Runtime!Submit
  BY <1>3, RuntimeAssumption DEF Runtime!Submit, Runtime!jobVars, RuntimeAssumption
<1>4. CASE Runtime!Process \/ Runtime!EndRender("ui")
  <2>1. Runtime!NoPass.stamp = 0 /\ Runtime!NoPass.style = 0
        /\ {"stamp", "style", "render", "snapshot"} \subseteq DOMAIN Runtime!NoPass
    BY DEF Runtime!NoPass
  <2>2. 0 \in 0..Submitted /\ 0 \in Runtime!Styles
    BY RuntimeAssumption DEF RuntimeAssumption, Runtime!Styles
  <2>3. CASE Runtime!TakePass
    BY <2>3 DEF Runtime!TakePass, Runtime!jobVars, SettingsInv
  <2>4. CASE Runtime!FilterFrame
    BY <2>4 DEF Runtime!FilterFrame, Runtime!Frames, Runtime!jobVars
  <2>5. CASE Runtime!TakeRequest
    BY <2>5 DEF Runtime!TakeRequest, Runtime!frameVars, Runtime!jobVars
  <2>6. CASE Runtime!QueueJob
    BY <2>6 DEF Runtime!QueueJob, Runtime!frameVars, Runtime!jobVars
  <2>7. CASE Runtime!SkipRender \/ Runtime!ProcessEnds
    BY <2>1, <2>2, <2>7 DEF Runtime!SkipRender, Runtime!ProcessEnds, Runtime!frameVars,
                            Runtime!jobVars
  <2>8. CASE Runtime!BeginRender("process")
    BY <1>1, <2>8 DEF Runtime!BeginRender, Runtime!frameVars, Runtime!jobVars
  <2>9. CASE Runtime!EndRender("process") \/ Runtime!EndRender("ui")
    BY <2>1, <2>2, <2>9 DEF Runtime!EndRender, Runtime!frameVars, Runtime!jobVars
  <2> QED
    BY <1>4, <2>3, <2>4, <2>5, <2>6, <2>7, <2>8, <2>9 DEF Runtime!Process
<1>5. CASE Runtime!Recorder
  <2>1. UNCHANGED <<frames, slot, output, recFrame, taken, pc, ui>>
    BY <1>5, Zenon
       DEF Runtime!Recorder, Runtime!RecorderChecks, Runtime!StartClip, Runtime!OpenClip,
           Runtime!RecorderFinishes, Runtime!NoCommand, Runtime!WriteJob, Runtime!NoJob,
           Runtime!StopAfterJob, Runtime!RecorderReads, Runtime!RecorderSaves,
           Runtime!RecorderEnds, Runtime!RecKeeps, Runtime!frameVars, Runtime!jobVars
  <2>2. lastRecorded' \in {lastRecorded, 0}
    BY <1>5
       DEF Runtime!Recorder, Runtime!RecorderChecks, Runtime!StartClip, Runtime!OpenClip,
           Runtime!RecorderFinishes, Runtime!NoCommand, Runtime!WriteJob, Runtime!NoJob,
           Runtime!StopAfterJob, Runtime!RecorderReads, Runtime!RecorderSaves,
           Runtime!RecorderEnds, Runtime!RecKeeps, Runtime!jobVars
  <2>3. 0 \in 0..Submitted
    BY RuntimeAssumption DEF RuntimeAssumption
  <2> QED
    BY <2>1, <2>2, <2>3
<1>6. CASE Runtime!Destroy \/ Runtime!JoinProcess \/ Runtime!JoinRecorder \/ Runtime!SaveAtEnd
           \/ Runtime!BeginRender("ui") \/ Runtime!Gone
  BY <1>1, <1>6
     DEF Runtime!Destroy, Runtime!JoinProcess, Runtime!JoinRecorder, Runtime!SaveAtEnd,
         Runtime!DestroyKeeps, Runtime!BeginRender, Runtime!Gone, Runtime!vars,
         Runtime!frameVars, Runtime!jobVars
<1> QED
  BY <1>2, <1>3, <1>4, <1>5, <1>6 DEF Runtime!Next, Runtime!Teardown

\* The process thread has marked the frame it decodes; the recorder's noted job
\* is still in the slot.
FrameHeld == pc = "filter" => inUse
JobHeld == Runtime!JobNoted => recPending

\* Every step keeps both, and what they hold stands still.
LEMMA HeldStep ==
  ASSUME FrameHeld, JobHeld, WorkInv, Runtime!Next
  PROVE  /\ FrameHeld' /\ JobHeld'
         /\ pc = "filter" => slot' = slot
         /\ Runtime!JobNoted => recFrame' = recFrame
<1> USE DEF FrameHeld, JobHeld, Runtime!JobNoted
<1>1. CASE Runtime!UserActs
  <2>1. /\ UNCHANGED <<pc, inUse, recPending, work, slot, recFrame>>
        /\ rpc' = rpc \/ (rpc = "asleep" /\ rpc' = "check")
    BY <1>1
       DEF Runtime!UserActs, Runtime!Keys, Runtime!Recording, Runtime!Surface,
           Runtime!KeyLeftRight, Runtime!KeyUpDown, Runtime!KeyScene, Runtime!TouchStyle,
           Runtime!TouchDrag, Runtime!TouchTwice, Runtime!SaveSnapshot, Runtime!ToggleRecording,
           Runtime!StopRecording, Runtime!SetSurface, Runtime!ClearSurface, Runtime!AsksToDraw,
           Runtime!InputKeeps, Runtime!Signalled, Runtime!Told, Runtime!settings,
           Runtime!frameVars, Runtime!jobVars, Runtime!clipVars, Runtime!winVars, Runtime!recVars
  <2> QED
    BY <2>1
<1>2. CASE Runtime!Submit
  BY <1>2 DEF Runtime!Submit, Runtime!SlotFree, Runtime!settings, Runtime!frameVars,
              Runtime!jobVars, Runtime!clipVars, Runtime!winVars, Runtime!recVars
<1>3. CASE Runtime!Process
  BY <1>3
     DEF Runtime!Process, Runtime!TakePass, Runtime!FilterFrame, Runtime!TakeRequest,
         Runtime!QueueJob, Runtime!SkipRender, Runtime!ProcessEnds, Runtime!BeginRender,
         Runtime!EndRender, Runtime!Signalled, Runtime!JobSlotFree, Runtime!settings,
         Runtime!frameVars, Runtime!jobVars, Runtime!clipVars, Runtime!winVars, Runtime!recVars
<1>4. CASE Runtime!Recorder
  <2>1. UNCHANGED <<pc, inUse, slot>>
    BY <1>4, Zenon
       DEF Runtime!Recorder, Runtime!RecorderChecks, Runtime!StartClip, Runtime!OpenClip,
           Runtime!RecorderFinishes, Runtime!NoCommand, Runtime!WriteJob, Runtime!NoJob,
           Runtime!StopAfterJob, Runtime!RecorderReads, Runtime!RecorderSaves,
           Runtime!RecorderEnds, Runtime!RecKeeps, Runtime!settings, Runtime!frameVars,
           Runtime!jobVars, Runtime!clipVars, Runtime!winVars, Runtime!recVars
  <2>2. CASE Runtime!RecorderChecks
    <3>1. UNCHANGED <<recPending, recFrame>> /\ rpc = "check"
      BY <2>2 DEF Runtime!RecorderChecks, Runtime!jobVars
    <3>2. rpc' = "command" => work'.job = IF recPending THEN recJob ELSE "none"
      BY <2>2 DEF Runtime!RecorderChecks, WorkInv
    <3>3. rpc' \in {"closing", "asleep", "command"}
      BY <2>2 DEF Runtime!RecorderChecks
    <3> QED
      BY <2>1, <3>1, <3>2, <3>3
  <2>3. CASE Runtime!StartClip \/ Runtime!OpenClip \/ Runtime!NoCommand
    BY <2>1, <2>3 DEF Runtime!StartClip, Runtime!OpenClip, Runtime!NoCommand, Runtime!jobVars
  <2>4. CASE Runtime!RecorderFinishes
    BY <2>1, <2>4 DEF Runtime!RecorderFinishes, Runtime!jobVars
  <2>5. CASE Runtime!WriteJob
    BY <2>1, <2>5 DEF Runtime!WriteJob
  <2>6. CASE Runtime!NoJob \/ Runtime!StopAfterJob
    BY <2>1, <2>6 DEF Runtime!NoJob, Runtime!StopAfterJob, Runtime!jobVars
  <2>7. CASE Runtime!RecorderReads \/ Runtime!RecorderSaves \/ Runtime!RecorderEnds
    BY <2>1, <2>7 DEF Runtime!RecorderReads, Runtime!RecorderSaves, Runtime!RecorderEnds,
                      Runtime!jobVars
  <2> QED
    BY <1>4, <2>2, <2>3, <2>4, <2>5, <2>6, <2>7 DEF Runtime!Recorder
<1>5. CASE Runtime!Destroy \/ Runtime!Teardown \/ Runtime!Gone
  BY <1>5
     DEF Runtime!Destroy, Runtime!Teardown, Runtime!JoinProcess, Runtime!JoinRecorder,
         Runtime!SaveAtEnd, Runtime!DestroyKeeps, Runtime!BeginRender, Runtime!EndRender,
         Runtime!Signalled, Runtime!Gone, Runtime!vars, Runtime!settings, Runtime!frameVars,
         Runtime!jobVars, Runtime!clipVars, Runtime!winVars, Runtime!recVars
<1> QED
  BY <1>1, <1>2, <1>3, <1>4, <1>5 DEF Runtime!Next

\* A drawing holds its window for as long as it lasts, and nothing is drawn on
\* while nobody draws.
WindowsInv ==
  /\ window \in Windows \union {None} /\ drawing \in Windows \union {None}
  /\ renderer \in {"nobody", "process", "ui"} /\ (renderer = "nobody" => drawing = None)
  /\ refs = [w \in Windows |-> Runtime!References(w)]

\* Every step keeps WindowsInv.
LEMMA WindowsStep ==
  ASSUME WindowsInv, Runtime!Next
  PROVE  WindowsInv'
<1> USE RuntimeAssumption DEF WindowsInv, Runtime!References, RuntimeAssumption
<1>1. ASSUME NEW w \in Windows, Runtime!SetSurface(w) PROVE WindowsInv'
  <2>1. /\ UNCHANGED <<renderer, drawing>> /\ window' = w
        /\ refs' = [Runtime!Released(window) EXCEPT ![w] = @ + 1]
    BY <1>1 DEF Runtime!SetSurface
  <2>2. Runtime!Released(window) = [v \in Windows |-> IF drawing = v THEN 1 ELSE 0]
    BY DEF Runtime!Released
  <2> QED
    BY <2>1, <2>2
<1>2. CASE Runtime!ClearSurface
  BY <1>2 DEF Runtime!ClearSurface, Runtime!Released
<1>3. ASSUME NEW t \in {"process", "ui"}, Runtime!BeginRender(t) PROVE WindowsInv'
  BY <1>3 DEF Runtime!BeginRender, Runtime!Acquired
<1>4. ASSUME NEW t \in {"process", "ui"}, Runtime!EndRender(t) PROVE WindowsInv'
  BY <1>4 DEF Runtime!EndRender, Runtime!Released
<1>5. CASE Runtime!JoinRecorder
  BY <1>5 DEF Runtime!JoinRecorder, Runtime!Released, Runtime!DestroyKeeps
<1>6. CASE UNCHANGED Runtime!winVars
  BY <1>6 DEF Runtime!winVars
<1>7. CASE Runtime!UserActs
  <2>1. \/ UNCHANGED Runtime!winVars \/ Runtime!ClearSurface
        \/ \E w \in Windows : Runtime!SetSurface(w)
    BY <1>7, Zenon
       DEF Runtime!UserActs, Runtime!Keys, Runtime!Recording, Runtime!Surface,
           Runtime!KeyLeftRight, Runtime!KeyUpDown, Runtime!KeyScene, Runtime!TouchStyle,
           Runtime!TouchDrag, Runtime!TouchTwice, Runtime!SaveSnapshot, Runtime!ToggleRecording,
           Runtime!StopRecording, Runtime!AsksToDraw, Runtime!InputKeeps
  <2> QED
    BY <1>1, <1>2, <1>6, <2>1
<1>8. CASE Runtime!Submit
  BY <1>6, <1>8 DEF Runtime!Submit
<1>9. CASE Runtime!Process
  <2>1. UNCHANGED Runtime!winVars \/ Runtime!BeginRender("process") \/ Runtime!EndRender("process")
    BY <1>9, Zenon
       DEF Runtime!Process, Runtime!TakePass, Runtime!FilterFrame, Runtime!TakeRequest,
           Runtime!QueueJob, Runtime!SkipRender, Runtime!ProcessEnds
  <2> QED
    BY <1>3, <1>4, <1>6, <2>1
<1>10. CASE Runtime!Recorder
  <2>1. UNCHANGED Runtime!winVars
    BY <1>10, Zenon
       DEF Runtime!Recorder, Runtime!RecorderChecks, Runtime!StartClip, Runtime!OpenClip,
           Runtime!RecorderFinishes, Runtime!NoCommand, Runtime!WriteJob, Runtime!NoJob,
           Runtime!StopAfterJob, Runtime!RecorderReads, Runtime!RecorderSaves,
           Runtime!RecorderEnds, Runtime!RecKeeps
  <2> QED
    BY <1>6, <2>1
<1>11. CASE Runtime!Destroy \/ Runtime!Teardown \/ Runtime!Gone
  <2>1. \/ UNCHANGED Runtime!winVars \/ Runtime!JoinRecorder
        \/ Runtime!BeginRender("ui") \/ Runtime!EndRender("ui")
    BY <1>11
       DEF Runtime!Teardown, Runtime!Destroy, Runtime!JoinProcess, Runtime!SaveAtEnd,
           Runtime!DestroyKeeps, Runtime!Gone, Runtime!vars, Runtime!winVars
  <2> QED
    BY <1>3, <1>4, <1>5, <1>6, <2>1
<1> QED
  BY <1>7, <1>8, <1>9, <1>10, <1>11 DEF Runtime!Next

-----------------------------------------------------------------------------
(***************************************************************************)
(* Together                                                                *)
(***************************************************************************)
RuntimeInv ==
  /\ SettingsInv /\ WorkInv /\ FramesInv /\ Runtime!FlagsOK /\ WindowsInv
  /\ FrameHeld /\ JobHeld

\* The runtime as it is constructed.
LEMMA RuntimeInit == Runtime!Init => RuntimeInv
<1> SUFFICES ASSUME Runtime!Init PROVE RuntimeInv
  OBVIOUS
<1> USE RuntimeAssumption DEF RuntimeAssumption
<1>1. 0 \in Runtime!Styles /\ 0 \in 0..Submitted
  BY DEF Runtime!Styles
<1>2. SettingsInv
  BY <1>1 DEF SettingsInv, Runtime!Init, Runtime!Live, Runtime!Settings
<1>3. WorkInv
  BY <1>1 DEF WorkInv, Runtime!Init, Runtime!NoWork, Runtime!Nowhere, Runtime!Commands,
                       Runtime!Jobs, Runtime!Settings
<1>4. FramesInv
  BY <1>1 DEF FramesInv, Runtime!Init, Runtime!NoPass, Runtime!Frames
<1>5. Runtime!FlagsOK
  BY Zenon DEF Runtime!Init, Runtime!FlagsOK
<1>6. WindowsInv /\ FrameHeld /\ JobHeld
  BY DEF WindowsInv, FrameHeld, JobHeld, Runtime!Init, Runtime!References, Runtime!JobNoted,
                                         Runtime!NoWork
<1> QED
  BY <1>2, <1>3, <1>4, <1>5, <1>6 DEF RuntimeInv

LEMMA RuntimeStep == RuntimeInv /\ [Runtime!Next]_Runtime!vars => RuntimeInv'
<1> SUFFICES ASSUME RuntimeInv, [Runtime!Next]_Runtime!vars PROVE RuntimeInv'
  OBVIOUS
<1>1. CASE Runtime!Next
  BY <1>1, SettingsStep, WorkStep, FramesStep, FlagsStep, WindowsStep, HeldStep DEF RuntimeInv
<1>2. CASE UNCHANGED Runtime!vars
  <2>1. SettingsInv' /\ WorkInv' /\ FramesInv'
    BY <1>2 DEF RuntimeInv, SettingsInv, WorkInv, FramesInv, Runtime!vars, Runtime!settings,
                                                             Runtime!frameVars, Runtime!jobVars,
                                                             Runtime!clipVars, Runtime!winVars,
                                                             Runtime!recVars
  <2>2. Runtime!FlagsOK'
    BY <1>2, ZenonT(30) DEF RuntimeInv, Runtime!FlagsOK, Runtime!vars, Runtime!settings,
                                   Runtime!frameVars, Runtime!jobVars, Runtime!clipVars,
                                   Runtime!winVars, Runtime!recVars
  <2>3. WindowsInv' /\ FrameHeld' /\ JobHeld'
    BY <1>2 DEF RuntimeInv, WindowsInv, FrameHeld, JobHeld, Runtime!References, Runtime!JobNoted,
                                                            Runtime!vars, Runtime!settings,
                                                            Runtime!frameVars, Runtime!jobVars,
                                                            Runtime!clipVars, Runtime!winVars,
                                                            Runtime!recVars
  <2> QED
    BY <2>1, <2>2, <2>3 DEF RuntimeInv
<1> QED
  BY <1>1, <1>2

\* The invariant has the types and the references.
LEMMA RuntimeTyped == RuntimeInv => Runtime!TypeOK /\ Runtime!WindowsAreHeld
<1> SUFFICES ASSUME RuntimeInv PROVE Runtime!TypeOK /\ Runtime!WindowsAreHeld
  OBVIOUS
<1>1. Runtime!Live \in Runtime!Settings
  BY DEF RuntimeInv, SettingsInv, Runtime!Live, Runtime!Settings
<1>2. refs \in [Windows -> Nat] /\ Runtime!WindowsAreHeld
  BY DEF RuntimeInv, WindowsInv, Runtime!References, Runtime!WindowsAreHeld
<1> QED
  BY <1>1, <1>2 DEF RuntimeInv, SettingsInv, WorkInv, FramesInv, WindowsInv, Runtime!TypeOK

\* Every step of the composition is one of the runtime, one of the writer, or
\* both; a part that takes none stands still.
LEMMA EarlierStepOfParts ==
  EarlierNext => [Runtime!Next]_Runtime!vars /\ [Next]_vars
<1> SUFFICES ASSUME EarlierNext PROVE [Runtime!Next]_Runtime!vars /\ [Next]_vars
  OBVIOUS
<1>1. CASE alone /\ Next /\ UNCHANGED <<alone, runtimeVars>>
  BY <1>1 DEF runtimeVars, Runtime!vars, Runtime!settings, Runtime!frameVars, Runtime!jobVars,
                           Runtime!clipVars, Runtime!winVars, Runtime!recVars
<1>2. CASE Opens
  BY <1>2, Zenon DEF Opens, Next, Runtime!Next, Runtime!Recorder
<1>3. CASE Adds
  <2>1. Runtime!Next
    BY <1>3, Zenon DEF Adds, Runtime!Next, Runtime!Recorder
  <2>2. UNCHANGED vars \/ \E size \in Sizes : \/ AddFrame(size) \/ Refuses(size)
                                              \/ AddTorn(size, 0) \/ AddTorn(size, size - 1)
    BY <1>3 DEF Adds
  <2> QED
    BY <2>1, <2>2, Zenon DEF Refuses, Next
<1>4. CASE Finishes
  BY <1>4, Zenon DEF Finishes, Next, Runtime!Next, Runtime!Recorder
<1>5. CASE Elsewhere /\ UNCHANGED <<alone, vars>>
  <2>1. UNCHANGED vars
    BY <1>5
  <2> QED
    BY <1>5, <2>1, Zenon DEF Elsewhere, Runtime!Next
<1> QED
  BY <1>1, <1>2, <1>3, <1>4, <1>5 DEF EarlierNext

\* A behaviour of the runtime with its writer is a behaviour of each: what is
\* proved of either part holds of the whole.
THEOREM EarlierImplementsItsParts == EarlierSpec => Spec /\ Runtime!Spec
<1>1. EarlierInit => Init /\ Runtime!Init
  BY DEF EarlierInit
<1>2. [EarlierNext]_<<alone, vars, runtimeVars>> => [Next]_vars /\ [Runtime!Next]_Runtime!vars
  BY EarlierStepOfParts DEF runtimeVars, Runtime!vars, Runtime!settings, Runtime!frameVars,
                                         Runtime!jobVars, Runtime!clipVars, Runtime!winVars,
                                         Runtime!recVars
<1> QED
  BY <1>1, <1>2, PTL DEF EarlierSpec, Runtime!Spec, Spec

\* The runtime's variables keep their types, a window that is drawn on is held
\* also when the surface changes under the drawing, the frame being decoded and
\* the picture being encoded stand still.
THEOREM WorkIsLeftAlone == EarlierSpec => WorkStandsStill
<1>1. RuntimeInv /\ [Runtime!Next]_Runtime!vars
        => [pc = "filter" => slot' = slot]_Runtime!vars
           /\ [Runtime!JobNoted => recFrame' = recFrame]_Runtime!vars
  BY HeldStep DEF RuntimeInv
<1> QED
  BY <1>1, EarlierImplementsItsParts, RuntimeInit, RuntimeStep, RuntimeTyped, PTL
     DEF WorkStandsStill, Runtime!Spec, Runtime!FrameIsStill, Runtime!JobIsStill

\* A step in which a clip ends is Finishes: no other lowers the flag under a clip
\* that the writer has, and what follows no longer has one.
LEMMA ClipsEndFinished ==
  ASSUME EarlierNext, recording, ~recording', answer'.call = "finish"
  PROVE  Finishes
<1>1. CASE alone /\ Next /\ UNCHANGED <<alone, runtimeVars>>
  BY <1>1 DEF runtimeVars
<1>2. CASE Opens
  BY <1>2 DEF Opens, Open, OpenRefused, Says
<1>3. CASE Adds
  BY <1>3 DEF Adds, Runtime!WriteJob
<1>4. CASE Elsewhere /\ UNCHANGED <<alone, vars>>
  <2>1. CASE Runtime!UserActs
    <3>1. UNCHANGED recording
      BY <2>1, Zenon DEF Runtime!UserActs, Runtime!Keys, Runtime!Recording, Runtime!Surface,
                         Runtime!KeyLeftRight, Runtime!KeyUpDown, Runtime!KeyScene,
                         Runtime!TouchStyle, Runtime!TouchDrag, Runtime!TouchTwice,
                         Runtime!SaveSnapshot, Runtime!ToggleRecording, Runtime!StopRecording,
                         Runtime!SetSurface, Runtime!ClearSurface, Runtime!AsksToDraw,
                         Runtime!InputKeeps, Runtime!clipVars
    <3> QED
      BY <3>1
  <2>2. CASE Runtime!Process
    <3>1. UNCHANGED recording
      BY <2>2, Zenon DEF Runtime!Process, Runtime!TakePass, Runtime!FilterFrame,
                         Runtime!TakeRequest, Runtime!QueueJob, Runtime!SkipRender,
                         Runtime!ProcessEnds, Runtime!BeginRender, Runtime!EndRender,
                         Runtime!clipVars
    <3> QED
      BY <3>1
  <2>3. CASE ~CallsWriter /\ Runtime!Recorder
    <3>1. UNCHANGED recording
      BY <2>3 DEF CallsWriter, Runtime!Recorder, Runtime!RecorderChecks, Runtime!StartClip,
                               Runtime!OpenClip, Runtime!RecorderFinishes, Runtime!NoCommand,
                               Runtime!WriteJob, Runtime!NoJob, Runtime!StopAfterJob,
                               Runtime!RecorderReads, Runtime!RecorderSaves,
                               Runtime!RecorderEnds, Runtime!RecKeeps, Runtime!FinishClip,
                               Runtime!clipVars
    <3> QED
      BY <3>1
  <2>4. CASE Runtime!Submit \/ Runtime!Destroy \/ Runtime!Teardown \/ Runtime!Gone
    <3>1. UNCHANGED recording
      BY <2>4, Zenon DEF Runtime!Submit, Runtime!Destroy, Runtime!Teardown, Runtime!JoinProcess,
                         Runtime!JoinRecorder, Runtime!SaveAtEnd, Runtime!DestroyKeeps,
                         Runtime!BeginRender, Runtime!EndRender, Runtime!Gone, Runtime!vars,
                         Runtime!clipVars
    <3> QED
      BY <3>1
  <2> QED
    BY <1>4, <2>1, <2>2, <2>3, <2>4 DEF Elsewhere
<1> QED
  BY <1>1, <1>2, <1>3, <1>4 DEF EarlierNext

\* finishRecording() names a file only when finish() said true of it, and then it
\* is a clip a player can read, whatever failed before.
THEOREM NamedClipsArePlayable == EarlierSpec => NamedClipIsPlayable
<1>1. Inv /\ [Next]_vars /\ [EarlierNext]_<<alone, vars, runtimeVars>>
        => [recording /\ ~recording' /\ answer'.call = "finish" /\ ended'.name # "temporary"
              => Playable(disk')]_<<disk, answer, recording, ended>>
  <2> SUFFICES ASSUME Inv, [Next]_vars, [EarlierNext]_<<alone, vars, runtimeVars>>,
                      recording, ~recording', answer'.call = "finish", ended'.name # "temporary"
               PROVE  Playable(disk')
    OBVIOUS
  <2>1. EarlierNext
    BY DEF runtimeVars
  <2>2. PICK byFault \in BOOLEAN : ended'.name = Runtime!NameOf(answer'.ok, byFault)
    BY <2>1, ClipsEndFinished DEF Finishes
  <2>3. Inv'
    BY StepInv
  <2>4. answer' \in [call : Calls, ok : BOOLEAN]
    BY <2>3 DEF Inv, TypeOK
  <2>5. answer'.ok = TRUE
    BY <2>2, <2>4 DEF Runtime!NameOf
  <2>6. answer' = Says("finish", TRUE)
    BY <2>4, <2>5 DEF Says
  <2> QED
    BY <2>3, <2>6 DEF Inv, FinishedClipIsPlayable
<1>2. Inv => FinishedClipIsPlayable
  BY DEF Inv
<1> QED
  BY <1>1, <1>2, EarlierImplementsItsParts, InitInv, StepInv, PTL
     DEF EarlierSpec, Spec, NamedClipIsPlayable

=============================================================================
