------------------------------- MODULE AviClip -------------------------------
(***************************************************************************)
(* AviWriter (retrolens_core.cpp), the Motion-JPEG container writer: open, *)
(* addFrame, finish and abort, called by one thread at a time.             *)
(*                                                                         *)
(* The file is the list of chunks after the "movi" mark, each with the     *)
(* position it starts at, and the fields that finish() goes back to patch. *)
(* Positions are the byte positions of the code: a chunk is its 8-byte     *)
(* header, its data and a pad byte when the size is odd.  The card may     *)
(* fail under any write; stdio then raises the stream's error flag, which  *)
(* nothing clears before the stream is closed.                             *)
(***************************************************************************)
EXTENDS Integers, Sequences

CONSTANTS MaxFrames,   \* kMaxAviFrames: the length of the two index arrays
          MaxJpeg,     \* the largest picture addFrame takes, 1 MiB in the code
          Sizes,       \* sizes of the pictures offered
          MaxClips     \* bound: how often open() is called

ASSUME ClipAssumption == /\ MaxFrames \in Nat \ {0}
                         /\ MaxJpeg \in Nat
                         /\ Sizes \subseteq Nat
                         /\ MaxClips \in Nat

VARIABLES file_,    \* whether the writer holds a stream
          error,    \* ferror(file_)
          pos,      \* ftell(file_) between two calls
          index,    \* frameOffsets_ and frameSizes_ up to frameCount_
          disk,     \* what the file holds
          answer,   \* the last call and what it returned
          clips     \* calls of open() so far

vars == <<file_, error, pos, index, disk, answer, clips>>

\* Position of the mark "movi": RIFF and AVI, the hdrl list with the 56-byte
\* avih, the strl list with the 56-byte strh and the 40-byte strf, and the head
\* of the list the chunks are in.
MoviData == 12 + (8 + 4) + (8 + 56) + (8 + 4) + (8 + 56) + (8 + 40) + 8

\* The file as open() leaves it: no chunk, and zero in every field finish()
\* patches.
Header == [chunks |-> <<>>, movi |-> 0, idx1 |-> <<>>, avih |-> 0, strh |-> 0,
           riff |-> 0, length |-> MoviData + 4]

Chunk(at, size) == [at |-> at, size |-> size]
Entry(offset, size) == [offset |-> offset, size |-> size]
Says(call, ok) == [call |-> call, ok |-> ok]

-----------------------------------------------------------------------------

Init == /\ file_ = FALSE /\ error = FALSE /\ pos = 0
        /\ index = <<>> /\ disk = Header
        /\ answer = Says("none", FALSE) /\ clips = 0

\* open() first closes what an earlier clip left.  A bad argument or a failing
\* fopen leaves the writer closed, with the frame count it had.
OpenRefused == /\ clips < MaxClips /\ clips' = clips + 1
               /\ file_' = FALSE
               /\ answer' = Says("open", FALSE)
               /\ UNCHANGED <<error, pos, index, disk>>

\* Otherwise the header is written.  When the card fails meanwhile the answer
\* is false, but the writer keeps the stream.
Open == /\ clips < MaxClips /\ clips' = clips + 1
        /\ file_' = TRUE /\ index' = <<>>
        /\ disk' = Header /\ pos' = MoviData + 4
        /\ error' \in BOOLEAN
        /\ answer' = Says("open", ~error')

\* What addFrame asks before it writes.
Fits(size) == /\ file_ /\ size > 0 /\ size <= MaxJpeg
              /\ Len(index) < MaxFrames

AddRefused(size) == /\ ~Fits(size)
                    /\ answer # Says("addFrame", FALSE)
                    /\ answer' = Says("addFrame", FALSE)
                    /\ UNCHANGED <<file_, error, pos, index, disk, clips>>

\* fwrite stops short: part of a chunk is in the file and no entry names it.
\* Bound: the first failure of a stream only, what follows it is lost anyway.
AddTorn(size, written) ==
    /\ Fits(size) /\ written < size /\ ~error
    /\ error' = TRUE
    /\ pos' = pos + 8 + written
    /\ disk' = [disk EXCEPT !.chunks = Append(@, Chunk(pos, size))]
    /\ answer' = Says("addFrame", FALSE)
    /\ UNCHANGED <<file_, index, clips>>

\* mutant: chunks of odd size are not padded.
Padded_never(size) == size

Padded(size) == size + (size % 2)

\* Offsets are counted from the mark "movi".
OffsetOf(at) == at - MoviData

\* The chunk is handed to stdio whole and the index takes it, even when the
\* error flag is up by then and the answer is false.
AddFrame(size) ==
    /\ Fits(size)
    /\ index' = Append(index, Entry(OffsetOf(pos), size))
    /\ disk' = [disk EXCEPT !.chunks = Append(@, Chunk(pos, size))]
    /\ pos' = pos + 8 + Padded(size)
    /\ error' \in {error, TRUE}
    /\ answer' = Says("addFrame", ~error')
    /\ UNCHANGED <<file_, clips>>

Whole(flushed, bad) == flushed /\ ~bad

\* finish() appends the index, goes back to patch the sizes and the two frame
\* counts, and closes the stream whatever happened.
Finish == \E flushed \in BOOLEAN :
    /\ file_
    /\ file_' = FALSE
    /\ error' \in {error, TRUE}
    /\ LET end == pos + 8 + 16 * Len(index)
       IN  /\ pos' = end
           /\ disk' = [disk EXCEPT !.movi = pos - MoviData, !.idx1 = index,
                                   !.avih = Len(index), !.strh = Len(index),
                                   !.riff = end - 8, !.length = end]
    /\ answer' = Says("finish", Whole(flushed, error'))
    /\ UNCHANGED <<index, clips>>

FinishClosed == /\ ~file_ /\ answer # Says("finish", FALSE)
                /\ answer' = Says("finish", FALSE)
                /\ UNCHANGED <<file_, error, pos, index, disk, clips>>

\* abort(), also the destructor: the stream is closed as it stands.
Abort == /\ file_ /\ file_' = FALSE
         /\ answer' = Says("abort", FALSE)
         /\ UNCHANGED <<error, pos, index, disk, clips>>

Next == \/ OpenRefused \/ Open \/ Finish \/ FinishClosed \/ Abort
        \/ \E size \in Sizes : \/ AddRefused(size) \/ AddFrame(size)
                               \/ AddTorn(size, 0) \/ AddTorn(size, size - 1)

Spec == Init /\ [][Next]_vars

-----------------------------------------------------------------------------

\* Where a reader looks for the chunk after c.
After(c) == c.at + 8 + c.size + (c.size % 2)

\* The chunks follow each other without a gap from the mark to position end.
Tiled(chunks, end) ==
    /\ chunks = <<>> => end = MoviData + 4
    /\ chunks # <<>> => /\ chunks[1].at = MoviData + 4
                        /\ end = After(chunks[Len(chunks)])
    /\ \A i \in 1 .. Len(chunks) - 1 : chunks[i + 1].at = After(chunks[i])

\* The entries name the chunks, one each and in order.
Names(entries, chunks) ==
    /\ Len(entries) = Len(chunks)
    /\ \A i \in 1 .. Len(chunks) :
          entries[i] = Entry(chunks[i].at - MoviData, chunks[i].size)

Playable(d) == /\ Tiled(d.chunks, MoviData + d.movi)
               /\ Names(d.idx1, d.chunks)
               /\ d.avih = Len(d.chunks) /\ d.strh = Len(d.chunks)
               /\ d.length = MoviData + d.movi + 8 + 16 * Len(d.chunks)
               /\ d.riff = d.length - 8

Chunks == [at : Nat, size : Sizes]
Entries == [offset : Nat, size : Sizes]
Files == [chunks : Seq(Chunks), movi : Int, idx1 : Seq(Entries), avih : Nat,
          strh : Nat, riff : Int, length : Nat]
Calls == {"none", "open", "addFrame", "finish", "abort"}

\* Every variable has the values of its type, and the index never outgrows the
\* arrays it is kept in.
TypeOK == /\ file_ \in BOOLEAN /\ error \in BOOLEAN
          /\ pos \in Nat /\ clips \in 0 .. MaxClips
          /\ index \in Seq(Entries) /\ Len(index) <= MaxFrames
          /\ disk \in Files
          /\ answer \in [call : Calls, ok : BOOLEAN]

\* When finish() says true the file is a clip a player can read: walking the
\* chunks by their sizes from the mark visits exactly the indexed frames, the
\* index and both frame counts agree with them and the sizes in the headers end
\* where the data ends, whatever was refused, aborted or failed before.
FinishedClipIsPlayable == answer = Says("finish", TRUE) => Playable(disk)

\* While no write of the stream has failed, the index under construction names
\* the chunks written so far: a clip can be finished after any call.
IndexKeepsUp == file_ /\ ~error => /\ Tiled(disk.chunks, pos)
                                   /\ Names(index, disk.chunks)
==============================================================================
