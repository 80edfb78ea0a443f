---------------------------- MODULE WindowProofs ---------------------------
(***************************************************************************)
(* Proofs about what the window shows.  Of the posts to it (Display): only *)
(* a filtered picture or the gallery covers the preview, an alarm about    *)
(* buffers has a cause, and one chain of ticks posts.  Of the copy into    *)
(* its buffer (Raster): for every size of picture and buffer it reads      *)
(* inside the source and writes whole rows at the buffer's stride.  Of the *)
(* filter that makes the picture (PixelFilter): channels fit their bytes,  *)
(* tones stand and trails fade.  Of the pieces laid over it (Screen): what *)
(* is shown can be read.  The four share no variable.                      *)
(***************************************************************************)
EXTENDS Display, MCDrawing, SequenceTheorems, TLAPS

-----------------------------------------------------------------------------
(***************************************************************************)
(* Display.  A drawing that may cover the preview is one of the gallery or *)
(* of a filtered frame.                                                    *)
(***************************************************************************)
MayCover(drawing) ==
  /\ drawing # Undrawn
  /\ drawing.scene = "gallery" \/ drawing.picture = "filtered"

\* The surface is visible only in a session that has processed a frame, and what
\* is drawn after that may cover the preview.  A buffer that nothing was drawn
\* into is shown only until the UI thread gets to the result of its post.
CoverInv ==
  /\ processed \in Nat /\ scene \in {"camera", "gallery"}
  /\ (visible \/ statsTick \/ ui # "idle") => active
  /\ surface => visible
  /\ visible => processed > 0
  /\ processed > 0 => MayCover(drawn)
  /\ shown = Unposted \/ MayCover(shown) \/ (ui = "posted" /\ outcome = "unsupported")

\* Without a leak or a foreign buffer, one buffer at most was received and not
\* released, the one in hand.
BalanceInv ==
  /\ received \in Int /\ released \in Int /\ told \in Int
  /\ source \in {"poll", "count", "release"}
  /\ ~(leaked \/ foreign) =>
       /\ received - released = IF source = "release" THEN 1 ELSE 0
       /\ told \in {0, 1}

\* A tick is queued exactly while the controller's flag is up, and only by a
\* controller that runs.
ChainInv ==
  /\ ticks = IF tickScheduled THEN 1 ELSE 0
  /\ ticks > 0 => active

\* What is composed once a frame was processed may cover the preview.
LEMMA DrawnMayCover ==
  ASSUME NEW sceneNow \in {"camera", "gallery"}, NEW d \in Nat, d > 0, NEW error, NEW outstanding
  PROVE  MayCover(Composed(sceneNow, d, error, outstanding))
BY DEF MayCover, Composed, Undrawn, S!FullFrame, S!InGallery

\* Every step keeps CoverInv: posting takes what is drawn, fail() hides all.
LEMMA CoverStep ==
  ASSUME CoverInv, Next
  PROVE  CoverInv'
<1> USE DEF CoverInv
<1>1. CASE Worker \/ KeyPlayback
  <2>1. /\ UNCHANGED <<visible, statsTick, ui, active, surface, shown, outcome>>
        /\ processed' \in Nat /\ processed' >= processed /\ scene' \in {"camera", "gallery"}
    BY <1>1 DEF Worker, CompleteFrame, Redraw, KeyPlayback, controlVars
  <2>2. processed' > 0 => MayCover(drawn')
    <3>1. CASE Worker
      <4>1. drawn' = Composed(scene', processed', decodeError', told)
        BY <3>1 DEF Worker, CompleteFrame, Redraw, DrawCompleted, Draw
      <4> QED
        BY <2>1, <4>1, DrawnMayCover
    <3>2. CASE KeyPlayback
      BY <3>2 DEF KeyPlayback
    <3> QED
      BY <1>1, <3>1, <3>2
  <2> QED
    BY <2>1, <2>2
<1>2. CASE FrameWorker
  <2>1. UNCHANGED <<visible, statsTick, ui, active, surface, shown, outcome, processed, scene, drawn>>
    BY <1>2 DEF FrameWorker, Fetch, OnFrame, ReleaseBuffer,
                controlVars, workerVars
  <2> QED
    BY <2>1 DEF MayCover
<1>3. CASE Start
  BY <1>3 DEF Start
<1>4. CASE Fail /\ UNCHANGED workerVars
  BY <1>4 DEF Fail, workerVars
<1>5. CASE AnimationTick \/ SurfaceCallback
  <2>1. /\ ui = "idle" /\ UNCHANGED <<active, visible, statsTick, processed, scene, drawn>>
        /\ surface' => visible
    BY <1>5 DEF AnimationTick, SurfaceCallback, workerVars
  <2>2. \/ UNCHANGED <<ui, outcome, shown>>
        \/ /\ active /\ surface' /\ ui' = "posted"
           /\ \/ shown' = drawn
              \/ shown' = shown
              \/ outcome' = "unsupported"
    BY <1>5 DEF AnimationTick, SurfaceCallback, Post
  <2>3. MayCover(drawn') = MayCover(drawn)
    BY <2>1
  <2>4. shown' = drawn => MayCover(shown') = MayCover(drawn)
    OBVIOUS
  <2> QED
    BY <2>1, <2>2, <2>3, <2>4
<1>6. CASE SurfaceDestroyed
  BY <1>6 DEF SurfaceDestroyed, workerVars
<1>7. CASE PollStats /\ UNCHANGED <<active, statsTick, surface, shown, workerVars>>
                           /\ (ui' = ui \/ (ui' = "idle" /\ outcome # "unsupported"))
                           /\ UNCHANGED outcome /\ active
  BY <1>7 DEF PollStats, Reveals, workerVars
<1>8. CASE PostFailed \/ Posted \/ StatsTick \/ Stop
  <2>1. \/ Fail /\ UNCHANGED workerVars
        \/ /\ PollStats /\ UNCHANGED <<active, statsTick, surface, shown, workerVars>>
           /\ (ui' = ui \/ (ui' = "idle" /\ outcome # "unsupported")) /\ UNCHANGED outcome
           /\ statsTick \/ ui = "posted"
    BY <1>8 DEF PostFailed, Posted, StatsTick, Stop
  <2> QED
    BY <1>4, <1>7, <2>1
<1> QED
  BY <1>1, <1>2, <1>3, <1>5, <1>6, <1>8 DEF Next, Handler

\* Every step keeps BalanceInv: a buffer is counted, released, and only then is
\* the next one fetched.
LEMMA BalanceStep ==
  ASSUME BalanceInv, Next
  PROVE  BalanceInv'
<1> USE DEF BalanceInv
<1>1. CASE Fetch
  BY <1>1 DEF Fetch
<1>2. CASE OnFrame
  BY <1>2 DEF OnFrame, Tell, Counts
<1>3. CASE ReleaseBuffer
  BY <1>3 DEF ReleaseBuffer, Tell
<1>4. CASE UNCHANGED <<source, countVars>> /\ (told' = told \/ told' = 0)
  BY <1>4 DEF countVars
<1>5. CASE ~FrameWorker
  <2>1. UNCHANGED <<source, countVars>> /\ (told' = told \/ told' = 0)
    BY <1>5 DEF Next, Worker, Handler, CompleteFrame, Redraw,
                KeyPlayback, Start, Stop, AnimationTick,
                SurfaceCallback, SurfaceDestroyed, PostFailed, Posted,
                StatsTick
  <2> QED
    BY <1>4, <2>1
<1> QED
  BY <1>1, <1>2, <1>3, <1>5 DEF FrameWorker

\* Every step keeps ChainInv: whoever lowers the flag has taken the tick out.
LEMMA ChainStep ==
  ASSUME ChainInv, CoverInv, Next
  PROVE  ChainInv'
<1> USE DEF ChainInv
<1>1. CASE AnimationTick \/ SurfaceCallback
  BY <1>1 DEF AnimationTick, TakeTick, SurfaceCallback, BeginPosting
<1>2. CASE Fail
  BY <1>2 DEF Fail, RemoveCallbacks
<1>3. CASE PostFailed \/ Posted \/ StatsTick \/ Stop
  BY <1>2, <1>3 DEF PostFailed, Posted, StatsTick, Stop, CoverInv
<1>4. CASE Worker \/ KeyPlayback \/ FrameWorker \/ Start
           \/ SurfaceDestroyed
  <2>1. UNCHANGED <<ticks, tickScheduled>> /\ (active' = active \/ active')
    BY <1>4 DEF Worker, CompleteFrame, Redraw, KeyPlayback,
                FrameWorker, Fetch, OnFrame, ReleaseBuffer, Start,
                SurfaceDestroyed, controlVars
  <2> QED
    BY <2>1
<1> QED
  BY <1>1, <1>3, <1>4 DEF Next, Handler

\* Frames are counted before they are taken: those completed, the one in the slot
\* and the one in hand are among those fetched.
CountsInv ==
  /\ taken \in 0..MaxFrames /\ processed \in Nat /\ failures \in Nat
  /\ received \in Nat /\ released \in Nat /\ starts \in 0..MaxStarts
  /\ input \in {"none", "jpeg", "broken"} /\ buffer \in {"jpeg", "broken", "foreign"}
  /\ source \in {"poll", "count", "release"} /\ (source = "count" => buffer # "foreign")
  /\ processed + failures + (IF input = "none" THEN 0 ELSE 1) <= received
  /\ received + (IF source = "count" THEN 1 ELSE 0) <= taken
  /\ released + (IF source = "poll" THEN 0 ELSE 1) <= taken

\* Every step keeps CountsInv.
LEMMA CountsStep ==
  ASSUME CountsInv, Next
  PROVE  CountsInv'
<1> USE DEF CountsInv
<1>1. CASE CompleteFrame
  BY <1>1 DEF CompleteFrame, controlVars, countVars, AfterDecode
<1>2. CASE Start
  BY <1>2, DisplayAssumption DEF Start, DisplayAssumption, countVars
<1>3. CASE Fetch
  BY <1>3, DisplayAssumption DEF Fetch, DisplayAssumption, controlVars, workerVars
<1>4. CASE OnFrame
  BY <1>4 DEF OnFrame, Counts, controlVars
<1>5. CASE ReleaseBuffer
  BY <1>5 DEF ReleaseBuffer, controlVars, workerVars
<1>6. CASE UNCHANGED <<taken, processed, failures, received, released, starts, input, buffer, source>>
  BY <1>6
<1>7. CASE Redraw \/ KeyPlayback \/ Handler \/ Stop
           \/ SurfaceCallback \/ SurfaceDestroyed
  <2>1. UNCHANGED <<taken, processed, failures, received, released, starts, input, buffer, source>>
    BY <1>7 DEF Redraw, KeyPlayback, Handler, Stop, AnimationTick,
                SurfaceCallback, SurfaceDestroyed, PostFailed, Posted,
                StatsTick, Fail, controlVars, workerVars, countVars
  <2> QED
    BY <1>6, <2>1
<1> QED
  BY <1>1, <1>2, <1>3, <1>4, <1>5, <1>7 DEF Next, Worker, FrameWorker

\* The flags, and what is drawn and shown.
FlagsInv ==
  /\ active \in BOOLEAN /\ visible \in BOOLEAN
  /\ surface \in BOOLEAN /\ surfaceReady \in BOOLEAN /\ tickScheduled \in BOOLEAN
  /\ statsTick \in BOOLEAN /\ revealRequested \in BOOLEAN /\ decodeError \in BOOLEAN

DrawingsInv ==
  /\ scene \in {"camera", "gallery"} /\ drawn \in Drawings
  /\ shown \in Drawings \union {Unposted, Undrawn}
  /\ ui \in {"idle", "posted"} /\ outcome \in Outcomes

\* Every step keeps FlagsInv.
LEMMA FlagsStep ==
  ASSUME FlagsInv, Next
  PROVE  FlagsInv'
<1> USE DEF FlagsInv
<1>1. CASE Worker \/ KeyPlayback \/ FrameWorker
  BY <1>1, ZenonT(30) DEF Worker, CompleteFrame, Redraw, KeyPlayback,
     FrameWorker, Fetch, OnFrame, ReleaseBuffer,
     controlVars, workerVars
<1>2. CASE Start
  BY <1>2, Zenon DEF Start, StatsScheduled
<1>3. CASE AnimationTick \/ SurfaceCallback \/ SurfaceDestroyed
  BY <1>3, Zenon DEF AnimationTick, TakeTick, SurfaceCallback,
     BeginPosting, SurfaceDestroyed, workerVars
<1>4. CASE Fail /\ UNCHANGED workerVars
  BY <1>4, Zenon DEF Fail, workerVars
<1>5. PollStats => visible' \in BOOLEAN /\ revealRequested' \in BOOLEAN
  <2>1. /\ (revealRequested \/ Reveals) \in BOOLEAN
        /\ (visible \/ (~revealRequested /\ Reveals)) \in BOOLEAN
    BY Zenon
  <2> QED
    BY <2>1, Zenon DEF PollStats
<1>6. CASE PostFailed \/ Posted \/ StatsTick \/ Stop
  BY <1>4, <1>5, <1>6, Zenon
     DEF PostFailed, Posted, StatsTick, Stop, workerVars
<1> QED
  BY <1>1, <1>2, <1>3, <1>6, Zenon DEF Next, Handler

\* A composition is a drawing, whatever the frame was.
LEMMA ComposedIsADrawing ==
  ASSUME NEW sceneNow \in {"camera", "gallery"}, NEW d, NEW error, NEW outstanding
  PROVE  Composed(sceneNow, d, error, outstanding) \in Drawings
<1> DEFINE n == [scene |-> sceneNow, hasFrame |-> d > 0, thumbnail |-> FALSE,
                 decodeError |-> error, outstanding |-> outstanding]
           alert == S!AlertPieces(n) # <<>>
<1>1. S!FullFrame(n) \in {"none", "filtered"}
  BY DEF S!FullFrame
<1>2. alert \in BOOLEAN
  BY Zenon
<1>3. Composed(sceneNow, d, error, outstanding)
        = [scene |-> sceneNow, picture |-> S!FullFrame(n), alert |-> alert]
  BY DEF Composed
<1> HIDE DEF n, alert
<1> QED
  BY <1>1, <1>2, <1>3 DEF Drawings

\* Every step keeps DrawingsInv.
LEMMA DrawingsStep ==
  ASSUME DrawingsInv, Next
  PROVE  DrawingsInv'
<1> USE DEF DrawingsInv
<1>1. CASE Worker
  <2>1. /\ UNCHANGED <<scene, shown, ui, outcome>>
        /\ drawn' = Composed(scene', processed', decodeError', told)
    BY <1>1 DEF Worker, CompleteFrame, Redraw, DrawCompleted, Draw,
       controlVars
  <2> QED
    BY <2>1, ComposedIsADrawing
<1>2. CASE KeyPlayback \/ FrameWorker
  BY <1>2 DEF KeyPlayback, FrameWorker, Fetch, OnFrame,
     ReleaseBuffer, controlVars, workerVars
<1>3. CASE Start
  <2>1. Blank \in Drawings
    BY DEF Blank, Drawings
  <2> QED
    BY <1>3, <2>1 DEF Start
<1>4. CASE AnimationTick \/ SurfaceCallback
  <2>1. /\ UNCHANGED <<scene, drawn>>
        /\ \/ UNCHANGED <<ui, outcome, shown>>
           \/ /\ ui' = "posted" /\ outcome' \in Outcomes
              /\ shown' \in {drawn, Undrawn, shown}
    BY <1>4 DEF AnimationTick, SurfaceCallback, Post, workerVars
  <2> QED
    BY <2>1
<1>5. CASE PostFailed \/ Posted \/ StatsTick \/ Stop
           \/ SurfaceDestroyed
  <2>1. /\ UNCHANGED <<scene, drawn, outcome>> /\ ui' \in {ui, "idle"}
        /\ shown' \in {shown, Unposted}
    BY <1>5 DEF PostFailed, Posted, StatsTick, Stop,
       SurfaceDestroyed, Fail, PollStats, workerVars
  <2> QED
    BY <2>1
<1> QED
  BY <1>1, <1>2, <1>3, <1>4, <1>5 DEF Next, Handler

\* The three invariants hold at first and are kept.
LEMMA PostsInit == Init => CoverInv /\ BalanceInv /\ ChainInv
BY DEF Init, CoverInv, BalanceInv, ChainInv

\* Nothing but a step of Display changes what they speak of.
LEMMA PostsStep ==
  CoverInv /\ BalanceInv /\ ChainInv /\ [Next]_vars
    => CoverInv' /\ BalanceInv' /\ ChainInv'
<1> SUFFICES ASSUME CoverInv, BalanceInv, ChainInv, UNCHANGED vars
             PROVE  CoverInv' /\ BalanceInv' /\ ChainInv'
  BY CoverStep, BalanceStep, ChainStep
<1> QED
  BY DEF vars, controlVars, workerVars, countVars, CoverInv, BalanceInv,
         ChainInv, MayCover

\* The inductive invariant of the controller, the native worker and the frame
\* worker that counts buffers.
THEOREM WindowInvariant == Spec => [](CoverInv /\ BalanceInv /\ ChainInv)
BY PostsInit, PostsStep, PTL DEF Spec

\* pollStats reveals the surface after a processed frame only, and whatever
\* postFrame puts on it from then on is a filtered picture or the gallery.
THEOREM OnlyFilteredCovers == Spec => []OverlayIsFiltered
<1>1. CoverInv => OverlayIsFiltered
  BY DEF CoverInv, MayCover, OverlayIsFiltered
<1> QED
  BY <1>1, WindowInvariant, PTL

\* The balance that onFrame and releaseBuffer report strays from 0 and 1 only
\* after a release that threw or a buffer that was not a DeviceBuffer.
THEOREM AlarmsHaveACause == Spec => []ImbalanceHasACause
<1>1. BalanceInv => ImbalanceHasACause
  BY DEF BalanceInv, ImbalanceHasACause
<1> QED
  BY <1>1, WindowInvariant, PTL

\* The safety half of PostingGoesOn: types hold, at most one tick is queued, and
\* none outlives the controller's session.
THEOREM OneChainOfTicks == Spec => [](TypeOK /\ ticks <= 1 /\ (ticks > 0 => active))
<1> DEFINE Types == CountsInv /\ FlagsInv /\ DrawingsInv
<1>1. Init => Types
  <2> SUFFICES ASSUME Init PROVE Types
    OBVIOUS
  <2>1. CountsInv
    BY DisplayAssumption DEF DisplayAssumption, Init, CountsInv
  <2>2. FlagsInv
    BY Zenon DEF Init, FlagsInv
  <2>3. DrawingsInv
    BY DEF Init, DrawingsInv, Blank, Drawings, Outcomes
  <2> QED
    BY <2>1, <2>2, <2>3
<1>2. Types /\ [Next]_vars => Types'
  <2> SUFFICES ASSUME Types, UNCHANGED vars PROVE Types'
    BY CountsStep, FlagsStep, DrawingsStep
  <2> QED
    BY DEF vars, controlVars, workerVars, countVars,
       CountsInv, FlagsInv, DrawingsInv
<1>3. Types /\ ChainInv => TypeOK /\ ticks <= 1 /\ (ticks > 0 => active)
  <2> SUFFICES ASSUME CountsInv, FlagsInv, DrawingsInv, ChainInv
               PROVE  TypeOK /\ ticks <= 1 /\ (ticks > 0 => active)
    OBVIOUS
  <2>1. ticks \in Nat /\ ticks <= 1 /\ (ticks > 0 => active)
    BY DEF ChainInv
  <2>2. /\ processed \in 0..MaxFrames /\ failures \in 0..MaxFrames
        /\ received \in 0..taken /\ released \in 0..taken
    <3>1. /\ taken \in Nat /\ taken <= MaxFrames /\ processed \in Nat /\ failures \in Nat
          /\ received \in Nat /\ released \in Nat
      BY DEF CountsInv
    <3>2. processed + failures <= received /\ received <= taken /\ released <= taken
      BY <3>1 DEF CountsInv
    <3>3. MaxFrames \in Nat
      BY DisplayAssumption DEF DisplayAssumption
    <3> QED
      BY <3>1, <3>2, <3>3
  <2> QED
    BY <2>1, <2>2, Zenon DEF CountsInv, FlagsInv, DrawingsInv, TypeOK
<1> HIDE DEF Types
<1> QED
  BY <1>1, <1>2, <1>3, WindowInvariant, PTL DEF Spec

-----------------------------------------------------------------------------
(***************************************************************************)
(* Raster.  The facts about rounded quotients are lemmas of their own.     *)
(***************************************************************************)
\* n \div d is the greatest number whose product with d is at most n.
LEMMA Quotient ==
  ASSUME NEW n \in Nat, NEW d \in Sizes
  PROVE  /\ n \div d \in Nat
         /\ d * (n \div d) <= n
         /\ n < d * (n \div d) + d
BY DEF Sizes

\* A product is monotonic in a factor: what the solvers need of multiplication.
LEMMA Monotonic ==
  ASSUME NEW a \in Nat, NEW b \in Nat, NEW c \in Nat, a <= b
  PROVE  a * c <= b * c
BY Z3

\* Scaling an index of a row of "to" pixels gives one of a row of "from".
LEMMA ScaledInside ==
  ASSUME NEW from \in Sizes, NEW to \in Sizes, NEW i \in 0..(to - 1)
  PROVE  Scaled(i, from, to) \in 0..(from - 1)
<1> DEFINE q == (i * from) \div to
<1>1. i \in Nat /\ i * from \in Nat BY DEF Sizes
<1>2. q \in Nat /\ to * q <= i * from BY <1>1, Quotient
<1>3. i * from < to * from
  BY DEF Sizes
<1>4. ~(from <= q)
  <2>1. ASSUME from <= q PROVE to * from <= to * q
    BY <2>1, <1>2, Monotonic DEF Sizes
  <2> QED BY <2>1, <1>2, <1>3 DEF Sizes
<1> QED BY <1>2, <1>4 DEF Scaled, Sizes

\* A side cut to the shape of the other one is no longer than before.
LEMMA CutFits ==
  ASSUME NEW s \in Sizes, NEW t \in Sizes, NEW d \in Sizes, NEW e \in Sizes, e * t > d * s
  PROVE  AtLeastOne((s * d) \div e) \in 1..t
<1> DEFINE q == (s * d) \div e
<1>1. s * d \in Nat BY DEF Sizes
<1>2. q \in Nat /\ e * q <= s * d BY <1>1, Quotient
<1>3. ~(t <= q)
  <2>1. ASSUME t <= q PROVE e * t <= e * q
    BY <2>1, <1>2, Monotonic DEF Sizes
  <2> QED BY <2>1, <1>2 DEF Sizes
<1> QED BY <1>2, <1>3 DEF AtLeastOne, Sizes

\* The margin on one side and the part kept are inside the whole.
LEMMA MarginFits ==
  ASSUME NEW t \in Sizes, NEW kept \in 1..t
  PROVE  (t - kept) \div 2 \in Nat /\ (t - kept) \div 2 + kept <= t
BY DEF Sizes

GeometryType == [sw : Sizes, sh : Sizes, dw : Sizes, dh : Sizes, stride : Sizes,
                 format : STRING, crop : BOOLEAN]

\* The crop is a part of the source: no picture or buffer is so thin that a
\* side rounds to nothing or the margin to more than there is.
LEMMA CropInside ==
  ASSUME NEW h \in GeometryType
  PROVE  /\ Crop(h).left \in Nat /\ Crop(h).width \in Sizes
         /\ Crop(h).top \in Nat /\ Crop(h).height \in Sizes
         /\ Crop(h).left + Crop(h).width <= h.sw
         /\ Crop(h).top + Crop(h).height <= h.sh
<1> USE DEF GeometryType, Sizes
<1> DEFINE height == AtLeastOne((h.sw * h.dh) \div h.dw)
           width == AtLeastOne((h.sh * h.dw) \div h.dh)
<1>1. CASE ~h.crop BY <1>1 DEF Crop, Whole
<1>2. CASE h.crop /\ h.dw * h.sh > h.dh * h.sw
  <2>1. h.sw * h.dh = h.dh * h.sw OBVIOUS
  <2>2. height \in 1..h.sh BY <1>2, CutFits
  <2>3. Crop(h) = [Whole(h) EXCEPT !.height = height, !.top = (h.sh - height) \div 2]
    BY <1>2 DEF Crop, CenterCrop
  <2> QED BY <2>2, <2>3, MarginFits DEF Whole
<1>3. CASE h.crop /\ h.dw * h.sh < h.dh * h.sw
  <2>1. width \in 1..h.sw BY <1>3, CutFits
  <2>2. Crop(h) = [Whole(h) EXCEPT !.width = width, !.left = (h.sw - width) \div 2]
    <3>1. ~(h.dw * h.sh > h.dh * h.sw) BY <1>3
    <3> QED BY <1>3, <3>1 DEF Crop, CenterCrop
  <2> QED BY <2>1, <2>2, MarginFits DEF Whole
<1>4. CASE h.crop /\ h.dw * h.sh = h.dh * h.sw
  <2>1. Crop(h) = Whole(h) BY <1>4 DEF Crop, CenterCrop
  <2> QED BY <2>1 DEF Whole
<1> QED BY <1>1, <1>2, <1>3, <1>4

\* The pixel read for a pixel of the buffer is one of the source.
THEOREM SourceInside ==
  ASSUME NEW h \in GeometryType, NEW x \in 0..(h.dw - 1), NEW y \in 0..(h.dh - 1)
  PROVE  /\ SourceX(h, x) \in 0..(h.sw - 1) /\ SourceY(h, y) \in 0..(h.sh - 1)
         /\ Source(h, x, y) \in 0..(h.sw * h.sh - 1)
<1>1. h.sw \in Sizes /\ h.sh \in Sizes /\ h.dw \in Sizes /\ h.dh \in Sizes BY DEF GeometryType
<1>2. Scaled(x, Crop(h).width, h.dw) \in 0..(Crop(h).width - 1) BY <1>1, CropInside, ScaledInside
<1>3. Scaled(y, Crop(h).height, h.dh) \in 0..(Crop(h).height - 1) BY <1>1, CropInside, ScaledInside
<1>4. SourceX(h, x) \in 0..(h.sw - 1) BY <1>1, <1>2, CropInside DEF SourceX, Sizes
<1>5. SourceY(h, y) \in 0..(h.sh - 1) BY <1>1, <1>3, CropInside DEF SourceY, Sizes
<1>6. (SourceY(h, y) + 1) * h.sw <= h.sh * h.sw BY <1>1, <1>5, Monotonic DEF Sizes
<1> QED BY <1>1, <1>4, <1>5, <1>6 DEF Source, Sizes

\* An index is in the picture's part of row y exactly when its quotient by the
\* stride is y and its remainder a column: padding never wraps into a row.
LEMMA RowOfIndex ==
  ASSUME NEW stride \in Sizes, NEW i \in Nat, NEW y \in Nat, NEW dw \in Sizes, dw <= stride
  PROVE  /\ i \in (y * stride)..(y * stride + dw - 1) <=> i \div stride = y /\ i % stride < dw
         /\ i \div stride = y => i % stride = i - y * stride
<1> DEFINE q == i \div stride
<1>1. q \in Nat /\ stride * q <= i /\ i < stride * q + stride BY Quotient
<1>2. i % stride = i - stride * q /\ i % stride \in Nat BY <1>1 DEF Sizes
<1>3. y * stride \in Nat /\ y * stride = stride * y /\ stride * q \in Nat BY <1>1 DEF Sizes
<1>4. ASSUME i \in (y * stride)..(y * stride + dw - 1) PROVE q = y
  <2>1. y * stride <= i /\ i < y * stride + stride BY <1>3, <1>4 DEF Sizes
  <2>2. ~(y + 1 <= q)
    <3>1. ASSUME y + 1 <= q PROVE (y + 1) * stride <= q * stride
      BY <3>1, <1>1, Monotonic DEF Sizes
    <3>2. (y + 1) * stride = y * stride + stride /\ q * stride = stride * q BY <1>1 DEF Sizes
    <3> QED BY <3>1, <3>2, <2>1, <1>1, <1>3 DEF Sizes
  <2>3. ~(q + 1 <= y)
    <3>1. ASSUME q + 1 <= y PROVE (q + 1) * stride <= y * stride
      BY <3>1, <1>1, Monotonic DEF Sizes
    <3>2. (q + 1) * stride = stride * q + stride BY <1>1 DEF Sizes
    <3> QED BY <3>1, <3>2, <2>1, <1>1, <1>3 DEF Sizes
  <2> QED BY <2>2, <2>3, <1>1
<1> HIDE DEF q
<1>5. q = y => i % stride = i - y * stride BY <1>2, <1>3
<1>6. q = y /\ i % stride < dw => i \in (y * stride)..(y * stride + dw - 1)
  BY <1>2, <1>3, <1>5 DEF Sizes
<1>7. i \in (y * stride)..(y * stride + dw - 1) => i % stride < dw
  BY <1>3, <1>4, <1>5 DEF Sizes
<1> QED BY <1>4, <1>5, <1>6, <1>7 DEF q

\* processFrame samples inside the frame, for every jitter, tear and block size.
THEOREM SampledInside ==
  ASSUME NEW n \in Sizes, NEW i \in 0..(n - 1), NEW shift \in Int, NEW pixel \in Nat
  PROVE  Sampled(i, shift, n, pixel) \in 0..(n - 1)
<1>1. Held(i + shift, n) \in 0..(n - 1) BY DEF Held, Sizes
<1>2. CASE pixel > 1
  <2> DEFINE held == Held(i + shift, n)
  <2>1. held \in Nat /\ held \in 0..(n - 1) BY <1>1 DEF Sizes
  <2> HIDE DEF held
  <2>2. held \div pixel \in Nat /\ pixel * (held \div pixel) <= held BY <1>2, <2>1, Quotient DEF Sizes
  <2>3. pixel * (held \div pixel) \in Nat BY <2>2
  <2>4. held - (held % pixel) = pixel * (held \div pixel) BY <1>2, <2>1
  <2>5. Sampled(i, shift, n, pixel) = held - (held % pixel) BY <1>2 DEF Sampled, held
  <2> QED BY <2>1, <2>2, <2>3, <2>4, <2>5 DEF Sizes
<1>3. CASE ~(pixel > 1) BY <1>1, <1>3 DEF Sampled
<1> QED BY <1>2, <1>3

\* A common factor may be cancelled.
LEMMA Cancel ==
  ASSUME NEW n \in Sizes, NEW a \in Int, NEW b \in Int, n * a <= n * b
  PROVE  a <= b
<1> SUFFICES ASSUME a - b >= 1 PROVE FALSE
  OBVIOUS
<1>1. n * (a - b) = n * a - n * b /\ n * a \in Int /\ n * b \in Int BY DEF Sizes
<1>2. n * (a - b) >= n BY DEF Sizes
<1> QED BY <1>1, <1>2 DEF Sizes

\* Along one side a sample of a part that is kept, with equal margins but for an
\* odd pixel, is within two pixels of where the undistorted picture has it: the
\* three roundings, of the part, of its margin and of the sample, add up to that.
LEMMA SampleIsNear ==
  ASSUME NEW unit \in Sizes, NEW scale \in Sizes, NEW s \in Sizes, NEW d \in Sizes,
         NEW kept \in Nat, NEW margin \in Nat, NEW odd \in 0..1, 2 * margin = s - kept - odd,
         scale * d - unit * kept \in 0..(unit - 1), NEW i \in 0..(d - 1)
  PROVE  Near(margin + Scaled(i, kept, d), s * unit + (2 * i - d) * scale, unit)
<1> USE DEF Sizes
<1> DEFINE q == (i * kept) \div d
           e == scale * d - unit * kept
           f == i * kept - d * q
           off == q * unit - i * scale
           far == 2 * (margin + q) * unit - (s * unit + (2 * i - d) * scale)
<1>1. i \in Nat /\ i * kept \in Nat OBVIOUS
<1>2. q \in Nat /\ f \in 0..(d - 1)
  <2>1. q \in Nat /\ d * q <= i * kept /\ i * kept < d * q + d BY <1>1, Quotient
  <2>2. d * q \in Nat BY <2>1
  <2> QED BY <1>1, <2>1, <2>2
<1> HIDE DEF q
<1>3. e \in 0..(unit - 1) /\ off \in Int /\ far \in Int BY <1>2
<1>4. d * off = -(i * e) - unit * f BY <1>2
<1>5. far = e - odd * unit + 2 * off
  <2>1. 2 * margin * unit = (s - kept - odd) * unit OBVIOUS
  <2>2. far = 2 * margin * unit + 2 * q * unit - s * unit - 2 * i * scale + d * scale BY <1>2
  <2>3. (s - kept - odd) * unit = s * unit - unit * kept - odd * unit OBVIOUS
  <2> QED BY <1>2, <2>1, <2>2, <2>3
<1> HIDE DEF e, f, off, far
<1>6. /\ i * e \in Nat /\ unit * f \in Nat /\ d * e \in Nat /\ d * unit \in Nat
      /\ i * e <= d * e - e /\ unit * f <= d * unit - unit /\ d * e <= d * unit
      /\ odd * unit \in {0, unit}
  <2>1. i * e <= (d - 1) * e /\ f * unit <= (d - 1) * unit /\ e * d <= unit * d
    BY <1>2, <1>3, Monotonic
  <2>2. (d - 1) * e = d * e - e /\ (d - 1) * unit = d * unit - unit BY <1>3
  <2>3. i * e \in Nat /\ unit * f \in Nat /\ d * e \in Nat /\ d * unit \in Nat BY <1>2, <1>3
  <2>4. f * unit = unit * f /\ e * d = d * e /\ unit * d = d * unit BY <1>2, <1>3
  <2>5. odd * unit \in {0, unit} OBVIOUS
  <2> QED BY <2>1, <2>2, <2>3, <2>4, <2>5
<1>7. off <= 0
  <2>1. d * off <= d * 0 BY <1>3, <1>4, <1>6
  <2> QED BY <1>3, <2>1, Cancel
<1>8. -4 * unit <= far
  <2>1. d * far = d * e - d * (odd * unit) + 2 * (d * off) BY <1>3, <1>5, <1>6
  <2>2. d * (odd * unit) <= d * unit /\ d * (odd * unit) \in Int BY <1>6
  <2>3. d * (-4 * unit) = -4 * (d * unit) OBVIOUS
  <2>4. d * (-4 * unit) <= d * far BY <1>3, <1>4, <1>6, <2>1, <2>2, <2>3
  <2> QED BY <1>3, <2>4, Cancel
<1>9. far <= 4 * unit BY <1>3, <1>5, <1>6, <1>7
<1>10. 2 * (margin + q) * unit = far + (s * unit + (2 * i - d) * scale) BY <1>2 DEF far
<1>11. Scaled(i, kept, d) = q BY DEF Scaled, q
<1>12. s * unit + (2 * i - d) * scale \in Int OBVIOUS
<1> QED BY <1>3, <1>8, <1>9, <1>10, <1>11, <1>12 DEF Near

\* A side that is cut: what is kept is as much as the other side leaves room for,
\* and one pixel where that is none.
LEMMA CutIsNear ==
  ASSUME NEW unit \in Sizes, NEW scale \in Sizes, NEW s \in Sizes, NEW d \in Sizes,
         unit * s > d * scale, NEW i \in 0..(d - 1)
  PROVE  LET kept == AtLeastOne((scale * d) \div unit)
         IN  Near((s - kept) \div 2 + Scaled(i, kept, d), s * unit + (2 * i - d) * scale, unit)
<1> USE DEF Sizes
<1> DEFINE n == (scale * d) \div unit
           kept == AtLeastOne(n)
           margin == (s - kept) \div 2
           odd == s - kept - 2 * margin
<1>1. scale * d \in Nat /\ n \in Nat /\ unit * n <= scale * d /\ scale * d < unit * n + unit
  BY Quotient
<1>2. kept \in 1..s BY CutFits
<1> HIDE DEF n
<1> HIDE DEF kept
<1>3. margin \in Nat /\ odd \in 0..1 /\ 2 * margin = s - kept - odd
  <2>1. s - kept \in Nat /\ kept \in Nat BY <1>2
  <2>2. margin \in Nat /\ 2 * margin <= s - kept /\ s - kept < 2 * margin + 2 BY <2>1, Quotient
  <2> HIDE DEF margin
  <2> QED BY <2>1, <2>2
<1> HIDE DEF margin, odd
<1>4. CASE n >= 1
  <2>1. kept = n BY <1>1, <1>4 DEF kept, AtLeastOne
  <2>2. unit * kept \in Nat /\ scale * d - unit * kept \in 0..(unit - 1) BY <1>1, <2>1
  <2>3. Near(margin + Scaled(i, kept, d), s * unit + (2 * i - d) * scale, unit)
    <3>1. kept \in Nat BY <1>2
    <3> QED BY <1>3, <2>2, <3>1, SampleIsNear
  <2> QED BY <2>3 DEF margin, kept, n
<1>5. CASE n = 0
  <2>1. kept = 1 /\ scale * d < unit BY <1>1, <1>5 DEF kept, AtLeastOne
  <2>2. Scaled(i, kept, d) = 0 BY <2>1 DEF Scaled
  <2>3. 2 * margin * unit = s * unit - unit - odd * unit
    <3>1. 2 * margin * unit = (s - 1 - odd) * unit BY <1>3, <2>1
    <3>2. (s - 1 - odd) * unit = s * unit - unit - odd * unit BY <1>3
    <3> QED BY <3>1, <3>2
  <2>4. (2 * i - d) * scale = 2 * (i * scale) - scale * d OBVIOUS
  <2>5. i * scale \in Nat /\ i * scale <= scale * d
    <3>1. i * scale <= d * scale BY Monotonic
    <3>2. d * scale = scale * d OBVIOUS
    <3> QED BY <3>1, <3>2
  <2>6. odd * unit \in {0, unit} /\ s * unit \in Nat BY <1>3
  <2>7. Near(margin + 0, s * unit + (2 * i - d) * scale, unit)
    BY <1>1, <1>3, <2>1, <2>3, <2>4, <2>5, <2>6 DEF Near
  <2> QED BY <2>2, <2>7 DEF margin, kept, n
<1> QED BY <1>1, <1>4, <1>5

-----------------------------------------------------------------------------
(***************************************************************************)
(* The buffer at every moment: exactly the rows copied so far.  It is      *)
(* inductive, because each row is written once, where it belongs.          *)
(***************************************************************************)
Pixel(h, n, i) ==
  IF i % h.stride < h.dw /\ i \div h.stride < n THEN Source(h, i % h.stride, i \div h.stride) ELSE Stale
RowsInv ==
  /\ g \in Geometries /\ row \in 0..g.dh /\ (row > 0 => Accepts(g))
  /\ pixels = [i \in Buffer(g) |-> Pixel(g, row, i)]

LEMMA GeometriesTyped == ASSUME NEW h \in Geometries PROVE h \in GeometryType
BY RasterAssumption DEF GeometryType

LEMMA NoRowYet == ASSUME NEW h \in GeometryType PROVE Empty(h) = [i \in Buffer(h) |-> Pixel(h, 0, i)]
<1> SUFFICES ASSUME NEW i \in Buffer(h) PROVE Pixel(h, 0, i) = Stale BY DEF Empty
<1>1. h.stride \in Sizes /\ h.dh \in Sizes BY DEF GeometryType
<1>2. i \in Nat BY <1>1 DEF Buffer, Sizes
<1>3. ~(i \div h.stride < 0) BY <1>1, <1>2, Quotient
<1> QED BY <1>3 DEF Pixel

LEMMA OneMoreRow ==
  ASSUME NEW h \in GeometryType, h.stride >= h.dw, NEW n \in 0..(h.dh - 1), NEW i \in Buffer(h)
  PROVE  Pixel(h, n + 1, i) = IF i \in RowStart(h, n)..(RowStart(h, n) + h.dw - 1)
                              THEN Source(h, i - RowStart(h, n), n) ELSE Pixel(h, n, i)
<1>1. h.stride \in Sizes /\ h.dw \in Sizes /\ h.dh \in Sizes BY DEF GeometryType
<1>2. i \in Nat /\ n \in Nat BY <1>1 DEF Buffer, Sizes
<1>3. i \div h.stride \in Nat BY <1>1, <1>2, Quotient
<1>4. /\ i \in RowStart(h, n)..(RowStart(h, n) + h.dw - 1)
           <=> i \div h.stride = n /\ i % h.stride < h.dw
      /\ i \div h.stride = n => i % h.stride = i - RowStart(h, n)
  BY <1>1, <1>2, RowOfIndex DEF RowStart, Sizes
<1>5. i \div h.stride < n + 1 <=> i \div h.stride < n \/ i \div h.stride = n BY <1>2, <1>3
<1> QED BY <1>2, <1>3, <1>4, <1>5 DEF Pixel

LEMMA RowsInitially == CopyInit => RowsInv
BY NoRowYet, GeometriesTyped DEF CopyInit, RowsInv, GeometryType, Sizes

LEMMA RowsStep == RowsInv /\ [CopyNext]_copyVars => RowsInv'
<1> SUFFICES ASSUME RowsInv, [CopyNext]_copyVars PROVE RowsInv' OBVIOUS
<1>1. g \in GeometryType /\ g.dh \in Sizes BY GeometriesTyped DEF RowsInv, GeometryType
<1>2. CASE CopyRow
  <2>1. Accepts(g) /\ g.stride >= g.dw /\ row \in 0..(g.dh - 1)
    BY <1>1, <1>2 DEF CopyRow, Accepts, RowsInv, Sizes
  <2>2. pixels' = [i \in Buffer(g) |-> Pixel(g, row + 1, i)]
    BY <1>1, <1>2, <2>1, OneMoreRow DEF CopyRow, RowsInv
  <2> QED BY <1>1, <1>2, <2>1, <2>2 DEF CopyRow, RowsInv, Sizes
<1>3. CASE NextPost BY <1>1, <1>3, NoRowYet DEF NextPost, RowsInv, Sizes
<1>4. CASE UNCHANGED copyVars BY <1>4 DEF copyVars, RowsInv
<1> QED BY <1>2, <1>3, <1>4 DEF CopyNext

\* At every moment the buffer holds the rows copied so far, each at its stride,
\* and nothing else has been written.
THEOREM RowsAreWholeAlways == CopySpec => []RowsAreWhole
<1>1. RowsInv => RowsAreWhole
  <2> SUFFICES ASSUME RowsInv, NEW i \in Buffer(g)
               PROVE  pixels[i] = IF i % g.stride < g.dw /\ i \div g.stride < row
                                   THEN Source(g, i % g.stride, i \div g.stride) ELSE Stale
    BY DEF RowsAreWhole
  <2> QED BY DEF RowsInv, Pixel
<1> QED BY <1>1, RowsInitially, RowsStep, PTL DEF CopySpec

LEMMA RowsTyped == RowsInv => CopyTypeOK
<1> SUFFICES ASSUME RowsInv, NEW i \in Buffer(g)
             PROVE  Pixel(g, row, i) \in (0..(g.sw * g.sh - 1)) \union {Stale}
  BY DEF RowsInv, CopyTypeOK
<1>1. g \in GeometryType /\ g.stride \in Sizes /\ g.dw \in Sizes /\ g.dh \in Sizes
  BY GeometriesTyped DEF RowsInv, GeometryType
<1>2. i \in Nat BY <1>1 DEF Buffer, Sizes
<1>3. i \div g.stride \in Nat /\ i % g.stride \in Nat BY <1>1, <1>2, Quotient DEF Sizes
<1>4. CASE i % g.stride < g.dw /\ i \div g.stride < row
  <2>1. i % g.stride \in 0..(g.dw - 1) /\ i \div g.stride \in 0..(g.dh - 1)
    BY <1>1, <1>3, <1>4 DEF RowsInv, Sizes
  <2> QED BY <1>1, <1>4, <2>1, SourceInside DEF Pixel
<1>5. CASE ~(i % g.stride < g.dw /\ i \div g.stride < row) BY <1>5 DEF Pixel
<1> QED BY <1>4, <1>5

\* Every pixel of the buffer comes from inside the source, whatever the sizes.
THEOREM RasterTypes == CopySpec => []CopyTypeOK
BY RowsTyped, RowsInitially, RowsStep, PTL DEF CopySpec

\* A copied pixel with its place in the source.
LEMMA PlaceOf ==
  ASSUME NEW h \in GeometryType, NEW x \in 0..(h.dw - 1), NEW y \in 0..(h.dh - 1)
  PROVE  /\ Source(h, x, y) % h.sw = SourceX(h, x)
         /\ Source(h, x, y) \div h.sw = SourceY(h, y)
<1>1. h.sw \in Sizes /\ SourceX(h, x) \in 0..(h.sw - 1) /\ SourceY(h, y) \in Nat
  BY SourceInside DEF GeometryType
<1>2. SourceY(h, y) * h.sw \in Nat /\ Source(h, x, y) = SourceY(h, y) * h.sw + SourceX(h, x)
  BY <1>1 DEF Source, Sizes
<1>3. /\ Source(h, x, y) \in Nat
      /\ Source(h, x, y) \in (SourceY(h, y) * h.sw)..(SourceY(h, y) * h.sw + h.sw - 1)
  BY <1>1, <1>2 DEF Sizes
<1>4. /\ Source(h, x, y) \div h.sw = SourceY(h, y)
      /\ Source(h, x, y) % h.sw = Source(h, x, y) - SourceY(h, y) * h.sw
  <2>1. h.sw <= h.sw BY <1>1 DEF Sizes
  <2> QED BY <1>1, <1>3, <2>1, RowOfIndex
<1>5. Source(h, x, y) - SourceY(h, y) * h.sw = SourceX(h, x) BY <1>1, <1>2 DEF Sizes
<1> QED BY <1>4, <1>5

\* Where a cropped copy takes a pixel from, against where it should.
LEMMA CroppedIsNear ==
  ASSUME NEW h \in GeometryType, h.crop, NEW x \in 0..(h.dw - 1), NEW y \in 0..(h.dh - 1)
  PROVE  LET wide == h.dw * h.sh >= h.dh * h.sw
             scale == IF wide THEN h.sw ELSE h.sh
             unit == IF wide THEN h.dw ELSE h.dh
         IN  /\ Near(SourceX(h, x), h.sw * unit + (2 * x - h.dw) * scale, unit)
             /\ Near(SourceY(h, y), h.sh * unit + (2 * y - h.dh) * scale, unit)
<1>1. h.sw \in Sizes /\ h.sh \in Sizes /\ h.dw \in Sizes /\ h.dh \in Sizes BY DEF GeometryType
<1>2. ASSUME NEW s \in Sizes, NEW d \in Sizes, NEW unit \in Sizes, NEW scale \in Sizes,
             scale * d = unit * s, NEW i \in 0..(d - 1)
      PROVE  Near(0 + Scaled(i, s, d), s * unit + (2 * i - d) * scale, unit)
  <2>1. scale * d - unit * s = 0 /\ s \in Nat BY <1>2 DEF Sizes
  <2>2. scale * d - unit * s \in 0..(unit - 1) /\ 2 * 0 = s - s - 0 /\ 0 \in 0..1 BY <2>1 DEF Sizes
  <2> QED BY <1>2, <2>1, <2>2, SampleIsNear
<1>3. /\ Scaled(x, h.sw, h.dw) \in Nat /\ Scaled(y, h.sh, h.dh) \in Nat
      /\ h.sw * h.dw = h.dw * h.sw /\ h.sh * h.dh = h.dh * h.sh
  <2>1. Scaled(x, h.sw, h.dw) \in 0..(h.sw - 1) BY <1>1, ScaledInside
  <2>2. Scaled(y, h.sh, h.dh) \in 0..(h.sh - 1) BY <1>1, ScaledInside
  <2> QED BY <1>1, <2>1, <2>2 DEF Sizes
<1>4. CASE h.dw * h.sh > h.dh * h.sw
  <2> DEFINE kept == AtLeastOne((h.sw * h.dh) \div h.dw)
  <2>1. /\ Crop(h).left = 0 /\ Crop(h).width = h.sw /\ Crop(h).height = kept
        /\ Crop(h).top = (h.sh - kept) \div 2
    <3>1. Crop(h) = [Whole(h) EXCEPT !.height = kept, !.top = (h.sh - kept) \div 2]
      BY <1>1, <1>4 DEF Crop, CenterCrop, Sizes
    <3> HIDE DEF kept
    <3> QED BY <3>1 DEF Whole
  <2>2. Near(Scaled(x, h.sw, h.dw), h.sw * h.dw + (2 * x - h.dw) * h.sw, h.dw)
    BY <1>1, <1>2, <1>3
  <2>3. Near((h.sh - kept) \div 2 + Scaled(y, kept, h.dh), h.sh * h.dw + (2 * y - h.dh) * h.sw, h.dw)
    BY <1>1, <1>4, CutIsNear
  <2>4. SourceX(h, x) = Scaled(x, h.sw, h.dw) BY <1>3, <2>1 DEF SourceX
  <2>5. h.dw * h.sh >= h.dh * h.sw BY <1>1, <1>4 DEF Sizes
  <2> QED BY <2>1, <2>2, <2>3, <2>4, <2>5 DEF SourceY
<1>5. CASE h.dw * h.sh < h.dh * h.sw
  <2> DEFINE kept == AtLeastOne((h.sh * h.dw) \div h.dh)
  <2>0. ~(h.dw * h.sh >= h.dh * h.sw) /\ ~(h.dw * h.sh > h.dh * h.sw) BY <1>1, <1>5 DEF Sizes
  <2>1. /\ Crop(h).top = 0 /\ Crop(h).height = h.sh /\ Crop(h).width = kept
        /\ Crop(h).left = (h.sw - kept) \div 2
    <3>1. Crop(h) = [Whole(h) EXCEPT !.width = kept, !.left = (h.sw - kept) \div 2]
      BY <1>5, <2>0 DEF Crop, CenterCrop
    <3> HIDE DEF kept
    <3> QED BY <3>1 DEF Whole
  <2>2. Near(Scaled(y, h.sh, h.dh), h.sh * h.dh + (2 * y - h.dh) * h.sh, h.dh)
    BY <1>1, <1>2, <1>3
  <2>3. Near((h.sw - kept) \div 2 + Scaled(x, kept, h.dw), h.sw * h.dh + (2 * x - h.dw) * h.sh, h.dh)
    <3>1. h.dh * h.sw > h.dw * h.sh BY <1>1, <1>5 DEF Sizes
    <3> QED BY <1>1, <3>1, CutIsNear
  <2>4. SourceY(h, y) = Scaled(y, h.sh, h.dh) BY <1>3, <2>1 DEF SourceY
  <2> QED BY <2>0, <2>1, <2>2, <2>3, <2>4 DEF SourceX
<1>6. CASE h.dw * h.sh = h.dh * h.sw
  <2>0. h.dw * h.sh >= h.dh * h.sw /\ ~(h.dw * h.sh > h.dh * h.sw) /\ ~(h.dw * h.sh < h.dh * h.sw)
    BY <1>1, <1>6 DEF Sizes
  <2>1. Crop(h) = Whole(h) BY <2>0 DEF Crop, CenterCrop
  <2>2. SourceX(h, x) = Scaled(x, h.sw, h.dw) /\ SourceY(h, y) = Scaled(y, h.sh, h.dh)
    BY <1>3, <2>1 DEF SourceX, SourceY, Whole
  <2>3. Near(Scaled(x, h.sw, h.dw), h.sw * h.dw + (2 * x - h.dw) * h.sw, h.dw)
    BY <1>1, <1>2, <1>3
  <2>4. Near(Scaled(y, h.sh, h.dh), h.sh * h.dw + (2 * y - h.dh) * h.sw, h.dw)
    <3>1. h.sw * h.dh = h.dw * h.sh BY <1>1, <1>6 DEF Sizes
    <3> QED BY <1>1, <1>2, <1>3, <3>1
  <2> QED BY <2>0, <2>2, <2>3, <2>4
<1>7. h.dw * h.sh \in Int /\ h.dh * h.sw \in Int BY <1>1 DEF Sizes
<1> QED BY <1>4, <1>5, <1>6, <1>7

LEMMA RowsCentered == RowsInv => IsCentered
<1> SUFFICES ASSUME RowsInv, g.crop, row > 0, NEW x \in 0..(g.dw - 1)
             PROVE  LET s == pixels[RowStart(g, row - 1) + x]
                        y == row - 1
                        wide == g.dw * g.sh >= g.dh * g.sw
                        scale == IF wide THEN g.sw ELSE g.sh
                        unit == IF wide THEN g.dw ELSE g.dh
                    IN /\ Near(s % g.sw, g.sw * unit + (2 * x - g.dw) * scale, unit)
                       /\ Near(s \div g.sw, g.sh * unit + (2 * y - g.dh) * scale, unit)
  BY DEF IsCentered
<1> DEFINE y == row - 1
           i == RowStart(g, y) + x
<1>1. /\ g \in GeometryType /\ g.stride \in Sizes /\ g.dw \in Sizes /\ g.dh \in Sizes
      /\ g.dw <= g.stride
  BY GeometriesTyped DEF RowsInv, GeometryType, Accepts, Sizes
<1>2. y \in 0..(g.dh - 1) /\ y < row BY <1>1 DEF RowsInv, Sizes
<1> HIDE DEF y
<1>3. /\ y * g.stride \in Nat /\ i = y * g.stride + x /\ i \in Nat
      /\ i \in (y * g.stride)..(y * g.stride + g.dw - 1)
  BY <1>1, <1>2 DEF RowStart, Sizes
<1> HIDE DEF i
<1>4. i \div g.stride = y /\ i % g.stride = x
  <2>1. y \in Nat BY <1>1, <1>2 DEF Sizes
  <2>2. i \div g.stride = y /\ i % g.stride = i - y * g.stride BY <1>1, <1>3, <2>1, RowOfIndex
  <2>3. i - y * g.stride = x BY <1>1, <1>3 DEF Sizes
  <2> QED BY <2>2, <2>3
<1>5. i \in Buffer(g)
  <2>1. (y + 1) * g.stride <= g.dh * g.stride BY <1>1, <1>2, Monotonic DEF Sizes
  <2>2. (y + 1) * g.stride = y * g.stride + g.stride /\ g.dh * g.stride = g.stride * g.dh
    BY <1>1, <1>2 DEF Sizes
  <2>3. g.stride * g.dh \in Nat BY <1>1 DEF Sizes
  <2> QED BY <1>1, <1>3, <2>1, <2>2, <2>3 DEF Buffer, Sizes
<1>6. pixels[i] = Source(g, x, y)
  BY <1>1, <1>2, <1>4, <1>5 DEF RowsInv, Pixel, Sizes
<1>7. pixels[i] % g.sw = SourceX(g, x) /\ pixels[i] \div g.sw = SourceY(g, y)
  BY <1>1, <1>2, <1>6, PlaceOf
<1> QED BY <1>1, <1>2, <1>7, CroppedIsNear DEF i, y

\* README.md's "center-crop scaled", for every size of picture and buffer: each
\* pixel of a cropped row shows one within two pixels of the centred,
\* undistorted picture that fills the buffer.
THEOREM CroppedPictureIsCentered == CopySpec => []IsCentered
BY RowsCentered, RowsInitially, RowsStep, PTL DEF CopySpec

-----------------------------------------------------------------------------
(***************************************************************************)
(* PixelFilter.  A look is a preset as the quick controls leave it; a pass *)
(* takes any colour of integers to another, and posterizing brings it back *)
(* into the range that the feedback needs.                                 *)
(***************************************************************************)
LookType(motion) ==
  [id : STRING, category : STRING, flags : SUBSET STRING, tint : [Channels -> Nat],
   saturation : Int, contrast : -100..100, posterize : 2..15, noise : 0..100, pixelSize : Nat,
   temporal : 0..motion]
AdjustmentType == [contrast : -40..40, grain : -20..20, motion : -30..30]
SubjectType == [in : Colour, gradient : Nat]
PlaceType == Nat \X Nat
Passing == [Channels -> Int]

LEMMA AdjustedIsLook ==
  ASSUME NEW p \in LookType(48), NEW a \in AdjustmentType
  PROVE  Adjusted(p, a) \in LookType(78)
<1> DEFINE c == Clamp(p.contrast + a.contrast, -100, 100)
           n == Clamp(p.noise + a.grain, 0, 100)
           t == Clamp(p.temporal + a.motion, 0, 100)
<1>1. c \in -100..100 /\ n \in 0..100 /\ t \in 0..78 BY DEF LookType, AdjustmentType, Clamp
<1>2. Adjusted(p, a) = [p EXCEPT !.contrast = c, !.noise = n, !.temporal = t]
  BY DEF Adjusted, LookType
<1> HIDE DEF c, n, t
<1>3. Adjusted(p, a) = [id |-> p.id, category |-> p.category, flags |-> p.flags, tint |-> p.tint,
                        saturation |-> p.saturation, contrast |-> c, posterize |-> p.posterize,
                        noise |-> n, pixelSize |-> p.pixelSize, temporal |-> t]
  BY <1>2 DEF LookType
<1> QED BY <1>1, <1>3 DEF LookType

\* Truncating division of an integer is one.
LEMMA QuotInt == ASSUME NEW a \in Int, NEW b \in Nat \ {0} PROVE Quot(a, b) \in Int
BY DEF Quot

LEMMA LumaInt == ASSUME NEW c \in Passing PROVE luma(c) \in Int
BY DEF luma, Channels, Passing

LEMMA GreyPasses == ASSUME NEW v \in Int PROVE Grey(v) \in Passing
BY DEF Grey, Channels, Passing

LEMMA GradedPasses ==
  ASSUME NEW p \in LookType(78), NEW amount \in 0..100, NEW c \in Passing
  PROVE  Graded(c, p, amount) \in Passing
<1>1. p.saturation \in Int /\ p.contrast \in Int /\ \A i \in Channels : p.tint[i] \in Int
  BY DEF LookType
<1>2. luma(c) \in Int BY LumaInt
<1> SUFFICES ASSUME NEW i \in Channels
             PROVE  LET v == luma(c) + Quot((c[i] - luma(c)) * (100 + Quot(p.saturation * amount, 100)), 100)
                        t == Quot(v * (100 + Quot((p.tint[i] - 100) * amount, 100)), 100)
                    IN 128 + Quot((t - 128) * (100 + Quot(p.contrast * amount, 100)), 100) \in Int
  BY DEF Graded, Passing
<1> DEFINE v == luma(c) + Quot((c[i] - luma(c)) * (100 + Quot(p.saturation * amount, 100)), 100)
           t == Quot(v * (100 + Quot((p.tint[i] - 100) * amount, 100)), 100)
<1>3. c[i] \in Int BY DEF Passing
<1>4. v \in Int
  <2>1. p.saturation * amount \in Int BY <1>1
  <2>2. Quot(p.saturation * amount, 100) \in Int BY <2>1, QuotInt
  <2>3. Quot((c[i] - luma(c)) * (100 + Quot(p.saturation * amount, 100)), 100) \in Int
    BY <1>2, <1>3, <2>2, QuotInt
  <2> QED BY <1>2, <2>3
<1> HIDE DEF v
<1>5. t \in Int
  <2>1. (p.tint[i] - 100) * amount \in Int BY <1>1
  <2>2. Quot((p.tint[i] - 100) * amount, 100) \in Int BY <2>1, QuotInt
  <2> QED BY <1>4, <2>2, QuotInt
<1> HIDE DEF t
<1>6. Quot(p.contrast * amount, 100) \in Int BY <1>1, QuotInt
<1>7. Quot((t - 128) * (100 + Quot(p.contrast * amount, 100)), 100) \in Int BY <1>5, <1>6, QuotInt
<1> QED BY <1>7 DEF t, v

LEMMA RemappedPasses ==
  ASSUME NEW p \in LookType(78), NEW s \in SubjectType, NEW c \in Passing
  PROVE  Remapped(c, p, s) \in Passing
<1>1. s.in \in Passing /\ s.gradient \in Int BY DEF SubjectType, Colour, Passing
<1>2. luma(s.in) \in Int BY <1>1, LumaInt
<1>3. Mono(c, p) \in Passing
  <2> SUFFICES ASSUME NEW i \in Channels PROVE Quot(luma(c) * p.tint[i], 100) \in Int
    BY DEF Mono, Passing
  <2>1. luma(c) \in Int /\ p.tint[i] \in Int BY LumaInt DEF LookType
  <2> QED BY <2>1, QuotInt
<1>4. ASSUME NEW v \in Int PROVE Thermal(v) \in Passing
  BY DEF Thermal, Clamp8, Clamp, Abs, Channels, Passing
<1>5. ASSUME NEW d \in Passing PROVE Outlined(d, p.flags, s.gradient) \in Passing
  BY <1>1, GreyPasses DEF Outlined, Clamp8, Clamp, Each, Passing
<1>6. ASSUME NEW d \in Passing, NEW v \in Int PROVE Cga(d, v) \in Passing
  BY GreyPasses DEF Cga, Black, Magenta, Cyan, White, Passing, Channels
<1> QED BY <1>2, <1>3, <1>4, <1>5, <1>6 DEF Remapped

LEMMA TexturedPasses ==
  ASSUME NEW p \in LookType(78), NEW s \in SubjectType, NEW xy \in PlaceType, NEW c \in Passing
  PROVE  Textured(c, p, s, xy) \in Passing
<1>1. luma(s.in) \in Int
  <2>1. s.in \in Passing BY DEF SubjectType, Colour, Passing
  <2> QED BY <2>1, LumaInt
<1>2. Dithered(c, xy) \in Passing
  <2>1. xy[1] \in Nat /\ xy[2] \in Nat BY DEF PlaceType
  <2>2. (xy[2] % 4) * 4 + (xy[1] % 4) + 1 \in 1..16 BY <2>1
  <2>3. \A k \in 1..16 : bayer[k] \in Int BY DEF bayer
  <2> QED BY <2>2, <2>3 DEF Dithered, Each, Passing
<1>3. ASSUME NEW d \in Passing PROVE Halftone(d, luma(s.in), Cell(p, 3), xy) \in Passing
  <2> DEFINE light == <<Clamp8(d[1] + 70), Clamp8(d[2] + 68), Clamp8(d[3] + 60)>>
  <2>1. light \in Passing BY <1>3 DEF Clamp8, Clamp, Passing, Channels
  <2>2. Grey(18) \in Passing BY GreyPasses
  <2>3. Halftone(d, luma(s.in), Cell(p, 3), xy) \in {Grey(18), light} BY DEF Halftone
  <2> QED BY <2>1, <2>2, <2>3
<1>4. ASSUME NEW d \in Passing PROVE Ascii(d, luma(s.in), Cell(p, 4), xy) \in Passing
  <2>1. \A i \in Channels : Quot(d[i] * 28, 100) \in Int BY QuotInt DEF Passing
  <2> QED BY <2>1 DEF Ascii, Each, Passing
<1> QED BY <1>2, <1>3, <1>4 DEF Textured

\* The tone of a channel: one of n, and inside the byte.
Tone(k, n) == (k * 255) \div (n - 1)
LEMMA ToneInside == ASSUME NEW n \in 2..15, NEW k \in 0..(n - 1) PROVE Tone(k, n) \in 0..255
BY DEF Tone
LEMMA OneOfTheTones ==
  ASSUME NEW n \in 2..15, NEW v \in Int
  PROVE  \E k \in 0..(n - 1) : (((Clamp8(v) * (n - 1)) \div 255) * 255) \div (n - 1) = Tone(k, n)
<1>1. (Clamp8(v) * (n - 1)) \div 255 \in 0..(n - 1) BY DEF Clamp8, Clamp
<1> QED BY <1>1 DEF Tone

\* What is mixed with the previous frame has the tones of the preset.
LEMMA DevelopedInTones ==
  ASSUME NEW p \in LookType(78), NEW amount \in 0..100, NEW s \in SubjectType,
         NEW xy \in PlaceType, NEW i \in Channels
  PROVE  /\ Developed(p, amount, s, xy)[i] \in 0..255
         /\ \E k \in 0..(p.posterize - 1) : Developed(p, amount, s, xy)[i] = Tone(k, p.posterize)
<1>1. s.in \in Passing BY DEF SubjectType, Colour, Passing
<1>2. Remapped(Graded(s.in, p, amount), p, s) \in Passing BY <1>1, GradedPasses, RemappedPasses
<1> DEFINE t == Textured(Remapped(Graded(s.in, p, amount), p, s), p, s, xy)
<1>3. t \in Passing BY <1>2, TexturedPasses
<1> HIDE DEF t
<1>4. p.posterize \in 2..15 BY DEF LookType
<1>5. Posterized(t, p)[i] = (((Clamp8(t[i]) * (p.posterize - 1)) \div 255) * 255) \div (p.posterize - 1)
  BY <1>4 DEF Posterized, Each
<1>6. t[i] \in Int BY <1>3 DEF Passing
<1>7. \E k \in 0..(p.posterize - 1) : Posterized(t, p)[i] = Tone(k, p.posterize)
  BY <1>4, <1>5, <1>6, OneOfTheTones
<1>8. Developed(p, amount, s, xy) = Posterized(t, p) BY DEF Developed, Toned, t
<1>9. \A k \in 0..(p.posterize - 1) : Tone(k, p.posterize) \in 0..255 BY <1>4, ToneInside
<1> QED BY <1>7, <1>8, <1>9

\* The share of the previous frame, the bloom and the grain of a look.
LEMMA ShareBounds ==
  ASSUME NEW p \in LookType(78), NEW amount \in 0..100
  PROVE  Share(p, amount) \in 0..78
<1>1. p.temporal \in 0..78 BY DEF LookType
<1>2. p.temporal * amount <= 78 * amount BY <1>1, Monotonic
<1>3. p.temporal * amount \in Nat /\ p.temporal * amount <= 7800 BY <1>1, <1>2
<1>4. Quot(p.temporal * amount, 100) \in 0..78 BY <1>3 DEF Quot
<1> QED BY <1>4 DEF Share

LEMMA LiftBounds ==
  ASSUME NEW p, NEW amount \in 0..100, NEW s \in SubjectType
  PROVE  Lift(p, amount, s) \in Nat
<1>1. s.in \in Passing BY DEF SubjectType, Colour, Passing
<1>2. luma(s.in) \in Int BY <1>1, LumaInt
<1>3. ASSUME luma(s.in) > 185 PROVE Quot((luma(s.in) - 185) * amount, 250) \in Nat
  <2>1. luma(s.in) - 185 \in Nat BY <1>2, <1>3
  <2>2. (luma(s.in) - 185) * amount \in Nat BY <2>1
  <2> QED BY <2>2 DEF Quot
<1> QED BY <1>3 DEF Lift

LEMMA NoiseBounds ==
  ASSUME NEW p \in LookType(78), NEW amount \in 0..100, NEW n \in -128..127
  PROVE  /\ Noise(p, amount, 128) \in Nat
         /\ Noise(p, amount, n) \in (-Noise(p, amount, 128))..Noise(p, amount, 128)
<1> DEFINE x == p.noise * amount
<1>1. p.noise \in 0..100 BY DEF LookType
<1>2. x \in Nat BY <1>1
<1>3. n * p.noise * amount = n * x /\ 128 * p.noise * amount = 128 * x BY <1>1
<1> HIDE DEF x
<1>4. n * x \in Int /\ n * x <= 128 * x /\ -(n * x) <= 128 * x
  <2>1. (128 - n) * x >= 0 /\ (128 + n) * x >= 0 BY <1>2
  <2> QED BY <1>2, <2>1
<1> DEFINE high == 128 * x
           v == n * x
<1>5. high \in Nat /\ v \in Int /\ v <= high /\ -v <= high BY <1>2, <1>4
<1>6. Noise(p, amount, 128) = Quot(high, 12800) /\ Noise(p, amount, n) = Quot(v, 12800)
  BY <1>3 DEF Noise
<1> HIDE DEF high, v
<1> QED BY <1>5, <1>6 DEF Quot

Histories == Colour \union {NoHistory}
Mix(p, amount, previous) == IF previous = NoHistory THEN 0 ELSE Share(p, amount)
Mixed(d, mix, old) == IF mix = 0 THEN d ELSE Quot(d * (100 - mix) + old * mix, 100)

\* A frame that the filter may be handed.
IsFrame(p, amount, s, xy, previous, n) ==
  /\ p \in LookType(78) /\ amount \in 0..100 /\ s \in SubjectType /\ xy \in PlaceType
  /\ previous \in Histories /\ n \in -128..127

\* One channel of a frame.
LEMMA FrameChannel ==
  ASSUME NEW p, NEW amount, NEW s, NEW xy, NEW previous, NEW n, NEW i \in Channels,
         IsFrame(p, amount, s, xy, previous, n)
  PROVE  /\ Mixed(Developed(p, amount, s, xy)[i], Mix(p, amount, previous), previous[i]) \in Int
         /\ processFrame(p, amount, s, xy, previous, n)[i] =
              Clamp8(Mixed(Developed(p, amount, s, xy)[i], Mix(p, amount, previous), previous[i])
                     + Lift(p, amount, s) + Noise(p, amount, n))
<1> DEFINE d == Developed(p, amount, s, xy)[i]
           mix == Mix(p, amount, previous)
<1>1. d \in 0..255 BY DevelopedInTones DEF IsFrame
<1>2. mix \in 0..78 BY ShareBounds DEF Mix, IsFrame
<1>3. CASE mix = 0 BY <1>1, <1>3 DEF Mixed, processFrame, Mix
<1>4. CASE mix # 0
  <2>1. previous[i] \in 0..255 BY <1>4 DEF Histories, Mix, Colour, IsFrame
  <2> HIDE DEF d, mix
  <2>2. d * (100 - mix) + previous[i] * mix \in Int
    <3>1. d \in Int /\ mix \in Int /\ 100 - mix \in Int /\ previous[i] \in Int BY <1>1, <1>2, <2>1
    <3>2. \A j, k \in Int : j * k \in Int /\ j + k \in Int OBVIOUS
    <3> QED BY <3>1, <3>2, Zenon
  <2>3. Mixed(d, mix, previous[i]) \in Int BY <1>4, <2>2, QuotInt DEF Mixed
  <2> USE DEF d, mix
  <2> QED BY <1>4, <2>3 DEF Mixed, processFrame, Mix
<1> QED BY <1>3, <1>4

LEMMA FrameFits ==
  ASSUME NEW p \in LookType(78), NEW amount \in 0..100, NEW s \in SubjectType,
         NEW xy \in PlaceType, NEW previous \in Histories, NEW n \in -128..127
  PROVE  processFrame(p, amount, s, xy, previous, n) \in Colour
<1>1. ASSUME NEW i \in Channels PROVE processFrame(p, amount, s, xy, previous, n)[i] \in 0..255
  <2> DEFINE v == Mixed(Developed(p, amount, s, xy)[i], Mix(p, amount, previous), previous[i])
                  + Lift(p, amount, s) + Noise(p, amount, n)
  <2>1. Lift(p, amount, s) \in Int
    <3>1. Lift(p, amount, s) \in Nat BY LiftBounds
    <3> QED BY <3>1
  <2>2. Noise(p, amount, n) \in Int
    <3>1. /\ Noise(p, amount, 128) \in Nat
          /\ Noise(p, amount, n) \in (-Noise(p, amount, 128))..Noise(p, amount, 128)
      BY NoiseBounds
    <3> QED BY <3>1
  <2>3. /\ Mixed(Developed(p, amount, s, xy)[i], Mix(p, amount, previous), previous[i]) \in Int
        /\ processFrame(p, amount, s, xy, previous, n)[i] = Clamp8(v)
    <3>1. IsFrame(p, amount, s, xy, previous, n) BY DEF IsFrame
    <3> QED BY <1>1, <3>1, FrameChannel
  <2>4. v \in Int BY <2>1, <2>2, <2>3
  <2> HIDE DEF v
  <2> QED BY <2>3, <2>4 DEF Clamp8, Clamp
<1>2. processFrame(p, amount, s, xy, previous, n)
        = [i \in Channels |-> processFrame(p, amount, s, xy, previous, n)[i]]
  BY DEF processFrame
<1> QED BY <1>1, <1>2, Zenon DEF Colour

\* A look without bloom, grain and a share of the previous frame shows its tones.
LEMMA FrameInTones ==
  ASSUME NEW p, NEW amount, NEW s, NEW xy, NEW previous, NEW n, NEW i \in Channels,
         IsFrame(p, amount, s, xy, previous, n),
         Share(p, amount) = 0, Lift(p, amount, s) = 0, Noise(p, amount, n) = 0
  PROVE  \E k \in 0..(p.posterize - 1) : processFrame(p, amount, s, xy, previous, n)[i] = Tone(k, p.posterize)
<1> DEFINE d == Developed(p, amount, s, xy)[i]
<1>1. Mix(p, amount, previous) = 0 BY DEF Mix
<1>2. d \in 0..255 /\ \E k \in 0..(p.posterize - 1) : d = Tone(k, p.posterize)
  <2>1. p \in LookType(78) /\ amount \in 0..100 /\ s \in SubjectType /\ xy \in PlaceType
    BY DEF IsFrame
  <2>2. d \in 0..255 BY <2>1, DevelopedInTones
  <2>3. \E k \in 0..(p.posterize - 1) : d = Tone(k, p.posterize) BY <2>1, DevelopedInTones, ZenonT(30)
  <2> QED BY <2>2, <2>3
<1>3. processFrame(p, amount, s, xy, previous, n)[i]
        = Clamp8(Mixed(d, Mix(p, amount, previous), previous[i])
                 + Lift(p, amount, s) + Noise(p, amount, n))
  BY FrameChannel
<1> HIDE DEF d
<1>4. Mixed(d, 0, previous[i]) = d BY DEF Mixed
<1>5. processFrame(p, amount, s, xy, previous, n)[i] = Clamp8(d + 0 + 0)
  BY <1>1, <1>3, <1>4, Zenon
<1>6. Clamp8(d + 0 + 0) = d BY <1>2 DEF Clamp8, Clamp
<1> QED BY <1>2, <1>5, <1>6, Zenon

LEMMA NoneOfIt ==
  ASSUME NEW n \in Int, NEW amount \in Int, NEW z \in 0..0 PROVE Quot(n * z * amount, 12800) = 0
<1>1. n * z * amount = 0
  <2>1. z = 0 /\ n * 0 * amount = 0 OBVIOUS
  <2> QED BY <2>1
<1> QED BY <1>1 DEF Quot

LEMMA NoGrain ==
  ASSUME NEW p, NEW amount \in Int, NEW n \in Int, p.noise \in 0..0
  PROVE  Noise(p, amount, n) = 0
BY NoneOfIt DEF Noise

-----------------------------------------------------------------------------
\* A fading trail, one channel: the old value counts for 78 hundredths at most.
LEMMA MixedInside ==
  ASSUME NEW d \in 0..255, NEW mix \in 0..78, NEW old \in 0..255
  PROVE  LET v == Mixed(d, mix, old)
         IN  /\ v \in Int
             /\ old >= d => d <= v /\ 100 * v <= 100 * old - 22 * (old - d)
             /\ old <= d => v <= d /\ 100 * v + 100 > 100 * old + 22 * (d - old)
<1> DEFINE num == d * (100 - mix) + old * mix
<1>1. d * (100 - mix) = 100 * d - d * mix /\ d * mix \in Nat /\ old * mix \in Nat OBVIOUS
<1>2. num \in Nat /\ num = 100 * d - d * mix + old * mix BY <1>1
<1>3. ASSUME old >= d PROVE 100 * d <= num /\ num <= 100 * old - 22 * (old - d)
  <2>1. old - d \in Nat BY <1>3
  <2>2. (old - d) * mix \in 0..((old - d) * 78) BY <2>1
  <2>3. (old - d) * mix = old * mix - d * mix OBVIOUS
  <2> QED BY <1>1, <1>2, <2>1, <2>2, <2>3
<1>4. ASSUME old <= d PROVE num <= 100 * d /\ num >= 100 * old + 22 * (d - old)
  <2>1. d - old \in Nat BY <1>4
  <2>2. (d - old) * mix \in 0..((d - old) * 78) BY <2>1
  <2>3. (d - old) * mix = d * mix - old * mix OBVIOUS
  <2> QED BY <1>1, <1>2, <2>1, <2>2, <2>3
<1> HIDE DEF num
<1>5. CASE mix = 0
  <2>1. Mixed(d, mix, old) = d BY <1>5 DEF Mixed
  <2> QED BY <2>1
<1>6. CASE mix # 0
  <2> DEFINE v == num \div 100
  <2>1. v \in Nat /\ 100 * v <= num /\ num < 100 * v + 100 BY <1>2
  <2>2. Mixed(d, mix, old) = v BY <1>2, <1>6 DEF Mixed, Quot, num
  <2> HIDE DEF v
  <2> QED BY <1>2, <1>3, <1>4, <2>1, <2>2
<1> QED BY <1>5, <1>6

Blends(d, mix, old, lift, most, noise) ==
  /\ d \in 0..255 /\ mix \in 0..78 /\ old \in 0..255
  /\ lift \in Nat /\ most \in Nat /\ noise \in (-most)..most
LEMMA ChannelDecays ==
  ASSUME NEW d, NEW mix, NEW old, NEW lift, NEW most, NEW noise,
         Blends(d, mix, old, lift, most, noise)
  PROVE  LET new == Clamp8(Mixed(d, mix, old) + lift + noise)
         IN  /\ old - d > Echo * (lift + most + 1) => new < old
             /\ d - old > Echo * (most + 1) => new > old \/ new = 255
             /\ old >= d => new >= Clamp8(d + lift - most)
             /\ old <= d => new <= Clamp8(d + lift + most)
<1> DEFINE v == Mixed(d, mix, old)
<1>1. /\ v \in Int
      /\ old >= d => d <= v /\ 100 * v <= 100 * old - 22 * (old - d)
      /\ old <= d => v <= d /\ 100 * v + 100 > 100 * old + 22 * (d - old)
  BY MixedInside DEF Blends
<1> HIDE DEF v
<1>2. /\ noise \in Int /\ noise <= most /\ -most <= noise
      /\ d \in 0..255 /\ old \in 0..255 /\ lift \in Nat /\ most \in Nat
  BY DEF Blends
<1>3. old - d > 5 * (lift + most + 1) => Clamp8(v + lift + noise) < old
  BY <1>1, <1>2 DEF Clamp8, Clamp
<1>4. d - old > 5 * (most + 1) => Clamp8(v + lift + noise) > old \/ Clamp8(v + lift + noise) = 255
  BY <1>1, <1>2 DEF Clamp8, Clamp
<1>5. old >= d => Clamp8(v + lift + noise) >= Clamp8(d + lift - most)
  BY <1>1, <1>2 DEF Clamp8, Clamp
<1>6. old <= d => Clamp8(v + lift + noise) <= Clamp8(d + lift + most)
  BY <1>1, <1>2 DEF Clamp8, Clamp
<1> QED BY <1>3, <1>4, <1>5, <1>6 DEF Echo, v

\* The vignette over the picture: corners keep 75 hundredths, and the rows that
\* are also scan lines are one off the edge.
LEMMA ShadeBounds ==
  ASSUME NEW x \in 0..(kFrameWidth - 1), NEW y \in 0..(kFrameHeight - 1)
  PROVE  Shade(<<x, y>>) \in 75..100 /\ (y % 2 = 1 => Shade(<<x, y>>) >= 76)
<1> DEFINE dx == x * 2 - 80
           dy == y * 2 - 60
           across == dx * dx
           down == dy * dy
           n == (across + down) * 35
<1>1. dx \in -80..80 /\ dy \in -60..60 /\ (y % 2 = 1 => dy \in -58..58)
  BY DEF kFrameWidth, kFrameHeight
<1>2. Shade(<<x, y>>) = Clamp(110 - Quot(n, 10000), 65, 100)
  BY DEF Shade, kFrameWidth, kFrameHeight
<1> HIDE DEF dx, dy
<1>3. across \in 0..6400 /\ down \in 0..3600 /\ (y % 2 = 1 => down <= 3364)
  <2>1. dx * dx \in 0..6400 BY <1>1
  <2>2. dy * dy \in 0..3600 BY <1>1
  <2>3. dy \in -58..58 => dy * dy <= 3364 OBVIOUS
  <2> QED BY <1>1, <2>1, <2>2, <2>3, SMTT(20)
<1> HIDE DEF across, down
<1>4. n \in Nat /\ n <= 350000 /\ (y % 2 = 1 => n <= 341740) BY <1>3
<1> HIDE DEF n
<1> QED BY <1>2, <1>4 DEF Clamp, Quot

-----------------------------------------------------------------------------
(***************************************************************************)
(* The filter: what it showed last was filtered from what it names.        *)
(***************************************************************************)
FilterInv ==
  /\ FilterTypeOK
  /\ \E previous \in Histories :
       filtered = processFrame(Preset, intensity, subject, at, previous, grain)

\* What the constants may be, for a look.
LEMMA ConstantsTyped ==
  ASSUME NEW p \in Looks, NEW a \in Adjustments, NEW amount \in Intensities, NEW n \in Grains,
         NEW s \in Subjects[p], NEW xy \in Places[p]
  PROVE  /\ Adjusted(p, a) \in LookType(78) /\ amount \in 0..100 /\ n \in -128..127
         /\ s \in SubjectType /\ xy \in PlaceType
<1>1. p \in LookType(48) /\ a \in AdjustmentType BY FilterAssumption DEF LookType, AdjustmentType
<1>2. amount \in 0..100 /\ n \in -128..127 BY FilterAssumption
<1>3. s \in SubjectType /\ xy \in PlaceType BY FilterAssumption DEF SubjectType, PlaceType
<1> QED BY <1>1, <1>2, <1>3, AdjustedIsLook

LEMMA FilterInitially == FilterInit => FilterInv
<1> SUFFICES ASSUME FilterInit PROVE FilterInv OBVIOUS
<1>1. filtered = processFrame(Preset, intensity, subject, at, NoHistory, grain)
  BY DEF FilterInit, Preset
<1>2. NoHistory \in Histories BY DEF Histories
<1>3. /\ Preset \in LookType(78) /\ intensity \in 0..100 /\ grain \in -128..127
      /\ subject \in SubjectType /\ at \in PlaceType
  BY ConstantsTyped DEF FilterInit, Preset
<1>4. filtered \in Colour BY <1>1, <1>2, <1>3, FrameFits
<1> QED BY <1>1, <1>2, <1>4 DEF FilterInv, FilterTypeOK, FilterInit

LEMMA FilterStep == FilterInv /\ [FilterNext]_filterVars => FilterInv'
<1> SUFFICES ASSUME FilterInv, [FilterNext]_filterVars PROVE FilterInv' OBVIOUS
<1>1. ASSUME NEW s \in Subjects[look], NEW previous \in Histories,
             look' = look, intensity' = intensity, at' = at, grain' = grain,
             adjust' \in Adjustments, subject' = s,
             filtered' = processFrame(Adjusted(look', adjust'), intensity', s, at', previous, grain')
      PROVE  FilterInv'
  <2>1. /\ look \in Looks /\ intensity \in Intensities /\ at \in Places[look] /\ grain \in Grains
    BY DEF FilterInv, FilterTypeOK
  <2>2. /\ Adjusted(look, adjust') \in LookType(78) /\ intensity \in 0..100 /\ grain \in -128..127
        /\ s \in SubjectType /\ at \in PlaceType
    BY <1>1, <2>1, ConstantsTyped
  <2>3. filtered' = processFrame(Adjusted(look, adjust'), intensity, s, at, previous, grain)
    BY <1>1
  <2>4. filtered' \in Colour BY <2>2, <2>3, FrameFits
  <2>5. FilterTypeOK' BY <1>1, <2>1, <2>4 DEF FilterTypeOK
  <2>6. filtered' = processFrame(Preset', intensity', subject', at', previous, grain')
    BY <1>1 DEF Preset
  <2> QED BY <2>5, <2>6 DEF FilterInv
<1>2. CASE CameraFrame
  <2>1. filtered \in Histories /\ adjust \in Adjustments BY DEF FilterInv, FilterTypeOK, Histories
  <2> QED BY <1>1, <1>2, <2>1 DEF CameraFrame, Process
<1>3. CASE Restyle
  <2>1. subject \in Subjects[look] /\ NoHistory \in Histories BY DEF FilterInv, FilterTypeOK, Histories
  <2> QED BY <1>1, <1>3, <2>1 DEF Restyle, Process
<1>4. CASE UNCHANGED filterVars BY <1>4 DEF filterVars, FilterInv, FilterTypeOK, Preset
<1> QED BY <1>2, <1>3, <1>4 DEF FilterNext

LEMMA FilterTyped ==
  ASSUME FilterInv
  PROVE  /\ Preset \in LookType(78) /\ intensity \in 0..100 /\ grain \in -128..127
         /\ subject \in SubjectType /\ at \in PlaceType /\ filtered \in Colour
<1>1. /\ look \in Looks /\ intensity \in Intensities /\ at \in Places[look] /\ adjust \in Adjustments
      /\ grain \in Grains /\ subject \in Subjects[look] /\ filtered \in Colour
  BY DEF FilterInv, FilterTypeOK
<1> QED BY <1>1, ConstantsTyped DEF Preset

LEMMA ShownInTones ==
  ASSUME FilterInv, NEW i \in Channels
  PROVE  Share(Preset, intensity) = 0 /\ Lift(Preset, intensity, subject) = 0
         /\ Noise(Preset, intensity, grain) = 0
           => \E k \in 0..(Preset.posterize - 1) : filtered[i] = Tone(k, Preset.posterize)
<1>1. PICK previous \in Histories :
        filtered = processFrame(Preset, intensity, subject, at, previous, grain)
  BY DEF FilterInv
<1>2. IsFrame(Preset, intensity, subject, at, previous, grain) BY FilterTyped DEF IsFrame
<1> QED BY <1>1, <1>2, FrameInTones

LEMMA TonesCounted == FilterInv => TonesAreCounted
<1> SUFFICES ASSUME FilterInv, Preset.flags \intersect {"TEMPORAL", "BLOOM"} = {}, Preset.noise = 0,
                    NEW i \in Channels
             PROVE  \E k \in 0..(Preset.posterize - 1) :
                      filtered[i] = (k * 255) \div (Preset.posterize - 1)
  BY DEF TonesAreCounted
<1>1. "TEMPORAL" \notin Preset.flags /\ "BLOOM" \notin Preset.flags BY Zenon
<1>2. Share(Preset, intensity) = 0 /\ Lift(Preset, intensity, subject) = 0
  BY <1>1, Zenon DEF Share, Lift
<1>3. Noise(Preset, intensity, grain) = 0
  <2>1. Preset.noise \in 0..0 OBVIOUS
  <2>2. intensity \in Int /\ grain \in Int BY FilterTyped
  <2> QED BY <2>1, <2>2, NoGrain, Zenon
<1> QED BY <1>2, <1>3, ShownInTones, Zenon DEF Tone

\* At every place of the photo, not only where PhotoIsShadedFrame looks.
LEMMA PhotoShadedAt ==
  ASSUME FilterInv, NEW x \in 0..(kFrameWidth - 1), NEW y \in 0..(kFrameHeight - 1),
         NEW i \in Channels
  PROVE  LET saved == applyCaptureTexture(filtered, Preset, <<x, y>>)[i]
         IN  saved <= filtered[i] /\ 2 * (saved + 3) >= filtered[i]
<1> DEFINE f == filtered[i]
           shade == Shade(<<x, y>>)
           scan == "SCANLINES" \in Preset.flags /\ y % 2 = 1
           a == IF scan THEN Quot(f * 78, 100) ELSE f
           mask == "MASK" \in Preset.flags /\ ~(x % 3 = i - 1)
           b == IF mask THEN Quot(a * 84, 100) ELSE a
           c == IF "VIGNETTE" \in Preset.flags THEN Quot(b * shade, 100) ELSE b
<1>1. f \in 0..255 BY FilterTyped DEF Colour
<1>2. shade \in 75..100 /\ (y % 2 = 1 => shade >= 76) BY ShadeBounds
<1>3. applyCaptureTexture(filtered, Preset, <<x, y>>)[i] = Clamp8(c)
  BY DEF applyCaptureTexture, Each
<1>4. a \in {f, Quot(f * 78, 100)} /\ (a # f => shade >= 76) BY <1>2
<1>5. b \in {a, Quot(a * 84, 100)} /\ c \in {b, Quot(b * shade, 100)} OBVIOUS
<1> HIDE DEF f, shade, a, b, c
<1>6. c \in 0..f /\ 2 * (c + 3) >= f
  <2>1. a \in 0..f /\ 100 * a >= 78 * f - 99 BY <1>1, <1>4 DEF Quot
  <2>2. b \in 0..a /\ 100 * b >= 84 * a - 99 BY <1>1, <1>5, <2>1 DEF Quot
  <2>3. b * shade \in Nat /\ b * 75 <= b * shade /\ b * shade <= b * 100
        /\ (shade >= 76 => b * 76 <= b * shade)
    BY <1>1, <1>2, <2>1, <2>2
  <2>4. c \in 0..b /\ 100 * c >= b * 75 - 99 /\ (shade >= 76 => 100 * c >= b * 76 - 99)
    <3>1. CASE c = b BY <1>1, <3>1, <2>1, <2>2
    <3>2. CASE c = Quot(b * shade, 100)
      <4> DEFINE n == b * shade
      <4>1. n \in Nat /\ b * 75 <= n /\ n <= b * 100 /\ (shade >= 76 => b * 76 <= n) BY <2>3
      <4>2. c = Quot(n, 100) BY <3>2
      <4> HIDE DEF n
      <4> QED BY <1>1, <2>1, <2>2, <4>1, <4>2 DEF Quot
    <3> QED BY <1>5, <3>1, <3>2
  <2>5. CASE a = f BY <1>1, <2>1, <2>2, <2>4, <2>5
  <2>6. CASE a # f BY <1>1, <1>4, <2>1, <2>2, <2>4, <2>6
  <2> QED BY <2>5, <2>6
<1>7. Clamp8(c) = c BY <1>1, <1>6 DEF Clamp8, Clamp
<1> QED BY <1>3, <1>6, <1>7, <1>1 DEF f

LEMMA PhotoShaded == FilterInv => PhotoIsShadedFrame
<1> SUFFICES ASSUME FilterInv, NEW x \in {0, 1, 2, 40, 79}, NEW y \in {0, 1, 30, 59},
                    NEW i \in Channels
             PROVE  LET saved == applyCaptureTexture(filtered, Preset, <<x, y>>)[i]
                    IN  saved <= filtered[i] /\ 2 * (saved + 3) >= filtered[i]
  BY Zenon DEF PhotoIsShadedFrame
<1>1. x \in 0..(kFrameWidth - 1) /\ y \in 0..(kFrameHeight - 1) BY DEF kFrameWidth, kFrameHeight
<1> QED BY <1>1, PhotoShadedAt

LEMMA TrailsDecayFrom ==
  ASSUME FilterInv, NEW s \in Subjects[look]
  PROVE  TrailDecays(filtered, processFrame(Preset, intensity, s, at, filtered, grain), s)
<1> DEFINE lift == Lift(Preset, intensity, s)
           most == Noise(Preset, intensity, 128)
           noise == Noise(Preset, intensity, grain)
           mix == Mix(Preset, intensity, filtered)
           new == processFrame(Preset, intensity, s, at, filtered, grain)
<1>1. /\ Preset \in LookType(78) /\ intensity \in 0..100 /\ grain \in -128..127
      /\ s \in SubjectType /\ at \in PlaceType /\ filtered \in Colour
  <2>1. s \in SubjectType
    <3>1. look \in Looks BY DEF FilterInv, FilterTypeOK
    <3> QED BY <3>1, FilterAssumption DEF SubjectType
  <2> QED BY <2>1, FilterTyped
<1>2. lift \in Nat /\ most \in Nat /\ noise \in (-most)..most
  <2>1. lift \in Nat BY <1>1, LiftBounds
  <2>2. most \in Nat /\ noise \in (-most)..most BY <1>1, NoiseBounds
  <2> QED BY <2>1, <2>2
<1>3. mix \in 0..78 BY <1>1, ShareBounds DEF Mix
<1> SUFFICES ASSUME NEW i \in Channels
             PROVE  LET d == Developed(Preset, intensity, s, at)[i]
                    IN  /\ filtered[i] - d > Echo * (lift + most + 1) => new[i] < filtered[i]
                        /\ d - filtered[i] > Echo * (most + 1) => new[i] > filtered[i] \/ new[i] = 255
                        /\ filtered[i] >= d => new[i] >= Clamp8(d + lift - most)
                        /\ filtered[i] <= d => new[i] <= Clamp8(d + lift + most)
  BY Zenon DEF TrailDecays
<1> DEFINE d == Developed(Preset, intensity, s, at)[i]
           old == filtered[i]
<1>4. d \in 0..255 BY <1>1, DevelopedInTones
<1>5. old \in 0..255 BY <1>1 DEF Colour
<1>6. filtered \in Histories BY <1>1 DEF Histories
<1>7. new[i] = Clamp8(Mixed(d, mix, old) + lift + noise)
  <2>1. IsFrame(Preset, intensity, s, at, filtered, grain) BY <1>1, <1>6 DEF IsFrame
  <2> QED BY <2>1, FrameChannel
<1> HIDE DEF lift, most, noise, mix, new, d, old
<1>8. /\ old - d > Echo * (lift + most + 1) => new[i] < old
      /\ d - old > Echo * (most + 1) => new[i] > old \/ new[i] = 255
      /\ old >= d => new[i] >= Clamp8(d + lift - most)
      /\ old <= d => new[i] <= Clamp8(d + lift + most)
  <2> DEFINE next == Clamp8(Mixed(d, mix, old) + lift + noise)
  <2>1. /\ old - d > Echo * (lift + most + 1) => next < old
        /\ d - old > Echo * (most + 1) => next > old \/ next = 255
        /\ old >= d => next >= Clamp8(d + lift - most)
        /\ old <= d => next <= Clamp8(d + lift + most)
    <3>1. Blends(d, mix, old, lift, most, noise) BY <1>2, <1>3, <1>4, <1>5 DEF Blends
    <3> QED BY <3>1, ChannelDecays
  <2> QED BY <1>7, <2>1, Zenon
<1> QED BY <1>8, Zenon DEF d, old

-----------------------------------------------------------------------------
(***************************************************************************)
(* Screen.  A scene is a pile of pieces, one laid upon the other.          *)
(***************************************************************************)
Pieces(s) == {s[i] : i \in DOMAIN s}
IsPile(s) == s \in Seq(Pieces(s))

\* A piece of text, and a box whose corners lie on the screen.
Line(value, x, y) == Composition!Text(value, x, y)[1]
Area(name, left, top, right, bottom) ==
  [what |-> name, left |-> left, top |-> top, right |-> right, bottom |-> bottom, solid |-> TRUE]

\* Upon a pile comes another: its pieces follow.
LEMMA PilesJoin ==
  ASSUME NEW s, NEW t, IsPile(s), IsPile(t)
  PROVE  /\ IsPile(s \o t) /\ Pieces(s \o t) = Pieces(s) \union Pieces(t)
         /\ Len(s) \in Nat /\ Len(t) \in Nat /\ Len(s \o t) = Len(s) + Len(t)
         /\ DOMAIN s = 1..Len(s) /\ DOMAIN t = 1..Len(t) /\ DOMAIN (s \o t) = 1..Len(s \o t)
         /\ \A i \in 1..Len(s) : (s \o t)[i] = s[i]
         /\ \A i \in 1..Len(t) : (s \o t)[Len(s) + i] = t[i]
<1> DEFINE all == Pieces(s) \union Pieces(t)
           u == s \o t
<1>1. s \in Seq(all) /\ t \in Seq(all)
  <2>1. \A few, many, q : q \in Seq(few) /\ few \subseteq many => q \in Seq(many) BY SMT
  <2>2. Pieces(s) \subseteq all /\ Pieces(t) \subseteq all OBVIOUS
  <2> QED BY <2>1, <2>2 DEF IsPile
<1> HIDE DEF all
<1>2. /\ u \in Seq(all) /\ Len(u) = Len(s) + Len(t)
      /\ \A i \in 1..Len(s) + Len(t) : u[i] = IF i <= Len(s) THEN s[i] ELSE t[i - Len(s)]
  BY <1>1, ConcatProperties
<1>3. /\ Len(s) \in Nat /\ Len(t) \in Nat
      /\ DOMAIN s = 1..Len(s) /\ DOMAIN t = 1..Len(t) /\ DOMAIN u = 1..Len(u)
  BY <1>1, <1>2
<1> HIDE DEF u
<1>4. \A i \in 1..Len(s) : u[i] = s[i] /\ i \in DOMAIN u BY <1>2, <1>3
<1>5. \A i \in 1..Len(t) : u[Len(s) + i] = t[i] /\ Len(s) + i \in DOMAIN u BY <1>2, <1>3
<1>6. \A i \in DOMAIN u : i \in 1..Len(s) \/ (i - Len(s) \in 1..Len(t) /\ u[i] = t[i - Len(s)])
  BY <1>2, <1>3
<1>7. Pieces(u) = Pieces(s) \union Pieces(t) BY <1>3, <1>4, <1>5, <1>6 DEF Pieces
<1>8. u \in Seq(Pieces(u)) BY <1>2, <1>3, <1>7 DEF all
<1> QED BY <1>2, <1>3, <1>4, <1>5, <1>7, <1>8 DEF u, IsPile

\* One piece is a pile, and so is none.
LEMMA PieceIsPile == \A p : IsPile(<<p>>) /\ Pieces(<<p>>) = {p}
<1> SUFFICES ASSUME NEW p PROVE IsPile(<<p>>) /\ Pieces(<<p>>) = {p} OBVIOUS
<1>1. Pieces(<<p>>) = {p} BY DEF Pieces
<1> QED BY <1>1 DEF IsPile
\* No piece is a pile, too.
LEMMA NoPiece == IsPile(<<>>) /\ Pieces(<<>>) = {}
<1>1. Pieces(<<>>) = {} BY DEF Pieces
<1> QED BY <1>1 DEF IsPile

\* The characters of a text, which the provers only count.
Chars(value) == Len(value)

\* A text starts at its place and is drawn to the last character that has room.
IsLine(p, value, x, y) ==
  /\ p.what = value /\ ~p.solid /\ p.left = x /\ p.top = y /\ p.bottom = y + 7
  /\ p.right \in Int /\ p.right <= 239 /\ p.right < x + 6 * Chars(value)
\* A text is one line, from its place to its last character or to the border.
LEMMA TextIsLine ==
  ASSUME NEW value, Chars(value) \in Nat, NEW x \in 0..234, NEW y \in Int
  PROVE  /\ Composition!Text(value, x, y) = <<Line(value, x, y)>>
         /\ IsLine(Line(value, x, y), value, x, y)
         /\ x + 6 * Chars(value) <= 240 => Composition!CharsDrawn(value, x) = Chars(value)
<1>1. Composition!CharsDrawn(value, x) \in Int /\ x + 6 * Composition!CharsDrawn(value, x) <= 240
      /\ Composition!CharsDrawn(value, x) <= Chars(value)
  BY DEF Chars, Composition!CharsDrawn, Composition!Width
<1>2. x + 6 * Chars(value) <= 240 => Composition!CharsDrawn(value, x) = Chars(value)
  BY DEF Chars, Composition!CharsDrawn, Composition!Width
<1> QED BY <1>1, <1>2 DEF Line, IsLine, Composition!Text

\* A box whose corners lie on the screen is drawn as it was asked for.
Inside(left, top, right, bottom) ==
  left \in 0..240 /\ top \in 0..180 /\ right \in 0..240 /\ bottom \in 0..180
LEMMA BoxIsArea ==
  ASSUME NEW name, NEW left, NEW top, NEW right, NEW bottom, Inside(left, top, right, bottom)
  PROVE  Composition!Box(name, left, top, right, bottom) = <<Area(name, left, top, right, bottom)>>
<1>1. \A i, high \in Int : i \in 0..high => Composition!Bounded(i, high) = i
  BY DEF Composition!Bounded
<1>2. /\ left \in Int /\ top \in Int /\ right \in Int /\ bottom \in Int
      /\ left \in 0..240 /\ top \in 0..180 /\ right \in 0..240 /\ bottom \in 0..180
  BY DEF Inside
<1>3. /\ Composition!Bounded(left, 240) = left /\ Composition!Bounded(right, 240) = right
      /\ Composition!Bounded(top, 180) = top /\ Composition!Bounded(bottom, 180) = bottom
  BY <1>1, <1>2
<1> QED BY <1>3 DEF Area, Composition!Box, Composition!Width, Composition!Height

\* A join is laid piece by piece.
LEMMA PilesAssociate ==
  ASSUME NEW s, NEW t, NEW u, IsPile(s), IsPile(t), IsPile(u)
  PROVE  s \o (t \o u) = (s \o t) \o u
<1> DEFINE all == Pieces(s) \union Pieces(t) \union Pieces(u)
<1>1. s \in Seq(all) /\ t \in Seq(all) /\ u \in Seq(all)
  <2>1. \A few, many, q : q \in Seq(few) /\ few \subseteq many => q \in Seq(many) BY SMT
  <2>2. Pieces(s) \subseteq all /\ Pieces(t) \subseteq all /\ Pieces(u) \subseteq all OBVIOUS
  <2> QED BY <2>1, <2>2 DEF IsPile
<1> HIDE DEF all
<1> QED BY <1>1, ConcatAssociative

\* No two texts that can both be seen are drawn over each other.
Covered(p, s) == \E c \in Pieces(s) : c.solid /\ Composition!Overlap(p, c)
Clear(p, q) == p.solid \/ q.solid \/ ~Composition!Overlap(p, q)
Apart(s) ==
  \A i, j \in DOMAIN s :
    (i < j /\ \A k \in (i + 1)..Len(s) : ~(s[k].solid /\ Composition!Overlap(s[i], s[k])))
      => Clear(s[i], s[j])

\* What joins a pile clears the texts below or covers them.
LEMMA ApartJoins ==
  ASSUME NEW s, NEW t, IsPile(s), IsPile(t), Apart(s), Apart(t),
         \A p \in Pieces(s), q \in Pieces(t) : Clear(p, q) \/ Covered(p, t)
  PROVE  Apart(s \o t)
<1> DEFINE u == s \o t
<1>1. /\ Len(s) \in Nat /\ Len(t) \in Nat /\ Len(u) = Len(s) + Len(t)
      /\ DOMAIN s = 1..Len(s) /\ DOMAIN t = 1..Len(t) /\ DOMAIN u = 1..Len(u)
      /\ \A i \in 1..Len(s) : u[i] = s[i]
      /\ \A i \in 1..Len(t) : u[Len(s) + i] = t[i]
  BY PilesJoin
<1> HIDE DEF u
<1> SUFFICES ASSUME NEW i \in DOMAIN u, NEW j \in DOMAIN u, i < j,
                    \A k \in (i + 1)..Len(u) : ~(u[k].solid /\ Composition!Overlap(u[i], u[k]))
             PROVE  Clear(u[i], u[j])
  BY DEF Apart, u
<1>2. CASE j <= Len(s)
  <2>1. i \in DOMAIN s /\ j \in DOMAIN s /\ u[i] = s[i] /\ u[j] = s[j] BY <1>1, <1>2
  <2>2. \A k \in (i + 1)..Len(s) : ~(s[k].solid /\ Composition!Overlap(s[i], s[k])) BY <1>1, <2>1
  <2> QED BY <2>1, <2>2 DEF Apart
<1>3. CASE i > Len(s)
  <2> DEFINE a == i - Len(s)
             b == j - Len(s)
  <2>1. a \in DOMAIN t /\ b \in DOMAIN t /\ a < b BY <1>1, <1>3
  <2>2. u[i] = t[a] /\ u[j] = t[b]
    <3>1. Len(s) + a = i /\ Len(s) + b = j BY <1>1
    <3> QED BY <1>1, <2>1, <3>1
  <2>3. ASSUME NEW k \in (a + 1)..Len(t)
        PROVE  ~(t[k].solid /\ Composition!Overlap(t[a], t[k]))
    <3>1. Len(s) + k \in (i + 1)..Len(u) /\ k \in 1..Len(t) BY <1>1, <2>1
    <3> QED BY <1>1, <2>2, <3>1
  <2> HIDE DEF a, b
  <2> QED BY <2>1, <2>2, <2>3 DEF Apart
<1>4. CASE i <= Len(s) /\ j > Len(s)
  <2>1. i \in DOMAIN s /\ u[i] = s[i] BY <1>1, <1>4
  <2>2. j - Len(s) \in DOMAIN t /\ u[j] = t[j - Len(s)]
    <3>1. j - Len(s) \in DOMAIN t /\ Len(s) + (j - Len(s)) = j BY <1>1, <1>4
    <3> QED BY <1>1, <3>1
  <2>3. ~Covered(u[i], t)
    <3> SUFFICES ASSUME NEW k \in DOMAIN t PROVE ~(t[k].solid /\ Composition!Overlap(u[i], t[k]))
      BY DEF Covered, Pieces
    <3>1. Len(s) + k \in (i + 1)..Len(u) BY <1>1, <1>4
    <3> QED BY <1>1, <3>1
  <2> QED BY <2>1, <2>2, <2>3 DEF Pieces
<1> QED BY <1>1, <1>2, <1>3, <1>4

\* The scenes in which texts are known to meet are left out.
Tidy(n) ==
  ~(n.compare /\ Composition!InDrawer(n)) /\ ~(Composition!InGallery(n) /\ Len(n.photoStyle) > 21)
Labels == {"ORIGINAL", "RETROLENS"}
OnScreen(p) ==
  /\ p.left \in 0..240 /\ p.right \in Int /\ p.right <= 240 /\ p.top \in 0..180 /\ p.bottom \in 0..180
  /\ (p.solid /\ p.what = "BAR") => p.right <= 107

\* Where the texts of a scene lie, away from those of a message or an alert or so
\* that the box of these covers them.
Within(place, left, top) ==
  \/ place = "gallery" /\ (top <= 3 \/ top >= 82)
  \/ place = "drawer" /\ left = 3 /\ (top <= 63 \/ top \in 74..78 \/ top >= 163)
  \/ place \in {"bars", "camera"} /\ (top <= 3 \/ top >= 163)
  \/ place = "camera" /\ left >= 204 /\ top = 17
  \/ place = "anywhere"

\* A scene is laid down to a row: in the row at y its texts end before x.
Reaches(s, x, y) ==
  \A p \in Pieces(s) : p.solid \/ p.bottom <= y \/ (p.bottom <= y + 7 /\ p.right <= x)
Scene(n, place, s, x, y) ==
  /\ IsPile(s)
  /\ \A p \in Pieces(s) :
       /\ OnScreen(p)
       /\ p.solid \/ (Within(place, p.left, p.top) /\ p.bottom = p.top + 7 /\ p.what \notin Labels)
  /\ Tidy(n) => Apart(s) /\ Reaches(s, x, y)

\* One more text in the row or in a later one.
LEMMA LineIsLaid ==
  ASSUME NEW n, NEW place, NEW s, NEW x \in 0..234, NEW y \in 0..173, Scene(n, place, s, x, y),
         NEW value, Chars(value) \in Nat, value \notin Labels, Within(place, x, y),
         NEW x2 \in Nat, NEW y2 \in Nat,
         y2 >= y + 7 \/ (y2 = y /\ (Tidy(n) => x + 6 * Chars(value) <= x2))
  PROVE  Scene(n, place, s \o Composition!Text(value, x, y), x2, y2)
<1>1. PICK piece : /\ piece = Line(value, x, y) /\ Composition!Text(value, x, y) = <<piece>>
                   /\ IsLine(piece, value, x, y)
  <2>1. y \in Int OBVIOUS
  <2> QED BY <2>1, TextIsLine, Zenon
<1>2. /\ IsPile(<<piece>>) /\ IsPile(s) /\ IsPile(s \o <<piece>>)
      /\ Pieces(<<piece>>) = {piece} /\ Pieces(s \o <<piece>>) = Pieces(s) \union {piece}
  BY PieceIsPile, PilesJoin DEF Scene
<1>3. /\ OnScreen(piece) /\ Within(place, piece.left, piece.top)
      /\ piece.bottom = piece.top + 7 /\ piece.what \notin Labels
  BY <1>1 DEF OnScreen, IsLine
<1>4. ASSUME Tidy(n) PROVE Apart(s \o <<piece>>) /\ Reaches(s \o <<piece>>, x2, y2)
  <2>1. Apart(s) /\ Reaches(s, x, y) /\ \A q \in Pieces(s) : OnScreen(q) BY <1>4 DEF Scene
  <2>2. Apart(<<piece>>) BY <1>2, PilesJoin DEF Apart
  <2>3. ASSUME NEW q \in Pieces(s) PROVE Clear(q, piece)
    <3>1. OnScreen(q) /\ (q.solid \/ q.bottom <= y \/ (q.bottom <= y + 7 /\ q.right <= x))
      BY <2>1 DEF Reaches
    <3>2. q.left \in Int /\ q.right \in Int /\ q.bottom \in Int BY <3>1 DEF OnScreen
    <3>3. q.solid \/ ~(q.left < piece.right /\ piece.left < q.right /\ piece.top < q.bottom)
      BY <1>1, <3>1, <3>2 DEF IsLine
    <3> QED BY <3>3 DEF Clear, Composition!Overlap
  <2>4. Apart(s \o <<piece>>) BY <1>2, <2>1, <2>2, <2>3, ApartJoins
  <2>5. Reaches(s \o <<piece>>, x2, y2)
    <3> SUFFICES ASSUME NEW q \in Pieces(s) \union {piece}
                 PROVE  q.solid \/ q.bottom <= y2 \/ (q.bottom <= y2 + 7 /\ q.right <= x2)
      BY <1>2 DEF Reaches
    <3>1. CASE q = piece BY <1>1, <1>4, <3>1 DEF IsLine
    <3>2. CASE q \in Pieces(s)
      <4>1. OnScreen(q) /\ (q.solid \/ q.bottom <= y \/ (q.bottom <= y + 7 /\ q.right <= x))
        BY <2>1, <3>2 DEF Reaches
      <4>2. q.right \in Int /\ q.bottom \in Int BY <4>1 DEF OnScreen
      <4>3. y2 >= y + 7 \/ (y2 = y /\ x <= x2) BY <1>4
      <4> QED BY <4>1, <4>2, <4>3
    <3> QED BY <3>1, <3>2
  <2> QED BY <2>4, <2>5
<1> QED BY <1>1, <1>2, <1>3, <1>4 DEF Scene

\* A box on the screen, upon others or first.
Lies(name, left, top, right, bottom) ==
  /\ Inside(left, top, right, bottom)
  /\ name = "BAR" => right <= 107
LEMMA BoxIsLaid ==
  ASSUME NEW n, NEW place, NEW s, NEW x, NEW y, Scene(n, place, s, x, y),
         NEW name, NEW left, NEW top, NEW right, NEW bottom,
         Lies(name, left, top, right, bottom)
  PROVE  Scene(n, place, s \o Composition!Box(name, left, top, right, bottom), x, y)
<1>1. PICK piece : /\ Composition!Box(name, left, top, right, bottom) = <<piece>>
                   /\ piece.solid /\ OnScreen(piece)
  <2> DEFINE area == Area(name, left, top, right, bottom)
  <2>1. Inside(left, top, right, bottom) BY DEF Lies
  <2>2. area.solid /\ OnScreen(area) BY DEF Area, OnScreen, Lies, Inside
  <2>3. Composition!Box(name, left, top, right, bottom) = <<area>> BY <2>1, BoxIsArea, Zenon
  <2> QED BY <2>2, <2>3, Zenon
<1>2. IsPile(<<piece>>) /\ Pieces(<<piece>>) = {piece} BY PieceIsPile
<1>3. Apart(<<piece>>) BY <1>1, <1>2, PilesJoin DEF Apart
<1>4. IsPile(s) /\ IsPile(s \o <<piece>>) /\ Pieces(s \o <<piece>>) = Pieces(s) \union {piece}
  BY <1>2, PilesJoin DEF Scene
<1>5. Tidy(n) => Apart(s \o <<piece>>)
  <2>1. \A q \in Pieces(s) : Clear(q, piece) BY <1>1 DEF Clear
  <2> QED BY <1>2, <1>3, <1>4, <2>1, ApartJoins DEF Scene
<1> QED BY <1>1, <1>4, <1>5 DEF Scene, Reaches
\* A scene may begin with a box.
LEMMA FirstBox ==
  ASSUME NEW n, NEW place, NEW name, NEW left, NEW top, NEW right, NEW bottom,
         Lies(name, left, top, right, bottom)
  PROVE  Scene(n, place, Composition!Box(name, left, top, right, bottom), 0, 0)
<1>1. PICK piece : /\ Composition!Box(name, left, top, right, bottom) = <<piece>>
                   /\ piece.solid /\ OnScreen(piece)
  <2> DEFINE area == Area(name, left, top, right, bottom)
  <2>1. Inside(left, top, right, bottom) BY DEF Lies
  <2>2. area.solid /\ OnScreen(area) BY DEF Area, OnScreen, Lies, Inside
  <2>3. Composition!Box(name, left, top, right, bottom) = <<area>> BY <2>1, BoxIsArea, Zenon
  <2> QED BY <2>2, <2>3, Zenon
<1>2. IsPile(<<piece>>) /\ Pieces(<<piece>>) = {piece} BY PieceIsPile
<1>3. Apart(<<piece>>) BY <1>1, <1>2, PilesJoin DEF Apart
<1> QED BY <1>1, <1>2, <1>3 DEF Scene, Reaches

\* Nothing that a condition left out disturbs.
LEMMA MaybeLaid ==
  ASSUME NEW n, NEW place, NEW s, NEW t, NEW x, NEW y,
         Scene(n, place, s, x, y), Scene(n, place, s \o t, x, y),
         NEW u, u = s \o t \/ u = s \o <<>>
  PROVE  Scene(n, place, u, x, y)
<1>1. s \o <<>> = s
  <2>1. s \in Seq(Pieces(s)) BY DEF Scene, IsPile
  <2> QED BY <2>1, ConcatEmptySeq
<1> QED BY <1>1

\* What is laid down to a row may go on in a later one.
LEMMA GoesOn ==
  ASSUME NEW n, NEW place, NEW s, NEW x \in Nat, NEW y \in Nat, Scene(n, place, s, x, y),
         NEW x2 \in Nat, NEW y2 \in Nat, (x2 >= x /\ y2 >= y) \/ y2 >= y + 7
  PROVE  Scene(n, place, s, x2, y2)
<1>1. Reaches(s, x, y) /\ (\A p \in Pieces(s) : OnScreen(p)) => Reaches(s, x2, y2)
  BY DEF Reaches, OnScreen
<1> QED BY <1>1 DEF Scene

\* A text below all others: y0 is where the row may begin, y2 where the next may.
Fits(place, x, y0, y, y2) ==
  /\ x \in 0..234 /\ y \in 0..173 /\ y0 \in Nat /\ y2 \in Nat /\ y0 <= y /\ y + 7 <= y2
  /\ Within(place, x, y)
Plain(value) == Chars(value) \in Nat /\ value \notin Labels
LEMMA NextLine ==
  ASSUME NEW n, NEW place, NEW s, NEW y0, Scene(n, place, s, 0, y0), NEW value, Plain(value),
         NEW x, NEW y, NEW y2, Fits(place, x, y0, y, y2)
  PROVE  Scene(n, place, s \o Composition!Text(value, x, y), 0, y2)
<1>1. /\ x \in 0..234 /\ y \in 0..173 /\ y0 \in Nat /\ y2 \in Nat /\ 0 \in Nat /\ Within(place, x, y)
      /\ x \in Nat /\ y \in Nat /\ x >= 0 /\ y >= y0 /\ y2 >= y + 7
  BY DEF Fits
<1>2. Scene(n, place, s, x, y) BY <1>1, GoesOn, Zenon
<1> QED BY <1>1, <1>2, LineIsLaid, Zenon DEF Plain

\* Every text of the compositor is counted.
LEMMA LiteralText ==
  ASSUME NEW value \in Composition!Literals
  PROVE  Chars(value) \in 0..30 /\ (value \notin Labels => Plain(value))
<1>1. Chars(value) \in 0..30 BY WrittenAssumption, Zenon DEF Chars
<1> QED BY <1>1 DEF Plain
\* So is every text made of the metrics, and none is a label.
LEMMA WrittenText ==
  ASSUME NEW n \in Metrics, NEW value \in Composition!Written(n)
  PROVE  Plain(value)
BY WrittenAssumption, Zenon DEF Plain, Chars, Labels

\* The quick control: name, parameter and bar, each in rows of its own.
LEMMA ControlsAreLaid ==
  ASSUME NEW n \in Metrics
  PROVE  Scene(n, "drawer", Composition!ControlPieces(n), 0, 173)
<1> DEFINE heading == "QUICK CONTROL"
           select == "UP DOWN SELECT"
           close == "CENTER CLOSE"
           name == Composition!Cut(n.style, 19)
           parameter == Composition!ParameterText(n)
           end == 3 + Composition!BarLength(n)
           title == Composition!Box("DRAWER", 0, 0, 150, 180) \o Composition!Text(heading, 3, 3)
           named == title \o Composition!Text(name, 3, 17)
           rows == named \o Composition!Text(parameter, 3, 34)
           bar == (rows \o Composition!Box("TROUGH", 3, 47, 107, 54))
                        \o Composition!Box("BAR", 3, 47, end, 54)
           help == bar \o Composition!Text(select, 3, 62)
           all == help \o Composition!Text(close, 3, 166)
<1>1. /\ Fits("drawer", 3, 0, 3, 10) /\ Fits("drawer", 3, 10, 17, 24) /\ Fits("drawer", 3, 24, 34, 41)
      /\ Fits("drawer", 3, 41, 62, 69) /\ Fits("drawer", 3, 69, 166, 173)
  BY DEF Fits, Within
<1>2. Plain(name) /\ Plain(parameter) BY WrittenText DEF Composition!Written
<1>3. Plain(heading) /\ Plain(select) /\ Plain(close)
  BY LiteralText DEF Composition!Literals, Labels
<1>4. /\ Lies("DRAWER", 0, 0, 150, 180)
      /\ Lies("TROUGH", 3, 47, 107, 54) /\ Lies("BAR", 3, 47, end, 54)
  <2>1. n.value \in Int BY WrittenAssumption, Zenon
  <2>2. Composition!BarLength(n) \in 0..100
    BY <2>1 DEF Composition!BarLength, Composition!Bounded
  <2> QED BY <2>2 DEF Lies, Inside
<1>5. Composition!ControlPieces(n) = all
  BY DEF Composition!ControlPieces, Composition!Drawer, Composition!DrawerWidth, Composition!Height
<1> HIDE DEF heading, select, close, name, parameter, end, title, named, rows, bar, help, all
<1>6. Scene(n, "drawer", title, 0, 10)
  <2>1. Scene(n, "drawer", Composition!Box("DRAWER", 0, 0, 150, 180), 0, 0) BY <1>4, FirstBox
  <2> QED BY <1>1, <1>3, <2>1, NextLine DEF title
<1>7. Scene(n, "drawer", named, 0, 24) BY <1>1, <1>2, <1>6, NextLine DEF named
<1>8. Scene(n, "drawer", rows, 0, 41) BY <1>1, <1>2, <1>7, NextLine DEF rows
<1>9. Scene(n, "drawer", bar, 0, 41) BY <1>4, <1>8, BoxIsLaid DEF bar
<1>10. Scene(n, "drawer", help, 0, 69) BY <1>1, <1>3, <1>9, NextLine DEF help
<1>11. Scene(n, "drawer", all, 0, 173)
  <2>1. Plain(close) /\ Fits("drawer", 3, 69, 166, 173) BY <1>1, <1>3
  <2> QED BY <1>10, <2>1, NextLine DEF all
<1> QED BY <1>5, <1>11

\* The style browser: a title and five names.
LEMMA BrowserIsLaid ==
  ASSUME NEW n \in Metrics
  PROVE  Scene(n, "drawer", Composition!BrowserPieces(n), 0, 173)
<1> DEFINE heading == "STYLE BROWSER"
           name == Composition!Cut(n.style, 17)
           title == Composition!Box("DRAWER", 0, 0, 150, 180) \o Composition!Text(heading, 3, 3)
           first == title \o Composition!Text(name, 3, 18)
           second == first \o Composition!Text(name, 3, 32)
           third == second \o Composition!Text(name, 3, 46)
           fourth == third \o Composition!Text(name, 3, 60)
           fifth == fourth \o Composition!Text(name, 3, 74)
<1>1. /\ Fits("drawer", 3, 0, 3, 10) /\ Fits("drawer", 3, 10, 18, 25) /\ Fits("drawer", 3, 25, 32, 39)
      /\ Fits("drawer", 3, 39, 46, 53) /\ Fits("drawer", 3, 53, 60, 67)
      /\ Fits("drawer", 3, 67, 74, 173)
  BY DEF Fits, Within
<1>2. Plain(name) BY WrittenText DEF Composition!Written
<1>3. Plain(heading) BY LiteralText DEF Composition!Literals, Labels
<1>4. Lies("DRAWER", 0, 0, 150, 180) BY DEF Lies, Inside
<1>5. Composition!BrowserPieces(n) = fifth
  BY DEF Composition!BrowserPieces, Composition!RowTop,
         Composition!Drawer, Composition!DrawerWidth, Composition!Height
<1> HIDE DEF heading, name, title, first, second, third, fourth, fifth
<1>6. Scene(n, "drawer", title, 0, 10)
  <2>1. Scene(n, "drawer", Composition!Box("DRAWER", 0, 0, 150, 180), 0, 0) BY <1>4, FirstBox
  <2> QED BY <1>1, <1>3, <2>1, NextLine DEF title
<1>7. Scene(n, "drawer", first, 0, 25) BY <1>1, <1>2, <1>6, NextLine DEF first
<1>8. Scene(n, "drawer", second, 0, 39) BY <1>1, <1>2, <1>7, NextLine DEF second
<1>9. Scene(n, "drawer", third, 0, 53) BY <1>1, <1>2, <1>8, NextLine DEF third
<1>10. Scene(n, "drawer", fourth, 0, 67) BY <1>1, <1>2, <1>9, NextLine DEF fourth
<1>11. Scene(n, "drawer", fifth, 0, 173) BY <1>1, <1>2, <1>10, NextLine DEF fifth
<1> QED BY <1>5, <1>11

\* The diagnostics: a title, five lines of numbers and the way out.
LEMMA DiagnosticsAreLaid ==
  ASSUME NEW n \in Metrics
  PROVE  Scene(n, "drawer", Composition!DiagnosticsPieces(n), 0, 173)
<1> DEFINE heading == "DIAGNOSTICS"
           close == "FN CLOSE"
           line(i) == Composition!Cut(n.lines[i], 31)
           title == Composition!Box("DRAWER", 0, 0, 150, 180) \o Composition!Text(heading, 3, 3)
           first == title \o Composition!Text(line(1), 3, 18)
           second == first \o Composition!Text(line(2), 3, 33)
           third == second \o Composition!Text(line(3), 3, 48)
           fourth == third \o Composition!Text(line(4), 3, 63)
           fifth == fourth \o Composition!Text(line(5), 3, 78)
           all == fifth \o Composition!Text(close, 3, 166)
<1>1. /\ Fits("drawer", 3, 0, 3, 10) /\ Fits("drawer", 3, 10, 18, 25) /\ Fits("drawer", 3, 25, 33, 40)
      /\ Fits("drawer", 3, 40, 48, 55) /\ Fits("drawer", 3, 55, 63, 70)
      /\ Fits("drawer", 3, 70, 78, 85) /\ Fits("drawer", 3, 85, 166, 173)
  BY DEF Fits, Within
<1>2. Plain(line(1)) /\ Plain(line(2)) /\ Plain(line(3)) /\ Plain(line(4)) /\ Plain(line(5))
  BY WrittenText DEF Composition!Written
<1>3. Plain(heading) /\ Plain(close) BY LiteralText DEF Composition!Literals, Labels
<1>4. Lies("DRAWER", 0, 0, 150, 180) BY DEF Lies, Inside
<1>5. Composition!DiagnosticsPieces(n) = all
  BY DEF Composition!DiagnosticsPieces,
         Composition!Drawer, Composition!DrawerWidth, Composition!Height
<1> HIDE DEF heading, close, line, title, first, second, third, fourth, fifth, all
<1>6. Scene(n, "drawer", title, 0, 10)
  <2>1. Scene(n, "drawer", Composition!Box("DRAWER", 0, 0, 150, 180), 0, 0) BY <1>4, FirstBox
  <2> QED BY <1>1, <1>3, <2>1, NextLine DEF title
<1>7. Scene(n, "drawer", first, 0, 25) BY <1>1, <1>2, <1>6, NextLine DEF first
<1>8. Scene(n, "drawer", second, 0, 40) BY <1>1, <1>2, <1>7, NextLine DEF second
<1>9. Scene(n, "drawer", third, 0, 55) BY <1>1, <1>2, <1>8, NextLine DEF third
<1>10. Scene(n, "drawer", fourth, 0, 70) BY <1>1, <1>2, <1>9, NextLine DEF fourth
<1>11. Scene(n, "drawer", fifth, 0, 85) BY <1>1, <1>2, <1>10, NextLine DEF fifth
<1>12. Scene(n, "drawer", all, 0, 173)
  <2>1. Plain(close) /\ Fits("drawer", 3, 85, 166, 173) BY <1>1, <1>3
  <2> QED BY <1>11, <2>1, NextLine DEF all
<1> QED BY <1>5, <1>12

\* Two texts in one row: the first ends before the other starts.
Beside(n, place, x, y0, y, value, x2) ==
  /\ x \in 0..234 /\ y \in 0..173 /\ y0 \in Nat /\ x2 \in Nat /\ y0 <= y /\ Within(place, x, y)
  /\ Tidy(n) => x + 6 * Chars(value) <= x2
LEMMA LineBefore ==
  ASSUME NEW n, NEW place, NEW s, NEW y0, Scene(n, place, s, 0, y0), NEW value, Plain(value),
         NEW x, NEW y, NEW x2, Beside(n, place, x, y0, y, value, x2)
  PROVE  Scene(n, place, s \o Composition!Text(value, x, y), x2, y)
<1>1. /\ x \in 0..234 /\ y \in 0..173 /\ y0 \in Nat /\ x2 \in Nat /\ 0 \in Nat /\ Within(place, x, y)
      /\ x \in Nat /\ y \in Nat /\ x >= 0 /\ y >= y0 /\ (Tidy(n) => x + 6 * Chars(value) <= x2)
  BY DEF Beside
<1>2. Scene(n, place, s, x, y) BY <1>1, GoesOn, Zenon
<1> QED BY <1>1, <1>2, LineIsLaid, Zenon DEF Plain
\* Of the row that has begun, the next text may start lower.
LEMMA RowEnds ==
  ASSUME NEW n, NEW place, NEW s, NEW x \in Nat, NEW y0, Scene(n, place, s, x, y0),
         NEW left, NEW y, NEW y2, Fits(place, left, y0, y, y2)
  PROVE  Scene(n, place, s, 0, y2)
<1>1. y0 \in Nat /\ y2 \in Nat /\ 0 \in Nat /\ y2 >= y0 + 7 BY DEF Fits
<1> QED BY <1>1, GoesOn, Zenon
LEMMA LineAfter ==
  ASSUME NEW n, NEW place, NEW s, NEW x, NEW y, Scene(n, place, s, x, y), NEW value, Plain(value),
         NEW y2, Fits(place, x, y, y, y2)
  PROVE  Scene(n, place, s, 0, y2) /\ Scene(n, place, s \o Composition!Text(value, x, y), 0, y2)
<1>1. /\ x \in 0..234 /\ y \in 0..173 /\ y2 \in Nat /\ 0 \in Nat /\ Within(place, x, y)
      /\ x \in Nat /\ y2 >= y + 7
  BY DEF Fits
<1> QED BY <1>1, RowEnds, LineIsLaid, Zenon DEF Plain

\* The bars of the camera.  FOCUS is drawn last and lies between the bars.
LEMMA FocusIsLaid ==
  ASSUME NEW n, NEW s, Scene(n, "bars", s, 0, 173)
  PROVE  Scene(n, "camera", s \o Composition!When(n.focus, Composition!Text("FOCUS", 204, 17)), 0, 173)
<1>1. Scene(n, "camera", s, 0, 173) BY DEF Scene, Within
<1>2. PICK piece : /\ Composition!Text("FOCUS", 204, 17) = <<piece>>
                   /\ IsLine(piece, "FOCUS", 204, 17)
  <2>1. "FOCUS" \in Composition!Literals BY DEF Composition!Literals
  <2>2. Chars("FOCUS") \in 0..30 BY <2>1, LiteralText, Zenon
  <2>3. Chars("FOCUS") \in Nat /\ 204 \in 0..234 /\ 17 \in Int BY <2>2
  <2> QED BY <2>3, TextIsLine, Zenon
<1>3. /\ IsPile(<<piece>>) /\ IsPile(s) /\ IsPile(s \o <<piece>>)
      /\ Pieces(<<piece>>) = {piece} /\ Pieces(s \o <<piece>>) = Pieces(s) \union {piece}
  BY PieceIsPile, PilesJoin DEF Scene
<1>4. /\ OnScreen(piece) /\ Within("camera", piece.left, piece.top)
      /\ piece.bottom = piece.top + 7 /\ piece.what \notin Labels
  BY <1>2 DEF OnScreen, IsLine, Within, Labels
<1>5. ASSUME NEW q \in Pieces(s) PROVE Clear(q, piece)
  <2>1. OnScreen(q) /\ (q.solid \/ (Within("bars", q.left, q.top) /\ q.bottom = q.top + 7))
    BY DEF Scene
  <2>2. q.top \in Int /\ q.bottom \in Int BY <2>1 DEF OnScreen
  <2>3. q.solid \/ q.bottom <= 10 \/ q.top >= 163 BY <2>1, <2>2 DEF Within
  <2>4. q.solid \/ ~(q.top < piece.bottom /\ piece.top < q.bottom) BY <1>2, <2>2, <2>3 DEF IsLine
  <2> QED BY <2>4 DEF Clear, Composition!Overlap
<1>6. Tidy(n) => Apart(s \o <<piece>>) /\ Reaches(s \o <<piece>>, 0, 173)
  <2>1. Apart(<<piece>>) BY <1>3, PilesJoin DEF Apart
  <2>2. Tidy(n) => Apart(s) /\ Reaches(s, 0, 173) BY DEF Scene
  <2>3. piece.bottom <= 173 BY <1>2 DEF IsLine
  <2>4. Reaches(s, 0, 173) => Reaches(s \o <<piece>>, 0, 173) BY <1>3, <2>3 DEF Reaches
  <2> QED BY <1>3, <1>5, <2>1, <2>2, <2>4, ApartJoins
<1>7. Scene(n, "camera", s \o <<piece>>, 0, 173) BY <1>1, <1>3, <1>4, <1>6 DEF Scene
<1> DEFINE all == s \o Composition!When(n.focus, Composition!Text("FOCUS", 204, 17))
<1>8. all = s \o <<piece>> \/ all = s \o <<>> BY <1>2 DEF Composition!When
<1> HIDE DEF all
<1>9. Scene(n, "camera", all, 0, 173) BY <1>1, <1>7, <1>8, MaybeLaid
<1> QED BY <1>9 DEF all

\* The bars of the camera: the style, the favorite, the category and the focus.
LEMMA BarsAreLaid ==
  ASSUME NEW n \in Metrics
  PROVE  Scene(n, "camera", Composition!BarPieces(n), 0, 173)
<1> DEFINE star == "F"
           legend == "< STYLE > CENTER"
           name == Composition!Cut(n.style, 19)
           header == Composition!Box("HEADER", 0, 0, 240, 12)
           named == header \o Composition!Text(name, 2, 2)
           starred == named \o Composition!When(n.favorite, Composition!Text(star, 226, 2))
           footer == starred \o Composition!Box("FOOTER", 0, 158, 240, 180)
           kind == footer \o Composition!Text(n.category, 2, 163)
           keys == kind \o Composition!Text(legend, 132, 163)
           all == keys \o Composition!When(n.focus, Composition!Text("FOCUS", 204, 17))
<1>1. /\ Fits("bars", 226, 2, 2, 157) /\ Fits("bars", 132, 163, 163, 173)
      /\ Lies("HEADER", 0, 0, 240, 12) /\ Lies("FOOTER", 0, 158, 240, 180)
  BY DEF Fits, Within, Lies, Inside
<1>2. Plain(name) /\ Plain(n.category) BY WrittenText DEF Composition!Written
<1>3. Plain(star) /\ Plain(legend) BY LiteralText DEF Composition!Literals, Labels
<1>4. Beside(n, "bars", 2, 0, 2, name, 226) /\ Beside(n, "bars", 2, 157, 163, n.category, 132)
  <2>1. Chars(name) <= 19 /\ Chars(n.category) <= 21 BY WrittenAssumption, Zenon DEF Chars
  <2> HIDE DEF name
  <2> QED BY <1>2, <2>1 DEF Beside, Within, Plain
<1>5. Composition!BarPieces(n) = all
  BY DEF Composition!BarPieces, Composition!Width, Composition!Height
<1> HIDE DEF star, legend, name, header, named, starred, footer, kind, keys, all
<1>6. Scene(n, "bars", header, 0, 0) BY <1>1, FirstBox DEF header
<1>7. Scene(n, "bars", named, 226, 2)
  <2>1. Plain(name) /\ Beside(n, "bars", 2, 0, 2, name, 226) BY <1>2, <1>4
  <2> QED BY <1>6, <2>1, LineBefore DEF named
<1>8. Scene(n, "bars", starred, 0, 157)
  <2>1. Plain(star) /\ Fits("bars", 226, 2, 2, 157) BY <1>1, <1>3
  <2>2. /\ Scene(n, "bars", named, 0, 157)
        /\ Scene(n, "bars", named \o Composition!Text(star, 226, 2), 0, 157)
    BY <1>7, <2>1, LineAfter
  <2>3. starred = named \o Composition!Text(star, 226, 2) \/ starred = named \o <<>>
    BY DEF starred, Composition!When
  <2> QED BY <2>2, <2>3, MaybeLaid
<1>9. Scene(n, "bars", footer, 0, 157)
  <2>1. Lies("FOOTER", 0, 158, 240, 180) BY <1>1
  <2> QED BY <1>8, <2>1, BoxIsLaid DEF footer
<1>10. Scene(n, "bars", kind, 132, 163) BY <1>2, <1>4, <1>9, LineBefore DEF kind
<1>11. Scene(n, "bars", keys, 0, 173) BY <1>1, <1>3, <1>10, LineAfter DEF keys
<1> QED BY <1>5, <1>11, FocusIsLaid DEF all

\* The gallery.  A name of up to 21 characters ends before the label beside it.
LEMMA GalleryIsLaid ==
  ASSUME NEW n \in Metrics, Composition!InGallery(n)
  PROVE  Scene(n, "gallery", Composition!GalleryPieces(n), 0, 177)
<1> DEFINE heading == "PHOTO GALLERY"
           empty == "NO RETRO PHOTOS"
           wait == "LOADING"
           label == "PROCESSED 320X240"
           name == Composition!Cut(n.photoStyle, 23)
           count == Composition!CountText(n)
           header == Composition!Box("HEADER", 0, 0, 240, 14)
           title == header \o Composition!Text(heading, 3, 3)
           none == title \o Composition!Text(empty, 72, 82)
           counted == title \o Composition!Text(count, 204, 3)
           loading == title \o Composition!Text(wait, 99, 82)
           state == title \o (IF n.photos <= 0 THEN Composition!Text(empty, 72, 82)
                              ELSE IF n.thumbnail THEN Composition!Text(count, 204, 3)
                              ELSE Composition!Text(wait, 99, 82))
           footer == state \o Composition!Box("FOOTER", 0, 151, 240, 180)
           style == Composition!Text(name, 3, 155)
           made == Composition!Text(label, 132, 155)
           both == (footer \o style) \o made
           photo == footer \o Composition!When(n.photos > 0, style \o made)
           keys == IF n.scene = "deleteConfirm" THEN "CENTER DELETE    BACK CANCEL"
                   ELSE "LEFT RIGHT       BACK DELETE"
           all == photo \o Composition!Text(keys, 3, 170)
<1>1. /\ Fits("gallery", 204, 3, 3, 10) /\ Fits("gallery", 204, 3, 3, 150)
      /\ Fits("gallery", 72, 10, 82, 150) /\ Fits("gallery", 99, 10, 82, 150)
      /\ Fits("gallery", 132, 155, 155, 162) /\ Fits("gallery", 132, 150, 155, 162)
      /\ Fits("gallery", 3, 162, 170, 177)
      /\ Lies("HEADER", 0, 0, 240, 14) /\ Lies("FOOTER", 0, 151, 240, 180)
  BY DEF Fits, Within, Lies, Inside
<1>2. Plain(name) /\ Plain(count) BY WrittenText DEF Composition!Written
<1>3. /\ Plain(heading) /\ Plain(empty) /\ Plain(wait)
      /\ Plain(label) /\ Plain(keys)
  BY LiteralText DEF Composition!Literals, Labels
<1>4. Beside(n, "gallery", 3, 0, 3, heading, 204)
  <2>1. heading \in Composition!Literals BY DEF Composition!Literals
  <2> HIDE DEF heading
  <2>2. Chars(heading) \in 0..30 BY <2>1, LiteralText, Zenon
  <2> QED BY <2>2 DEF Beside, Within
<1>5. Beside(n, "gallery", 3, 150, 155, name, 132)
  <2>1. Chars(name) <= Chars(n.photoStyle) /\ Chars(n.photoStyle) \in Nat
    BY WrittenAssumption, Zenon DEF Chars
  <2>2. Tidy(n) => ~(Chars(n.photoStyle) > 21) BY Zenon DEF Tidy, Chars
  <2>3. Chars(name) \in Nat BY <1>2 DEF Plain
  <2> HIDE DEF name
  <2>4. Tidy(n) => 3 + 6 * Chars(name) <= 132 BY <2>1, <2>2, <2>3
  <2> QED BY <2>4 DEF Beside, Within
<1>7. Composition!GalleryPieces(n) = all
  BY DEF Composition!GalleryPieces, Composition!Width, Composition!Height
<1>8. state \in {none, counted, loading} OBVIOUS
<1>9. IsPile(style) /\ IsPile(made)
  <2> DEFINE left == 3
             right == 132
             below == 155
  <2>1. left \in 0..234 /\ right \in 0..234 /\ below \in Int OBVIOUS
  <2>2. Chars(name) \in Nat /\ Chars(label) \in Nat BY <1>2, <1>3 DEF Plain
  <2> HIDE DEF name, label, left, right, below
  <2>3. Composition!Text(name, left, below) = <<Line(name, left, below)>> BY <2>1, <2>2, TextIsLine, Zenon
  <2>4. Composition!Text(label, right, below) = <<Line(label, right, below)>> BY <2>1, <2>2, TextIsLine, Zenon
  <2>5. style = <<Line(name, left, below)>> /\ made = <<Line(label, right, below)>>
    BY <2>3, <2>4 DEF left, right, below
  <2> HIDE DEF style, made
  <2> QED BY <2>5, PieceIsPile
<1> HIDE DEF heading, empty, wait, label, name, count, header, title, none, counted, loading, state,
             footer, style, made, both, photo, keys, all
<1>10. Scene(n, "gallery", header, 0, 0) BY <1>1, FirstBox DEF header
<1>11. Scene(n, "gallery", title, 204, 3) BY <1>3, <1>4, <1>10, LineBefore DEF title
<1>12. Scene(n, "gallery", counted, 0, 150) BY <1>1, <1>2, <1>11, LineAfter DEF counted
<1>13. Scene(n, "gallery", title, 0, 10)
  <2>1. 204 \in Nat /\ Fits("gallery", 204, 3, 3, 10) BY <1>1
  <2> QED BY <1>11, <2>1, RowEnds
<1>14. Scene(n, "gallery", none, 0, 150)
  <2>1. Plain(empty) /\ Fits("gallery", 72, 10, 82, 150) BY <1>1, <1>3
  <2> QED BY <1>13, <2>1, NextLine DEF none
<1>15. Scene(n, "gallery", loading, 0, 150)
  <2>1. Plain(wait) /\ Fits("gallery", 99, 10, 82, 150) BY <1>1, <1>3
  <2> QED BY <1>13, <2>1, NextLine DEF loading
<1>16. Scene(n, "gallery", state, 0, 150)
  <2>1. state = none \/ state = counted \/ state = loading BY <1>8
  <2> QED BY <1>12, <1>14, <1>15, <2>1
<1>17. Scene(n, "gallery", footer, 0, 150)
  <2>1. Lies("FOOTER", 0, 151, 240, 180) BY <1>1
  <2> QED BY <1>16, <2>1, BoxIsLaid DEF footer
<1>18. Scene(n, "gallery", footer \o style, 132, 155) BY <1>2, <1>5, <1>17, LineBefore DEF style
<1>19. Scene(n, "gallery", both, 0, 162) BY <1>1, <1>3, <1>18, LineAfter DEF both, made
<1>20. Scene(n, "gallery", footer, 0, 162)
  <2>1. 0 \in Nat /\ Fits("gallery", 132, 150, 155, 162) BY <1>1
  <2> QED BY <1>17, <2>1, RowEnds
<1>21. Scene(n, "gallery", photo, 0, 162)
  <2>1. IsPile(footer) BY <1>17, Zenon DEF Scene
  <2>2. footer \o (style \o made) = both BY <1>9, <2>1, PilesAssociate DEF both
  <2>3. Scene(n, "gallery", footer \o (style \o made), 0, 162) BY <1>19, <2>2
  <2>4. photo = footer \o (style \o made) \/ photo = footer \o <<>>
    BY DEF photo, Composition!When
  <2> QED BY <1>20, <2>3, <2>4, MaybeLaid
<1>22. Scene(n, "gallery", all, 0, 177)
  <2>1. Plain(keys) /\ Fits("gallery", 3, 162, 170, 177) BY <1>1, <1>3
  <2> QED BY <1>21, <2>1, NextLine DEF all
<1> QED BY <1>7, <1>22

\* The screen before the first frame: four texts under each other.
LEMMA StatusIsLaid ==
  ASSUME NEW n \in Metrics
  PROVE  Scene(n, "anywhere", Composition!StatusPieces(n), 0, 90)
<1> DEFINE engine == "PHOTO ENGINE F1"
           state == IF Composition!Imbalance(n) THEN "BUFFER IMBALANCE"
                    ELSE IF n.decodeError THEN "DECODE ERROR" ELSE "SEQUENCE ACTIVE"
           rate == IF n.decodeError THEN "DECODE FAIL 1 JPEG 20K" ELSE "FPS 9.0 JPEG 20K"
           balance == n.lines[2]
           bars == Composition!Box("BARS", 9, 7, 111, 25)
           first == bars \o Composition!Text(engine, 4, 30)
           second == first \o Composition!Text(state, 4, 45)
           third == second \o Composition!Text(balance, 4, 60)
           all == third \o Composition!Text(rate, 4, 75)
<1>1. /\ Fits("anywhere", 4, 0, 30, 37) /\ Fits("anywhere", 4, 37, 45, 52)
      /\ Fits("anywhere", 4, 52, 60, 67) /\ Fits("anywhere", 4, 67, 75, 90)
      /\ Lies("BARS", 9, 7, 111, 25)
  BY DEF Fits, Within, Lies, Inside
<1>2. Plain(engine) /\ Plain(state) /\ Plain(rate)
  BY LiteralText DEF Composition!Literals, Labels
<1>3. Plain(balance) BY WrittenText DEF Composition!Written
<1>4. Composition!StatusPieces(n) = all BY DEF Composition!StatusPieces
<1> HIDE DEF engine, state, rate, balance, bars, first, second, third, all
<1>5. Scene(n, "anywhere", bars, 0, 0) BY <1>1, FirstBox DEF bars
<1>6. Scene(n, "anywhere", first, 0, 37) BY <1>1, <1>2, <1>5, NextLine DEF first
<1>7. Scene(n, "anywhere", second, 0, 52) BY <1>1, <1>2, <1>6, NextLine DEF second
<1>8. Scene(n, "anywhere", third, 0, 67) BY <1>1, <1>3, <1>7, NextLine DEF third
<1>9. Scene(n, "anywhere", all, 0, 90) BY <1>1, <1>2, <1>8, NextLine DEF all
<1> QED BY <1>4, <1>9

\* The texts of every scene keep to its place.
Place(n) ==
  IF Composition!InGallery(n) THEN "gallery"
  ELSE IF Composition!InDrawer(n) THEN "drawer" ELSE "camera"
Keeps(n, place, s) ==
  /\ IsPile(s)
  /\ \A p \in Pieces(s) :
       /\ OnScreen(p)
       /\ p.solid \/ (Within(place, p.left, p.top) /\ p.bottom = p.top + 7 /\ p.what \notin Labels)
  /\ Tidy(n) => Apart(s)
LEMMA SceneKeeps ==
  ASSUME NEW n \in Metrics
  PROVE  Keeps(n, Place(n), Composition!ScenePieces(n))
<1>1. \A place, s, x, y : Scene(n, place, s, x, y) => Keeps(n, place, s) BY Zenon DEF Scene, Keeps
<1>2. Keeps(n, "camera", <<>>)
  <2>1. Apart(<<>>) BY NoPiece DEF Apart
  <2> QED BY <2>1, NoPiece DEF Keeps
<1>3. CASE Composition!InGallery(n)
  <2>1. Keeps(n, "gallery", Composition!GalleryPieces(n)) BY <1>1, <1>3, GalleryIsLaid, Zenon
  <2> QED BY <1>3, <2>1 DEF Place, Composition!InGallery, Composition!ScenePieces
<1>4. CASE n.scene = "controls"
  <2>1. Keeps(n, "drawer", Composition!ControlPieces(n)) BY <1>1, ControlsAreLaid, Zenon
  <2> QED BY <1>4, <2>1 DEF Place, Composition!InGallery, Composition!InDrawer, Composition!ScenePieces
<1>5. CASE n.scene = "browser"
  <2>1. Keeps(n, "drawer", Composition!BrowserPieces(n)) BY <1>1, BrowserIsLaid, Zenon
  <2> QED BY <1>5, <2>1 DEF Place, Composition!InGallery, Composition!InDrawer, Composition!ScenePieces
<1>6. CASE n.scene = "diagnostics"
  <2>1. Keeps(n, "drawer", Composition!DiagnosticsPieces(n)) BY <1>1, DiagnosticsAreLaid, Zenon
  <2> QED BY <1>6, <2>1 DEF Place, Composition!InGallery, Composition!InDrawer, Composition!ScenePieces
<1>7. CASE ~Composition!InGallery(n) /\ n.scene \notin {"controls", "browser", "diagnostics"}
  <2>1. Keeps(n, "camera", Composition!BarPieces(n)) BY <1>1, BarsAreLaid, Zenon
  <2>2. Composition!ScenePieces(n) \in {<<>>, Composition!BarPieces(n)}
    BY <1>7 DEF Composition!ScenePieces, Composition!When
  <2>3. Place(n) = "camera" BY <1>7 DEF Place, Composition!InDrawer
  <2> QED BY <1>2, <2>1, <2>2, <2>3
<1> QED BY <1>3, <1>4, <1>5, <1>6, <1>7

\* The labels of the compare, one on each half.
Original == Line("ORIGINAL", 2, 14)
RetroLens == Line("RETROLENS", 123, 14)
LEMMA LabelsAreLaid ==
  ASSUME NEW n
  PROVE  LET t == Composition!ComparePieces(n)
         IN  /\ IsLine(Original, "ORIGINAL", 2, 14) /\ Original.right < 50
             /\ Composition!CharsDrawn("ORIGINAL", 2) = Len("ORIGINAL")
             /\ IsLine(RetroLens, "RETROLENS", 123, 14) /\ RetroLens.right < 177
             /\ IsPile(t) /\ Apart(t)
             /\ IF n.compare /\ ~Composition!InGallery(n)
                THEN t = <<Original>> \o <<RetroLens>> /\ Pieces(t) = {Original, RetroLens}
                ELSE t = <<>> /\ Pieces(t) = {}
<1>1. Chars("ORIGINAL") = 8 /\ Chars("RETROLENS") = 9 BY WrittenAssumption, Zenon DEF Chars
<1>2. /\ IsLine(Original, "ORIGINAL", 2, 14) /\ Original.right < 50
      /\ Composition!Text("ORIGINAL", 2, 14) = <<Original>>
      /\ Composition!CharsDrawn("ORIGINAL", 2) = Chars("ORIGINAL")
  <2> DEFINE value == "ORIGINAL"
             x == 2
  <2>1. x + 6 * Chars(value) = 50 /\ x + 6 * Chars(value) <= 240 BY <1>1
  <2>2. Chars(value) \in Nat /\ x \in 0..234 /\ 14 \in Int BY <1>1
  <2> HIDE DEF value, x
  <2>3. Composition!Text(value, x, 14) = <<Line(value, x, 14)>> BY <2>2, TextIsLine, Zenon
  <2>4. IsLine(Line(value, x, 14), value, x, 14) BY <2>2, TextIsLine, Zenon
  <2>5. Composition!CharsDrawn(value, x) = Chars(value) BY <2>1, <2>2, TextIsLine, Zenon
  <2>6. Line(value, x, 14).right < 50 BY <2>1, <2>4 DEF IsLine
  <2> QED BY <2>3, <2>4, <2>5, <2>6 DEF Original, value, x
<1>3. /\ IsLine(RetroLens, "RETROLENS", 123, 14) /\ RetroLens.right < 177
      /\ Composition!Text("RETROLENS", 123, 14) = <<RetroLens>>
  <2> DEFINE value == "RETROLENS"
             x == 123
  <2>1. x + 6 * Chars(value) = 177 BY <1>1
  <2>2. Chars(value) \in Nat /\ x \in 0..234 /\ 14 \in Int BY <1>1
  <2> HIDE DEF value, x
  <2>3. Composition!Text(value, x, 14) = <<Line(value, x, 14)>> BY <2>2, TextIsLine, Zenon
  <2>4. IsLine(Line(value, x, 14), value, x, 14) BY <2>2, TextIsLine, Zenon
  <2>5. Line(value, x, 14).right < 177 BY <2>1, <2>4 DEF IsLine
  <2> QED BY <2>3, <2>4, <2>5 DEF RetroLens, value, x
<1> DEFINE t == Composition!ComparePieces(n)
           both == <<Original>> \o <<RetroLens>>
<1>4. t = IF n.compare /\ ~Composition!InGallery(n) THEN both ELSE <<>>
  BY <1>2, <1>3 DEF Composition!ComparePieces, Composition!When, Composition!Half, Composition!Width
<1>5. /\ IsPile(<<Original>>) /\ Pieces(<<Original>>) = {Original}
      /\ IsPile(<<RetroLens>>) /\ Pieces(<<RetroLens>>) = {RetroLens}
  BY PieceIsPile
<1>6. IsPile(both) /\ Pieces(both) = {Original, RetroLens} BY <1>5, PilesJoin
<1>7. Apart(both)
  <2>1. Apart(<<Original>>) /\ Apart(<<RetroLens>>) BY <1>5, PilesJoin DEF Apart
  <2>2. Clear(Original, RetroLens) BY <1>2, <1>3 DEF IsLine, Clear, Composition!Overlap
  <2> QED BY <1>5, <2>1, <2>2, ApartJoins
<1>8. IsPile(<<>>) /\ Pieces(<<>>) = {} /\ Apart(<<>>) BY NoPiece DEF Apart
<1> QED BY <1>2, <1>3, <1>4, <1>6, <1>7, <1>8 DEF Chars

\* A notice is a box with one text in it.
LEMMA NoticeIsLaid ==
  ASSUME NEW box, box.solid, NEW line
  PROVE  /\ IsPile(<<box>> \o <<line>>) /\ Pieces(<<box>> \o <<line>>) = {box, line}
         /\ Apart(<<box>> \o <<line>>)
<1>1. IsPile(<<box>>) /\ Pieces(<<box>>) = {box} /\ IsPile(<<line>>) /\ Pieces(<<line>>) = {line}
  BY PieceIsPile
<1>2. IsPile(<<box>> \o <<line>>) /\ Pieces(<<box>> \o <<line>>) = {box, line} BY <1>1, PilesJoin
<1>3. Apart(<<box>> \o <<line>>)
  <2>1. Apart(<<box>>) /\ Apart(<<line>>) BY <1>1, PilesJoin DEF Apart
  <2>2. Clear(box, line) BY DEF Clear
  <2> QED BY <1>1, <2>1, <2>2, ApartJoins
<1> QED BY <1>2, <1>3

\* The answer to the user.
Message(n) == Line(Composition!Answer(n), 35, 82)
MessageBox == Area("MESSAGE", 30, 78, 210, 94)
IsAnswered(n) == Composition!Answer(n) # "" /\ ~Composition!InGallery(n)
\* Every answer is counted and none is a label.
LEMMA AnswerIsPlain ==
  ASSUME NEW n, Composition!Answer(n) # ""
  PROVE  Chars(Composition!Answer(n)) \in 0..30 /\ Plain(Composition!Answer(n))
<1> DEFINE answer == Composition!Answer(n)
           ofPhoto == {Composition!Answers[s] : s \in DOMAIN Composition!Answers}
           ofCard == {Composition!StorageAnswers[s] : s \in DOMAIN Composition!StorageAnswers}
<1>1. answer \in ofPhoto \union ofCard \union {"RETRO CARD NOT READY"}
  <2>1. CASE n.status = "unavailable" /\ n.storage \in DOMAIN Composition!StorageAnswers
    BY <2>1 DEF Composition!Answer, Composition!Answers
  <2>2. CASE n.status = "unavailable" /\ n.storage \notin DOMAIN Composition!StorageAnswers
    BY <2>2 DEF Composition!Answer, Composition!Answers
  <2>3. CASE n.status # "unavailable" BY <2>3 DEF Composition!Answer
  <2> QED BY <2>1, <2>2, <2>3
<1>2. ASSUME NEW s \in DOMAIN Composition!Answers PROVE Composition!Answers[s] \notin Labels
  <2>1. s \in {"saving", "saved", "failed", "busy", "deleted", "videoDisabled", "noFrame"}
    BY DEF Composition!Answers
  <2>2. /\ Composition!Answers["saving"] \notin Labels /\ Composition!Answers["saved"] \notin Labels
        /\ Composition!Answers["failed"] \notin Labels /\ Composition!Answers["busy"] \notin Labels
        /\ Composition!Answers["deleted"] \notin Labels
        /\ Composition!Answers["videoDisabled"] \notin Labels
        /\ Composition!Answers["noFrame"] \notin Labels
    BY DEF Composition!Answers, Labels
  <2> QED BY <2>1, <2>2
<1>3. ASSUME NEW s \in DOMAIN Composition!StorageAnswers
      PROVE  Composition!StorageAnswers[s] \notin Labels
  <2>1. s \in {"directoryFailed", "insufficientSpace", "indexFailed", "writeProbeFailed",
               "initializing"}
    BY DEF Composition!StorageAnswers
  <2>2. /\ Composition!StorageAnswers["directoryFailed"] \notin Labels
        /\ Composition!StorageAnswers["insufficientSpace"] \notin Labels
        /\ Composition!StorageAnswers["indexFailed"] \notin Labels
        /\ Composition!StorageAnswers["writeProbeFailed"] \notin Labels
        /\ Composition!StorageAnswers["initializing"] \notin Labels
    BY DEF Composition!StorageAnswers, Labels
  <2> QED BY <2>1, <2>2
<1>4. "RETRO CARD NOT READY" \notin Labels BY DEF Labels
<1>5. answer \in Composition!Literals BY <1>1 DEF Composition!Literals
<1>6. answer \notin Labels BY <1>1, <1>2, <1>3, <1>4
<1> QED BY <1>5, <1>6, LiteralText, Zenon
\* The message is its box and the answer in it, all of which has room.
LEMMA MessageIsLaid ==
  ASSUME NEW n
  PROVE  LET t == Composition!MessagePieces(n)
         IN  /\ IsPile(t) /\ Apart(t)
             /\ IF IsAnswered(n)
                THEN /\ t = <<MessageBox>> \o <<Message(n)>> /\ Pieces(t) = {MessageBox, Message(n)}
                     /\ IsLine(Message(n), Composition!Answer(n), 35, 82)
                     /\ Plain(Composition!Answer(n))
                     /\ Composition!CharsDrawn(Composition!Answer(n), 35) = Len(Composition!Answer(n))
                     /\ MessageBox.solid /\ OnScreen(MessageBox)
                ELSE t = <<>> /\ Pieces(t) = {}
<1> DEFINE value == Composition!Answer(n)
<1>1. ASSUME ~IsAnswered(n)
      PROVE  /\ Composition!MessagePieces(n) = <<>>
             /\ IsPile(<<>>) /\ Pieces(<<>>) = {} /\ Apart(<<>>)
  <2>1. Composition!MessagePieces(n) = <<>>
    BY <1>1 DEF IsAnswered, Composition!MessagePieces, Composition!When
  <2> QED BY <2>1, NoPiece DEF Apart
<1>2. ASSUME IsAnswered(n)
      PROVE  LET t == Composition!MessagePieces(n)
             IN  /\ t = <<MessageBox>> \o <<Message(n)>> /\ IsPile(t)
                 /\ Pieces(t) = {MessageBox, Message(n)} /\ Apart(t)
                 /\ MessageBox.solid /\ OnScreen(MessageBox)
                 /\ IsLine(Message(n), value, 35, 82) /\ Plain(value)
                 /\ Composition!CharsDrawn(value, 35) = Chars(value)
  <2>1. Composition!MessagePieces(n)
          = Composition!Box("MESSAGE", 30, 78, 210, 94) \o Composition!Text(value, 35, 82)
    BY <1>2 DEF IsAnswered, Composition!MessagePieces, Composition!MessageLeft, Composition!When
  <2>2. Chars(value) \in 0..30 /\ Plain(value) BY <1>2, AnswerIsPlain, Zenon DEF IsAnswered
  <2> DEFINE x == 35
             y == 82
  <2> HIDE DEF value
  <2>3. Chars(value) \in Nat /\ x \in 0..234 /\ y \in Int /\ x + 6 * Chars(value) <= 240 BY <2>2
  <2>4. Composition!Box("MESSAGE", 30, 78, 210, 94) = <<MessageBox>>
    <3>1. Inside(30, 78, 210, 94) BY DEF Inside
    <3> QED BY <3>1, BoxIsArea DEF MessageBox
  <2> HIDE DEF x, y
  <2>5. IsLine(Line(value, x, y), value, x, y) /\ Composition!CharsDrawn(value, x) = Chars(value)
    BY <2>3, TextIsLine, Zenon
  <2>6. Composition!Text(value, x, y) = <<Message(n)>>
    BY <2>3, TextIsLine, Zenon DEF Message, value, x, y
  <2>7. Composition!MessagePieces(n) = <<MessageBox>> \o <<Message(n)>>
    BY <2>1, <2>4, <2>6 DEF x, y
  <2>8. MessageBox.solid /\ OnScreen(MessageBox) BY DEF MessageBox, Area, OnScreen
  <2>9. IsLine(Message(n), value, 35, 82) /\ Composition!CharsDrawn(value, 35) = Chars(value)
    BY <2>5 DEF Message, value, x, y
  <2> DEFINE t == <<MessageBox>> \o <<Message(n)>>
  <2>10. IsPile(t) /\ Pieces(t) = {MessageBox, Message(n)} /\ Apart(t) BY <2>8, NoticeIsLaid, Zenon
  <2> HIDE DEF t
  <2> QED BY <2>2, <2>7, <2>8, <2>9, <2>10, Zenon DEF t
<1> QED BY <1>1, <1>2 DEF Chars

\* The alert.
Alarmed(n) == Composition!Imbalance(n) \/ n.decodeError
Alarm(n) == Line(IF Composition!Imbalance(n) THEN "BUFFER IMBALANCE" ELSE "DECODE ERROR", 55, 75)
AlertBox == Area("ALERT", 30, 62, 210, 96)
\* The alert is its box and one of two texts in it.
LEMMA AlertIsLaid ==
  ASSUME NEW n
  PROVE  LET t == Composition!AlertPieces(n)
         IN  /\ IsPile(t) /\ Apart(t)
             /\ IF Alarmed(n)
                THEN /\ Pieces(t) = {AlertBox, Alarm(n)}
                     /\ IsLine(Alarm(n), Alarm(n).what, 55, 75) /\ Alarm(n).what \notin Labels
                     /\ AlertBox.solid /\ OnScreen(AlertBox)
                ELSE t = <<>> /\ Pieces(t) = {}
<1> DEFINE value == IF Composition!Imbalance(n) THEN "BUFFER IMBALANCE" ELSE "DECODE ERROR"
<1>1. ASSUME ~Alarmed(n)
      PROVE  /\ Composition!AlertPieces(n) = <<>>
             /\ IsPile(<<>>) /\ Pieces(<<>>) = {} /\ Apart(<<>>)
  BY <1>1, NoPiece DEF Alarmed, Composition!AlertPieces, Composition!When, Apart
<1>2. ASSUME Alarmed(n)
      PROVE  LET t == Composition!AlertPieces(n)
             IN  /\ IsPile(t) /\ Pieces(t) = {AlertBox, Alarm(n)} /\ Apart(t)
                 /\ AlertBox.solid /\ OnScreen(AlertBox)
                 /\ IsLine(Alarm(n), value, 55, 75) /\ Plain(value)
  <2>1. Composition!AlertPieces(n)
          = Composition!Box("ALERT", 30, 62, 210, 96) \o Composition!Text(value, 55, 75)
    BY <1>2 DEF Alarmed, Composition!AlertPieces, Composition!When
  <2>2. Plain(value) BY LiteralText DEF Composition!Literals, Labels
  <2>3. Alarm(n) = Line(value, 55, 75) BY DEF Alarm
  <2> DEFINE x == 55
             y == 75
  <2> HIDE DEF value
  <2>4. Chars(value) \in Nat /\ x \in 0..234 /\ y \in Int BY <2>2 DEF Plain
  <2>5. Composition!Box("ALERT", 30, 62, 210, 96) = <<AlertBox>>
    <3>1. Inside(30, 62, 210, 96) BY DEF Inside
    <3> QED BY <3>1, BoxIsArea DEF AlertBox
  <2> HIDE DEF x, y
  <2>6. IsLine(Line(value, x, y), value, x, y) BY <2>4, TextIsLine, Zenon
  <2>7. Composition!Text(value, x, y) = <<Line(value, x, y)>> BY <2>4, TextIsLine, Zenon
  <2>8. Composition!AlertPieces(n) = <<AlertBox>> \o <<Alarm(n)>>
    BY <2>1, <2>3, <2>5, <2>7 DEF x, y
  <2>9. AlertBox.solid /\ OnScreen(AlertBox) BY DEF AlertBox, Area, OnScreen
  <2>10. IsLine(Alarm(n), value, 55, 75) BY <2>3, <2>6 DEF x, y
  <2> DEFINE t == <<AlertBox>> \o <<Alarm(n)>>
  <2>11. IsPile(t) /\ Pieces(t) = {AlertBox, Alarm(n)} /\ Apart(t) BY <2>9, NoticeIsLaid, Zenon
  <2>12. Composition!AlertPieces(n) = t BY <2>8
  <2> HIDE DEF t
  <2> QED BY <2>2, <2>9, <2>10, <2>11, <2>12, Zenon
<1> HIDE DEF value
<1>3. IsLine(Alarm(n), value, 55, 75) /\ Plain(value) => Alarm(n).what = value /\ value \notin Labels
  BY DEF IsLine, Plain
<1> QED BY <1>1, <1>2, <1>3

\* The focus marks, none of them on an answer.
LEMMA MarksAreLaid ==
  ASSUME NEW n
  PROVE  LET t == Composition!FocusPieces(n)
         IN  /\ IsPile(t) /\ Apart(t)
             /\ \A p \in Pieces(t) :
                  p.solid /\ OnScreen(p) /\ p.top >= 78 /\ (p.bottom <= 79 \/ p.top >= 101)
<1> DEFINE mark(left, top) == Area("FOCUS MARK", left, top, left + 10, top + 1)
           first == <<mark(102, 78)>>
           second == first \o <<mark(128, 78)>>
           third == second \o <<mark(102, 101)>>
           all == third \o <<mark(128, 101)>>
           IsMark(p) ==
             p.solid /\ OnScreen(p) /\ p.top >= 78 /\ (p.bottom <= 79 \/ p.top >= 101)
           Marks(s) == IsPile(s) /\ Apart(s) /\ \A p \in Pieces(s) : IsMark(p)
<1>1. Composition!FocusPieces(n) \in {<<>>, all}
  <2>1. /\ Inside(102, 78, 102 + 10, 78 + 1) /\ Inside(128, 78, 128 + 10, 78 + 1)
        /\ Inside(102, 101, 102 + 10, 101 + 1) /\ Inside(128, 101, 128 + 10, 101 + 1)
    BY DEF Inside
  <2>2. \A left, top : Inside(left, top, left + 10, top + 1) =>
          Composition!Box("FOCUS MARK", left, top, left + 10, top + 1) = <<mark(left, top)>>
    BY BoxIsArea, Zenon
  <2> HIDE DEF mark
  <2>3. Composition!FocusPieces(n)
          \in {<<>>, ((Composition!Box("FOCUS MARK", 102, 78, 102 + 10, 78 + 1)
                      \o Composition!Box("FOCUS MARK", 128, 78, 128 + 10, 78 + 1))
                     \o Composition!Box("FOCUS MARK", 102, 101, 102 + 10, 101 + 1))
                    \o Composition!Box("FOCUS MARK", 128, 101, 128 + 10, 101 + 1)}
    BY DEF Composition!FocusPieces, Composition!When, Composition!Half, Composition!Width,
           Composition!Height
  <2>4. /\ Composition!Box("FOCUS MARK", 102, 78, 102 + 10, 78 + 1) = <<mark(102, 78)>>
        /\ Composition!Box("FOCUS MARK", 128, 78, 128 + 10, 78 + 1) = <<mark(128, 78)>>
        /\ Composition!Box("FOCUS MARK", 102, 101, 102 + 10, 101 + 1) = <<mark(102, 101)>>
        /\ Composition!Box("FOCUS MARK", 128, 101, 128 + 10, 101 + 1) = <<mark(128, 101)>>
    BY <2>1, <2>2, ZenonT(30)
  <2> QED BY <2>3, <2>4, Zenon
<1>2. IsMark(mark(102, 78)) /\ IsMark(mark(128, 78)) /\ IsMark(mark(102, 101)) /\ IsMark(mark(128, 101))
  BY DEF Area, OnScreen
<1> HIDE DEF mark
<1>3. ASSUME NEW p, IsMark(p) PROVE Marks(<<p>>)
  BY <1>3, PieceIsPile, PilesJoin DEF Apart
<1>4. ASSUME NEW s, NEW p, Marks(s), IsMark(p) PROVE Marks(s \o <<p>>)
  <2>1. Marks(<<p>>) BY <1>3, <1>4
  <2>2. \A q \in Pieces(s), r \in Pieces(<<p>>) : Clear(q, r) BY <1>4 DEF Clear
  <2> QED BY <1>4, <2>1, <2>2, PilesJoin, ApartJoins
<1> HIDE DEF IsMark
<1>5. Marks(<<>>) BY NoPiece DEF Apart
<1> HIDE DEF Marks
<1>6. Marks(all) BY <1>2, <1>3, <1>4
<1>7. Marks(Composition!FocusPieces(n)) BY <1>1, <1>5, <1>6
<1> QED BY <1>7 DEF Marks, IsMark

\* What is laid over the texts of a scene clears them or covers them.
LEMMA SceneYields ==
  ASSUME NEW n, NEW p, OnScreen(p), NEW place,
         p.solid \/ (Within(place, p.left, p.top) /\ p.bottom = p.top + 7)
  PROVE  /\ place = "camera" => Clear(p, Original) /\ Clear(p, RetroLens)
         /\ place \in {"camera", "drawer"} /\ IsAnswered(n)
              => Clear(p, Message(n)) \/ Composition!Overlap(p, MessageBox)
         /\ place \in {"camera", "drawer", "gallery"} /\ Alarmed(n)
              => Clear(p, Alarm(n)) \/ Composition!Overlap(p, AlertBox)
<1>1. /\ p.left \in Int /\ p.right \in Int /\ p.top \in Int /\ p.bottom \in Int BY DEF OnScreen
<1>2. /\ IsLine(Original, "ORIGINAL", 2, 14) /\ Original.right < 50
      /\ IsLine(RetroLens, "RETROLENS", 123, 14) /\ RetroLens.right < 177
  BY LabelsAreLaid
<1>3. IsAnswered(n) => IsLine(Message(n), Composition!Answer(n), 35, 82) BY MessageIsLaid
<1>4. CASE p.solid BY <1>4 DEF Clear
<1>5. CASE /\ place = "camera" /\ p.bottom = p.top + 7
           /\ p.top <= 3 \/ p.top >= 163 \/ (p.left >= 204 /\ p.top = 17)
  <2>1. Clear(p, Original) /\ Clear(p, RetroLens)
    BY <1>1, <1>5, <1>2 DEF IsLine, Clear, Composition!Overlap
  <2>2. IsAnswered(n) => Clear(p, Message(n))
    BY <1>1, <1>5, <1>3 DEF IsLine, Clear, Composition!Overlap
  <2>3. Alarmed(n) => Clear(p, Alarm(n))
    BY <1>1, <1>5, AlertIsLaid DEF IsLine, Clear, Composition!Overlap
  <2> QED BY <1>5, <2>1, <2>2, <2>3
<1>6. CASE /\ place = "drawer" /\ p.bottom = p.top + 7 /\ p.left = 3
           /\ p.top <= 63 \/ p.top \in 74..78 \/ p.top >= 163
  <2>1. IsAnswered(n) => Clear(p, Message(n)) \/ Composition!Overlap(p, MessageBox)
    BY <1>1, <1>6, <1>3 DEF IsLine, Clear, Composition!Overlap, MessageBox, Area
  <2>2. Alarmed(n) => Clear(p, Alarm(n)) \/ Composition!Overlap(p, AlertBox)
    BY <1>1, <1>6, AlertIsLaid DEF IsLine, Clear, Composition!Overlap, AlertBox, Area
  <2> QED BY <1>6, <2>1, <2>2
<1>7. CASE place = "gallery" /\ p.bottom = p.top + 7 /\ (p.top <= 3 \/ p.top >= 82)
  <2>1. Alarmed(n) => Clear(p, Alarm(n))
    BY <1>1, <1>7, AlertIsLaid DEF IsLine, Clear, Composition!Overlap
  <2> QED BY <1>7, <2>1
<1>8. CASE place = "anywhere" \/ place \notin {"camera", "drawer", "gallery"} BY <1>8
<1> QED BY <1>1, <1>4, <1>5, <1>6, <1>7, <1>8 DEF Within

\* The notices clear the labels and each other.
LEMMA NoticesAreApart ==
  ASSUME NEW n
  PROVE  /\ IsAnswered(n) => Clear(Original, Message(n)) /\ Clear(RetroLens, Message(n))
         /\ Alarmed(n) => Clear(Original, Alarm(n)) /\ Clear(RetroLens, Alarm(n))
         /\ IsAnswered(n) /\ Alarmed(n) => Clear(Message(n), Alarm(n))
<1>1. IsLine(Original, "ORIGINAL", 2, 14) /\ IsLine(RetroLens, "RETROLENS", 123, 14) BY LabelsAreLaid
<1>2. IsAnswered(n) => IsLine(Message(n), Composition!Answer(n), 35, 82) BY MessageIsLaid
<1>3. Alarmed(n) => IsLine(Alarm(n), Alarm(n).what, 55, 75) BY AlertIsLaid
<1> QED BY <1>1, <1>2, <1>3 DEF IsLine, Clear, Composition!Overlap

\* The whole screen, laid from the scene, the labels, the notices and the marks.
IsLabel(n, p) == n.compare /\ ~Composition!InGallery(n) /\ p \in {Original, RetroLens}
LEMMA ScreenIsLaid ==
  ASSUME NEW n \in Metrics
  PROVE  LET s == Composition!Screen(n)
         IN  /\ IsPile(s)
             /\ \A p \in Pieces(s) : OnScreen(p) /\ (p.solid \/ p.what \notin Labels \/ IsLabel(n, p))
             /\ Tidy(n) => Apart(s)
<1> DEFINE base == Composition!ScenePieces(n)
           labels == Composition!ComparePieces(n)
           message == Composition!MessagePieces(n)
           alert == Composition!AlertPieces(n)
           marks == Composition!FocusPieces(n)
           first == base \o labels
           second == first \o message
           third == second \o alert
           all == third \o marks
<1>1. CASE ~(n.hasFrame \/ Composition!InGallery(n))
  <2>1. Scene(n, "anywhere", Composition!StatusPieces(n), 0, 90) BY StatusIsLaid
  <2>2. Composition!Screen(n) = Composition!StatusPieces(n) BY <1>1 DEF Composition!Screen
  <2> QED BY <2>1, <2>2, Zenon DEF Scene
<1>2. CASE n.hasFrame \/ Composition!InGallery(n)
  <2>1. Composition!Screen(n) = all BY <1>2 DEF Composition!Screen
  <2>2. Keeps(n, Place(n), base) BY SceneKeeps
  <2>3. IsPile(base) /\ IsPile(labels) /\ IsPile(message) /\ IsPile(alert) /\ IsPile(marks)
    BY <2>2, LabelsAreLaid, MessageIsLaid, AlertIsLaid, MarksAreLaid DEF Keeps
  <2>4. Apart(labels) /\ Apart(message) /\ Apart(alert) /\ Apart(marks)
    BY LabelsAreLaid, MessageIsLaid, AlertIsLaid, MarksAreLaid
  <2>5. \A p \in Pieces(base) : OnScreen(p) /\ (p.solid \/ p.what \notin Labels)
    BY <2>2 DEF Keeps
  <2>6. \A p \in Pieces(labels) : OnScreen(p) /\ IsLabel(n, p)
    <3>1. IsLine(Original, "ORIGINAL", 2, 14) /\ IsLine(RetroLens, "RETROLENS", 123, 14)
      BY LabelsAreLaid
    <3>2. OnScreen(Original) /\ OnScreen(RetroLens) BY <3>1 DEF IsLine, OnScreen
    <3>3. \A p \in Pieces(labels) : n.compare /\ ~Composition!InGallery(n) /\ p \in {Original, RetroLens}
      BY LabelsAreLaid
    <3> QED BY <3>2, <3>3 DEF IsLabel
  <2>7. \A p \in Pieces(message) : OnScreen(p) /\ (p.solid \/ p.what \notin Labels)
    <3>1. ASSUME IsAnswered(n) PROVE OnScreen(Message(n)) /\ Message(n).what \notin Labels
      <4>1. IsLine(Message(n), Composition!Answer(n), 35, 82) BY <3>1, MessageIsLaid
      <4>2. Composition!Answer(n) \notin Labels BY <3>1, AnswerIsPlain DEF IsAnswered, Plain
      <4> QED BY <4>1, <4>2 DEF IsLine, OnScreen
    <3> QED BY <3>1, MessageIsLaid
  <2>8. \A p \in Pieces(alert) : OnScreen(p) /\ (p.solid \/ p.what \notin Labels)
    <3>1. ASSUME Alarmed(n) PROVE OnScreen(Alarm(n)) /\ Alarm(n).what \notin Labels
      BY <3>1, AlertIsLaid DEF IsLine, OnScreen
    <3> QED BY <3>1, AlertIsLaid
  <2>9. \A p \in Pieces(marks) : OnScreen(p) /\ p.solid BY MarksAreLaid
  <2> HIDE DEF base, labels, message, alert, marks
  <2>10. IsPile(first) /\ Pieces(first) = Pieces(base) \union Pieces(labels) BY <2>3, PilesJoin
  <2>11. IsPile(second) /\ Pieces(second) = Pieces(first) \union Pieces(message) BY <2>3, <2>10, PilesJoin
  <2>12. IsPile(third) /\ Pieces(third) = Pieces(second) \union Pieces(alert) BY <2>3, <2>11, PilesJoin
  <2>13. IsPile(all) /\ Pieces(all) = Pieces(third) \union Pieces(marks) BY <2>3, <2>12, PilesJoin
  <2> HIDE DEF first, second, third, all
  <2>14. ASSUME NEW p \in Pieces(all)
         PROVE  OnScreen(p) /\ (p.solid \/ p.what \notin Labels \/ IsLabel(n, p))
    BY <2>5, <2>6, <2>7, <2>8, <2>9, <2>10, <2>11, <2>12, <2>13
  <2>15. ASSUME Tidy(n) PROVE Apart(all)
    <3>1. Apart(base) BY <2>2, <2>15 DEF Keeps
    <3>2. ASSUME NEW p \in Pieces(base)
          PROVE  /\ IsPile(base) /\ OnScreen(p)
                 /\ p.solid \/ (Within(Place(n), p.left, p.top) /\ p.bottom = p.top + 7)
      BY <2>2 DEF Keeps
    <3>3. Apart(first)
      <4>1. ASSUME NEW p \in Pieces(base), NEW q \in Pieces(labels) PROVE Clear(p, q)
        <5>1. q \in {Original, RetroLens} /\ n.compare /\ ~Composition!InGallery(n)
          BY <2>6 DEF IsLabel
        <5>2. Place(n) = "camera" BY <2>15, <5>1 DEF Tidy, Place
        <5> QED BY <3>2, <5>1, <5>2, SceneYields
      <4> QED BY <2>3, <2>4, <3>1, <4>1, ApartJoins DEF first
    <3>4. Apart(second)
      <4>1. ASSUME NEW p \in Pieces(first), NEW q \in Pieces(message)
            PROVE  Clear(p, q) \/ Covered(p, message)
        <5>1. /\ IsAnswered(n) /\ Pieces(message) = {MessageBox, Message(n)} /\ MessageBox.solid
              /\ ~Composition!InGallery(n)
          BY MessageIsLaid DEF message, IsAnswered
        <5>2. CASE q = MessageBox BY <5>1, <5>2 DEF Clear
        <5>3. CASE q = Message(n) /\ p \in Pieces(base)
          <6>1. Place(n) \in {"camera", "drawer"} BY <5>1 DEF Place
          <6>2. Clear(p, q) \/ Composition!Overlap(p, MessageBox) BY <3>2, <5>1, <5>3, <6>1, SceneYields
          <6> QED BY <5>1, <6>2 DEF Covered
        <5>4. CASE q = Message(n) /\ p \in Pieces(labels)
          BY <2>6, <5>1, <5>4, NoticesAreApart DEF IsLabel
        <5> QED BY <2>10, <5>1, <5>2, <5>3, <5>4
      <4> QED BY <2>3, <2>4, <2>10, <3>3, <4>1, ApartJoins DEF second
    <3>5. Apart(third)
      <4>1. ASSUME NEW p \in Pieces(second), NEW q \in Pieces(alert)
            PROVE  Clear(p, q) \/ Covered(p, alert)
        <5>1. Alarmed(n) /\ Pieces(alert) = {AlertBox, Alarm(n)} /\ AlertBox.solid
          BY AlertIsLaid DEF alert
        <5>2. CASE q = AlertBox BY <5>1, <5>2 DEF Clear
        <5>3. CASE q = Alarm(n) /\ p \in Pieces(base)
          <6>1. Place(n) \in {"camera", "drawer", "gallery"} BY DEF Place
          <6>2. Clear(p, q) \/ Composition!Overlap(p, AlertBox) BY <3>2, <5>1, <5>3, <6>1, SceneYields
          <6> QED BY <5>1, <6>2 DEF Covered
        <5>4. CASE q = Alarm(n) /\ p \in Pieces(labels)
          BY <2>6, <5>1, <5>4, NoticesAreApart DEF IsLabel
        <5>5. CASE q = Alarm(n) /\ p \in Pieces(message)
          <6>1. IsAnswered(n) /\ p \in {MessageBox, Message(n)} /\ MessageBox.solid
            BY <5>5, MessageIsLaid DEF message
          <6> QED BY <5>1, <5>5, <6>1, NoticesAreApart DEF Clear
        <5> QED BY <2>10, <2>11, <5>1, <5>2, <5>3, <5>4, <5>5
      <4> QED BY <2>3, <2>4, <2>11, <3>4, <4>1, ApartJoins DEF third
    <3>6. \A p \in Pieces(third), q \in Pieces(marks) : Clear(p, q) BY <2>9 DEF Clear
    <3> QED BY <2>3, <2>4, <2>12, <3>5, <3>6, ApartJoins DEF all
  <2> QED BY <2>1, <2>13, <2>14, <2>15
<1> QED BY <1>1, <1>2

\* A piece that nothing drawn after it crosses.
Open(s, p) ==
  \E i \in DOMAIN s : s[i] = p /\ \A j \in (i + 1)..Len(s) : ~Composition!Overlap(p, s[j])
\* What is drawn last is open,
LEMMA LastIsOpen ==
  ASSUME NEW s, NEW p, IsPile(s)
  PROVE  IsPile(s \o <<p>>) /\ Open(s \o <<p>>, p)
<1> DEFINE t == <<p>>
           u == s \o t
<1>1. IsPile(t) /\ Len(t) = 1 /\ t[1] = p BY PieceIsPile
<1> HIDE DEF t
<1>2. /\ IsPile(u) /\ Len(s) \in Nat /\ Len(u) = Len(s) + Len(t) /\ DOMAIN u = 1..Len(u)
      /\ \A i \in 1..Len(t) : u[Len(s) + i] = t[i]
  BY <1>1, PilesJoin
<1> HIDE DEF u
<1>3. Len(s) + 1 \in DOMAIN u /\ u[Len(s) + 1] = p /\ (Len(s) + 1 + 1)..Len(u) = {} BY <1>1, <1>2
<1> QED BY <1>2, <1>3 DEF Open, u, t
\* and stays open under whatever does not cross it.
LEMMA OpenStays ==
  ASSUME NEW s, NEW t, NEW p, IsPile(s), IsPile(t), Open(s, p),
         \A q \in Pieces(t) : ~Composition!Overlap(p, q)
  PROVE  Open(s \o t, p)
<1> DEFINE u == s \o t
<1>1. /\ Len(s) \in Nat /\ Len(t) \in Nat /\ Len(u) = Len(s) + Len(t)
      /\ DOMAIN s = 1..Len(s) /\ DOMAIN t = 1..Len(t) /\ DOMAIN u = 1..Len(u)
      /\ \A i \in 1..Len(s) : u[i] = s[i]
      /\ \A i \in 1..Len(t) : u[Len(s) + i] = t[i]
  BY PilesJoin
<1> HIDE DEF u
<1>2. PICK i \in DOMAIN s : s[i] = p /\ \A j \in (i + 1)..Len(s) : ~Composition!Overlap(p, s[j])
  BY DEF Open
<1>3. ASSUME NEW j \in (i + 1)..Len(u) PROVE ~Composition!Overlap(p, u[j])
  <2>1. CASE j <= Len(s)
    <3>1. j \in (i + 1)..Len(s) /\ u[j] = s[j] BY <1>1, <2>1
    <3> QED BY <1>2, <3>1
  <2>2. CASE j > Len(s)
    <3>1. j - Len(s) \in DOMAIN t /\ Len(s) + (j - Len(s)) = j BY <1>1, <2>2
    <3>2. u[j] = t[j - Len(s)] BY <1>1, <3>1
    <3> QED BY <3>1, <3>2 DEF Pieces
  <2> QED BY <1>1, <2>1, <2>2
<1>4. i \in DOMAIN u /\ u[i] = p BY <1>1, <1>2
<1> QED BY <1>3, <1>4 DEF Open, u

\* Nothing crosses an answer but an alert, and nothing the label of the left half.
LEMMA ScreenIsOpen ==
  ASSUME NEW n \in Metrics, n.hasFrame, ~Composition!InGallery(n)
  PROVE  /\ IsAnswered(n) /\ ~Alarmed(n) => Open(Composition!Screen(n), Message(n))
         /\ n.compare => Open(Composition!Screen(n), Original)
<1> DEFINE base == Composition!ScenePieces(n)
           labels == Composition!ComparePieces(n)
           message == Composition!MessagePieces(n)
           alert == Composition!AlertPieces(n)
           marks == Composition!FocusPieces(n)
           first == base \o labels
           second == first \o message
           third == second \o alert
           all == third \o marks
<1>1. Composition!Screen(n) = all BY DEF Composition!Screen
<1>2. IsPile(base) /\ IsPile(labels) /\ IsPile(message) /\ IsPile(alert) /\ IsPile(marks)
  BY SceneKeeps, LabelsAreLaid, MessageIsLaid, AlertIsLaid, MarksAreLaid DEF Keeps
<1>3. /\ IsAnswered(n) => /\ message = <<MessageBox>> \o <<Message(n)>>
                          /\ IsLine(Message(n), Composition!Answer(n), 35, 82)
      /\ ~IsAnswered(n) => Pieces(message) = {}
      /\ IsAnswered(n) => Pieces(message) = {MessageBox, Message(n)}
  BY MessageIsLaid
<1>4. /\ Alarmed(n) => /\ IsLine(Alarm(n), Alarm(n).what, 55, 75)
                       /\ Pieces(alert) = {AlertBox, Alarm(n)}
      /\ ~Alarmed(n) => Pieces(alert) = {}
  BY AlertIsLaid
<1>5. \A p \in Pieces(marks) : OnScreen(p) /\ p.top >= 78 /\ (p.bottom <= 79 \/ p.top >= 101)
  BY MarksAreLaid
<1>6. n.compare => labels = <<Original>> \o <<RetroLens>> BY LabelsAreLaid
<1>7. /\ IsLine(Original, "ORIGINAL", 2, 14) /\ Original.right < 50
      /\ IsLine(RetroLens, "RETROLENS", 123, 14) /\ RetroLens.right < 177
  BY LabelsAreLaid
<1> HIDE DEF base, labels, message, alert, marks
<1>8. IsPile(first) BY <1>2, PilesJoin
<1>9. IsPile(second) BY <1>2, <1>8, PilesJoin
<1>10. IsPile(third) BY <1>2, <1>9, PilesJoin
<1>11. ASSUME IsAnswered(n), ~Alarmed(n) PROVE Open(all, Message(n))
  <2>1. IsPile(<<MessageBox>>) /\ IsPile(<<Message(n)>>) BY PieceIsPile
  <2>2. second = (first \o <<MessageBox>>) \o <<Message(n)>>
    <3>1. first \o (<<MessageBox>> \o <<Message(n)>>) = (first \o <<MessageBox>>) \o <<Message(n)>>
      BY <1>8, <2>1, PilesAssociate
    <3> QED BY <1>3, <1>11, <3>1
  <2>3. IsPile(first \o <<MessageBox>>) BY <1>8, <2>1, PilesJoin
  <2> HIDE DEF first
  <2>4. Open(second, Message(n)) BY <2>2, <2>3, LastIsOpen
  <2> HIDE DEF second
  <2>5. Open(third, Message(n)) BY <1>2, <1>4, <1>9, <1>11, <2>4, OpenStays DEF third
  <2> HIDE DEF third
  <2>6. \A p \in Pieces(marks) : ~Composition!Overlap(Message(n), p)
    <3>1. ASSUME NEW p \in Pieces(marks)
          PROVE  ~(Message(n).top < p.bottom /\ p.top < Message(n).bottom)
      BY <1>3, <1>5, <1>11 DEF IsLine, OnScreen
    <3> QED BY <3>1 DEF Composition!Overlap
  <2> QED BY <1>2, <1>10, <2>5, <2>6, OpenStays DEF third
<1>12. ASSUME n.compare PROVE Open(all, Original)
  <2>1. IsPile(<<Original>>) /\ IsPile(<<RetroLens>>) /\ Pieces(<<RetroLens>>) = {RetroLens}
    BY PieceIsPile
  <2>2. first = (base \o <<Original>>) \o <<RetroLens>>
    <3>1. base \o (<<Original>> \o <<RetroLens>>) = (base \o <<Original>>) \o <<RetroLens>>
      BY <1>2, <2>1, PilesAssociate
    <3> QED BY <1>6, <1>12, <3>1
  <2>3. IsPile(base \o <<Original>>) /\ Open(base \o <<Original>>, Original)
    BY <1>2, LastIsOpen
  <2>4. ~Composition!Overlap(Original, RetroLens) BY <1>7 DEF IsLine, Composition!Overlap
  <2>5. Open(first, Original) BY <2>1, <2>2, <2>3, <2>4, OpenStays
  <2> HIDE DEF first
  <2>6. \A p : p.top \in Int /\ p.top >= 62 => ~Composition!Overlap(Original, p)
    BY <1>7 DEF IsLine, Composition!Overlap
  <2>7. Open(second, Original)
    <3>1. \A q \in Pieces(message) : q.top \in Int /\ q.top >= 62
      BY <1>3 DEF IsLine, MessageBox, Area
    <3> QED BY <1>2, <1>8, <2>5, <2>6, <3>1, OpenStays
  <2> HIDE DEF second
  <2>8. Open(third, Original)
    <3>1. \A q \in Pieces(alert) : q.top \in Int /\ q.top >= 62
      BY <1>4 DEF IsLine, AlertBox, Area
    <3> QED BY <1>2, <1>9, <2>6, <2>7, <3>1, OpenStays
  <2> HIDE DEF third
  <2>9. \A q \in Pieces(marks) : q.top \in Int /\ q.top >= 62 BY <1>5 DEF OnScreen
  <2> QED BY <1>2, <1>10, <2>6, <2>8, <2>9, OpenStays
<1> QED BY <1>1, <1>11, <1>12

\* What is drawn for any metrics has the properties of Screen.
ScreenInv == part = "screen" => m \in Metrics /\ screen \in {<<>>, Composition!Screen(m)}
\* A piece on the screen in the words of Screen.
LEMMA OnScreenReads ==
  ASSUME NEW p, OnScreen(p)
  PROVE  /\ 0 <= p.left /\ p.right <= 240 /\ 0 <= p.top /\ p.bottom <= 180
         /\ (p.solid /\ p.what = "BAR") => p.right <= 107
BY DEF OnScreen
\* Every piece lies on the screen, and no two shown texts meet.
LEMMA PiecesStay ==
  ASSUME m \in Metrics, screen \in {<<>>, Composition!Screen(m)}
  PROVE  Composition!TypeOK /\ Composition!TextsAreApart
<1>1. CASE screen = <<>>
  BY <1>1 DEF Composition!TypeOK, Composition!TextsAreApart, Composition!Texts
<1>2. CASE screen = Composition!Screen(m)
  <2>1. /\ \A p \in Pieces(screen) : OnScreen(p)
        /\ Tidy(m) => Apart(screen)
    BY <1>2, ScreenIsLaid
  <2>2. Composition!TypeOK
    <3>1. \A i \in DOMAIN screen : OnScreen(screen[i]) BY <2>1 DEF Pieces
    <3>2. \A i \in DOMAIN screen :
            LET p == screen[i]
            IN  /\ 0 <= p.left /\ p.right <= 240 /\ 0 <= p.top /\ p.bottom <= 180
                /\ (p.solid /\ p.what = "BAR") => p.right <= 107
      BY <3>1, OnScreenReads
    <3> QED BY <3>2 DEF Composition!TypeOK, Composition!Width, Composition!Height
  <2>3. ASSUME Tidy(m) PROVE \A i, j \in Composition!Texts :
          (i < j /\ Composition!Shown(i)) => ~Composition!Overlap(screen[i], screen[j])
    BY <2>1, <2>3 DEF Apart, Clear, Composition!Texts, Composition!Shown
  <2> QED BY <2>2, <2>3 DEF Tidy, Composition!TextsAreApart
<1> QED BY <1>1, <1>2
\* An open piece with all its characters can be read.
LEMMA OpenIsReadable ==
  ASSUME NEW p, NEW value, Open(screen, p), ~p.solid, p.what = value,
         Composition!CharsDrawn(value, p.left) = Len(value)
  PROVE  Composition!Readable(value)
BY Zenon DEF Open, Composition!Readable, Composition!Texts
\* The answer can be read.
LEMMA AnswerStays ==
  ASSUME m \in Metrics, screen \in {<<>>, Composition!Screen(m)}
  PROVE  Composition!AnswerIsReadable
<1> DEFINE answer == Composition!Answer(m)
<1> SUFFICES ASSUME screen = Composition!Screen(m), m.hasFrame, IsAnswered(m), ~Alarmed(m)
             PROVE  Composition!Readable(answer)
  BY DEF Composition!AnswerIsReadable, IsAnswered, Alarmed
<1>1. Open(screen, Message(m)) BY ScreenIsOpen DEF IsAnswered
<1>2. IsLine(Message(m), answer, 35, 82) BY MessageIsLaid
<1>3. Composition!CharsDrawn(answer, 35) = Len(answer) BY MessageIsLaid
<1>4. ~Message(m).solid /\ Message(m).what = answer /\ Message(m).left = 35 BY <1>2 DEF IsLine
<1> HIDE DEF answer
<1> QED BY <1>1, <1>3, <1>4, OpenIsReadable, Zenon
\* The halves of a compare are what their labels say.
LEMMA HalvesStay ==
  ASSUME m \in Metrics, screen \in {<<>>, Composition!Screen(m)}
  PROVE  Composition!HalvesAreLabelled
<1> SUFFICES ASSUME screen = Composition!Screen(m), m.hasFrame
             PROVE  /\ Composition!Under("ORIGINAL", "original")
                    /\ Composition!Under("RETROLENS", "filtered")
                    /\ \A x \in 0..239 : Composition!PictureAt(m, x) = "original"
                         => Composition!Readable("ORIGINAL")
  BY DEF Composition!HalvesAreLabelled, Composition!Width
<1>1. /\ IsLine(Original, "ORIGINAL", 2, 14) /\ Original.right < 50
      /\ IsLine(RetroLens, "RETROLENS", 123, 14) /\ RetroLens.right < 177
  BY LabelsAreLaid
<1>2. ASSUME NEW i \in Composition!Texts, screen[i].what \in Labels PROVE IsLabel(m, screen[i])
  BY <1>2, ScreenIsLaid DEF Composition!Texts, Pieces
<1>3. ASSUME m.compare, ~Composition!InGallery(m), NEW x \in Int
      PROVE  Composition!PictureAt(m, x) = IF x < 120 THEN "original" ELSE "filtered"
  BY <1>3 DEF Composition!PictureAt, Composition!ShowsOriginal, Composition!FullFrame,
              Composition!Half, Composition!Width
<1>4. Composition!Under("ORIGINAL", "original")
  <2> SUFFICES ASSUME NEW i \in Composition!Texts, screen[i].what = "ORIGINAL",
                      NEW x \in screen[i].left..(screen[i].right - 1)
               PROVE  Composition!PictureAt(m, x) = "original"
    BY DEF Composition!Under
  <2>1. IsLabel(m, screen[i]) BY <1>2 DEF Labels
  <2>2. screen[i] = Original BY <1>1, <2>1 DEF IsLabel, IsLine
  <2>3. x \in Int /\ x < 120 BY <1>1, <2>2 DEF IsLine
  <2> QED BY <1>3, <2>1, <2>3 DEF IsLabel
<1>5. Composition!Under("RETROLENS", "filtered")
  <2> SUFFICES ASSUME NEW i \in Composition!Texts, screen[i].what = "RETROLENS",
                      NEW x \in screen[i].left..(screen[i].right - 1)
               PROVE  Composition!PictureAt(m, x) = "filtered"
    BY DEF Composition!Under
  <2>1. IsLabel(m, screen[i]) BY <1>2 DEF Labels
  <2>2. screen[i] = RetroLens BY <1>1, <2>1 DEF IsLabel, IsLine
  <2>3. x \in Int /\ ~(x < 120) BY <1>1, <2>2 DEF IsLine
  <2> QED BY <1>3, <2>1, <2>3 DEF IsLabel
<1>6. ASSUME NEW x \in 0..239, Composition!PictureAt(m, x) = "original"
      PROVE  Composition!Readable("ORIGINAL")
  <2>1. m.compare /\ ~Composition!InGallery(m)
    BY <1>6 DEF Composition!PictureAt, Composition!ShowsOriginal, Composition!FullFrame
  <2>2. Open(screen, Original) BY <2>1, ScreenIsOpen
  <2>3. Composition!CharsDrawn("ORIGINAL", 2) = Len("ORIGINAL") BY LabelsAreLaid
  <2>4. ~Original.solid /\ Original.what = "ORIGINAL" /\ Original.left = 2 BY <1>1 DEF IsLine
  <2> QED BY <2>2, <2>3, <2>4, OpenIsReadable, Zenon
<1> QED BY <1>4, <1>5, <1>6

-----------------------------------------------------------------------------
(***************************************************************************)
(* The three hands of MCDrawing, one at work and the others at rest.       *)
(***************************************************************************)
DrawingInv == (part = "filter" => FilterInv) /\ (part = "copy" => RowsInv)

LEMMA DrawingInitially == DrawingInit => DrawingInv
BY FilterInitially, RowsInitially DEF DrawingInit, DrawingInv

LEMMA DrawingStep == DrawingInv /\ [DrawingNext]_drawingVars => DrawingInv'
<1> SUFFICES ASSUME DrawingInv, [DrawingNext]_drawingVars PROVE DrawingInv' OBVIOUS
<1>1. part' = part BY DEF DrawingNext, drawingVars
<1>2. ASSUME part = "filter" PROVE FilterInv'
  <2>1. [FilterNext]_filterVars BY <1>2 DEF DrawingNext, drawingVars, FilterNext, filterVars
  <2> QED BY <1>2, <2>1, FilterStep DEF DrawingInv
<1>3. ASSUME part = "copy" PROVE RowsInv'
  <2>1. [CopyNext]_copyVars BY <1>3 DEF DrawingNext, drawingVars, CopyNext, copyVars
  <2> QED BY <1>3, <2>1, RowsStep DEF DrawingInv
<1> QED BY <1>1, <1>2, <1>3 DEF DrawingInv

\* A channel fits its byte whatever passes, adjustments and earlier frames come
\* together, for every preset, colour and grain; a copied pixel is from inside its
\* source and near its place, for all sizes.
THEOREM ChannelsFitTheirBytes == DrawingSpec => []DrawnInRange
<1>1. DrawingInv => DrawnInRange BY RowsTyped, RowsCentered DEF DrawingInv, DrawnInRange, FilterInv
<1> QED BY <1>1, DrawingInitially, DrawingStep, PTL DEF DrawingSpec

\* n tones are n tones whatever is dithered, dotted or tinted before, and no
\* material takes more than half of a photo but for rounding, for every colour.
THEOREM TonesAreTrue == DrawingSpec => []TonesStand
<1>1. DrawingInv => TonesStand BY TonesCounted, PhotoShaded DEF DrawingInv, TonesStand
<1> QED BY <1>1, DrawingInitially, DrawingStep, PTL DEF DrawingSpec

\* Trails fade at every Motion and intensity, for every colour they start from:
\* the truncating division neither freezes nor amplifies them.
THEOREM TrailsFade == DrawingSpec => TrailsDecay
<1>1. DrawingInv /\ [DrawingNext]_drawingVars =>
        [part = "filter" /\ adjust' = adjust => TrailDecays(filtered, filtered', subject')]_drawingVars
  <2> SUFFICES ASSUME DrawingInv, DrawingNext, part = "filter", adjust' = adjust
               PROVE  TrailDecays(filtered, filtered', subject')
    OBVIOUS
  <2>1. FilterInv BY DEF DrawingInv
  <2>2. CameraFrame BY DEF DrawingNext, Restyle
  <2>3. PICK s \in Subjects[look] : Process(s, filtered) BY <2>2 DEF CameraFrame
  <2>4. /\ subject' = s
        /\ filtered' = processFrame(Preset, intensity, s, at, filtered, grain)
    BY <2>2, <2>3 DEF CameraFrame, Process, Preset
  <2> QED BY <2>1, <2>4, TrailsDecayFrom
<1> QED BY <1>1, DrawingInitially, DrawingStep, PTL DEF DrawingSpec, TrailsDecay

\* Whatever the worker hands to the compositor, every piece lies on the screen, an
\* answer to the user can be read, no two texts that are shown meet (but for the two
\* known cases) and the halves of a compare are what their labels say.
THEOREM ScreenIsReadable == DrawingSpec => []ScreenReads
<1>1. DrawingInit => ScreenInv BY DEF DrawingInit, ScreenInv, Composition!Init
<1>2. ScreenInv /\ [DrawingNext]_drawingVars => ScreenInv'
  <2> SUFFICES ASSUME ScreenInv, [DrawingNext]_drawingVars PROVE ScreenInv' OBVIOUS
  <2>1. CASE Composition!Compose /\ UNCHANGED part
    BY <2>1 DEF ScreenInv, Composition!Compose
  <2>2. CASE UNCHANGED <<part, screenVars>> BY <2>2 DEF ScreenInv, screenVars
  <2> QED BY <2>1, <2>2 DEF DrawingNext, drawingVars
<1>3. ScreenInv => ScreenReads BY PiecesStay, AnswerStays, HalvesStay DEF ScreenInv, ScreenReads
<1> QED BY <1>1, <1>2, <1>3, PTL DEF DrawingSpec
=============================================================================
