----------------------------- MODULE MCDrawing -----------------------------
(***************************************************************************)
(* What happens to a picture on its way to the window: its pixels are      *)
(* filtered (PixelFilter), pieces are drawn over it (Screen) and its rows  *)
(* are copied into the window's buffer (Raster).  The three hand pictures  *)
(* on and share no state, so each is explored with the others at rest.     *)
(*                                                                         *)
(* The filter takes every preset, with the extremes of the adjustments and *)
(* of the grain.  For a preset that remembers the previous frame, any      *)
(* number of frames of two subjects feed back.                             *)
(***************************************************************************)
EXTENDS Raster, PixelFilter, Catalogue

CONSTANT Metrics   \* of Screen

VARIABLES part, m, screen

screenVars == <<m, screen>>
drawingVars == <<part, filterVars, screenVars, copyVars>>

Composition == INSTANCE Screen

\* The length of a text is known to TLC alone.  The presets' table has names of up
\* to 23 characters and categories of up to 13; none is a label of the compare.
ASSUME WrittenAssumption ==
  /\ \A value \in Composition!Literals : Len(value) \in 0..30
  /\ Len("ORIGINAL") = 8 /\ Len("RETROLENS") = 9
  /\ \A n \in Metrics :
       /\ n.parameter \in 0..3 /\ n.value \in Int /\ Len(n.photoStyle) \in Nat
       /\ Len(Composition!Cut(n.style, 19)) <= 19 /\ Len(n.category) <= 21
       /\ Len(Composition!Cut(n.photoStyle, 23)) <= Len(n.photoStyle)
       /\ \A value \in Composition!Written(n) :
            Len(value) \in Nat /\ value \notin {"ORIGINAL", "RETROLENS"}

-----------------------------------------------------------------------------
Dark == [in |-> <<0, 0, 0>>, gradient |-> 0]
Bright == [in |-> <<255, 255, 255>>, gradient |-> 0]
Warm == [in |-> <<215, 120, 60>>, gradient |-> 20]
Cool == [in |-> <<40, 150, 235>>, gradient |-> 90]
Yellow == [in |-> <<255, 200, 60>>, gradient |-> 0]

MCLooks == {presetAt(p) : p \in Presets}
Remembers(p) == "TEMPORAL" \in p.flags
MCSubjects == [p \in MCLooks |-> IF Remembers(p) THEN {Dark, Yellow} ELSE {Dark, Bright, Warm, Cool}]
MCPlaces == [p \in MCLooks |-> IF Remembers(p) THEN {<<2, 3>>} ELSE {0, 3} \X {0, 2}]
MCAdjustments == {[contrast |-> 0, grain |-> 0, motion |-> 0],
                  [contrast |-> 40, grain |-> -20, motion |-> 30],
                  [contrast |-> -40, grain |-> 20, motion |-> -30]}
MCIntensities == {100, 40}
MCGrains == {-128, 127}

(* Geometries: small sources and buffers of every shape, some narrower,    *)
(* wider, longer or flatter than the source, with and without padding,     *)
(* some refused.                                                           *)
MCGeometries ==
  {h \in [sw : {1, 4, 7}, sh : {1, 3, 6}, dw : 1..5, dh : 1..5, stride : 1..6,
          format : {"RGB_565", "OTHER"}, crop : BOOLEAN] :
     h.stride \in {h.dw - 1, h.dw, h.dw + 1} /\ (h.format = "OTHER" => h.stride = h.dw)}

(* Metrics: the shortest and the longest names of the catalogue, the       *)
(* smallest and the largest numbers a line can show, every scene and every *)
(* answer, each field varied where the compositor looks at it.  A value    *)
(* beyond the range of its parameter is one left over from another.        *)
Lines == <<"FPS 99.9 D1000 F1000", "RX 123456 REL 123455 OUT 1", "DROP 123456 JPEG 256K",
           "SAVE 48 FAIL 123", "CARD J5 S7 W12 E-2147483648">>
MCMetrics ==
  {[hasFrame |-> f[1], scene |-> f[2], compare |-> f[3], bars |-> f[4], favorite |-> f[4],
    status |-> s, storage |-> t, outstanding |-> b[1], decodeError |-> b[2], focus |-> b[3],
    photos |-> n[1], index |-> n[2], thumbnail |-> n[3], style |-> n[4], photoStyle |-> n[4],
    category |-> "Digital Decay", parameter |-> v[1], value |-> v[2], lines |-> Lines] :
   f \in BOOLEAN \X {"camera", "controls", "browser", "gallery", "diagnostics", "deleteConfirm"}
         \X BOOLEAN \X BOOLEAN,
   s \in {"idle", "busy", "videoDisabled", "unavailable"},
   t \in {"ready", "writeProbeFailed", "insufficientSpace"},
   b \in {-1, 1, 2} \X BOOLEAN \X BOOLEAN,
   n \in {<<0, 0, FALSE, "CGA Shock">>, <<1, 0, FALSE, "Teal-Orange Blockbuster">>,
          <<48, 47, TRUE, "Teal-Orange Blockbuster">>, <<48, 47, TRUE, "Soviet Archive 1978">>},
   v \in {<<0, 100>>, <<1, -40>>, <<3, 100>>}}

-----------------------------------------------------------------------------
FilterRests ==
  /\ look = presetAt(0) /\ adjust = [contrast |-> 0, grain |-> 0, motion |-> 0] /\ intensity = 0
  /\ at = <<0, 0>> /\ grain = 0 /\ subject = Dark /\ filtered = <<0, 0, 0>>
ScreenRests == m = <<>> /\ screen = <<>>
CopyRests ==
  /\ g = [sw |-> 1, sh |-> 1, dw |-> 1, dh |-> 1, stride |-> 1, format |-> "RGB_565", crop |-> TRUE]
  /\ row = 0 /\ pixels = Empty(g)

DrawingInit ==
  \/ part = "filter" /\ FilterInit /\ ScreenRests /\ CopyRests
  \/ part = "screen" /\ Composition!Init /\ FilterRests /\ CopyRests
  \/ part = "copy" /\ CopyInit /\ FilterRests /\ ScreenRests

DrawingNext ==
  \/ part = "filter" /\ CameraFrame /\ UNCHANGED <<part, screenVars, copyVars>>
  \/ part = "filter" /\ Restyle /\ UNCHANGED <<part, screenVars, copyVars>>
  \/ part = "screen" /\ Composition!Compose /\ UNCHANGED <<part, filterVars, copyVars>>
  \/ part = "copy" /\ CopyRow /\ UNCHANGED <<part, filterVars, screenVars>>
  \/ part = "copy" /\ NextPost /\ UNCHANGED <<part, filterVars, screenVars>>

DrawingSpec == DrawingInit /\ [][DrawingNext]_drawingVars

-----------------------------------------------------------------------------
\* Each channel fits its byte after any passes, and each copied cell comes from
\* inside the source and near where a centred picture has it.
DrawnInRange ==
  /\ part = "filter" => FilterTypeOK
  /\ part = "copy" => CopyTypeOK /\ IsCentered

\* A preset of n tones shows n tones, and a photo is the frame that was shown,
\* darkened by its material to no less than half but for rounding (PixelFilter).
TonesStand == part = "filter" => TonesAreCounted /\ PhotoIsShadedFrame

\* From one camera frame to the next a trail fades until integer arithmetic holds
\* it, and no frame swings past the picture, at any Motion a user can choose
\* (PixelFilter).
TrailsDecay ==
  [][(part = "filter" /\ adjust' = adjust) => TrailDecays(filtered, filtered', subject')]_drawingVars

\* Pieces lie on the screen, answers are readable in every scene that draws them,
\* texts do not meet, and the compared halves are what their labels say (Screen).
ScreenReads ==
  part = "screen" =>
    /\ Composition!TypeOK /\ Composition!AnswerIsReadable
    /\ Composition!TextsAreApart /\ Composition!HalvesAreLabelled
=============================================================================
