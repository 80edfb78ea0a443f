------------------------------ MODULE Screen -------------------------------
(***************************************************************************)
(* The compositor (renderDisplayProbe): which picture fills the 240x180    *)
(* screen, and the boxes and texts drawn over it, in the order in which    *)
(* they are drawn.  A box covers what was drawn before, a text does not.   *)
(* A piece is named by its text; a text is its cells of 6 by 7 pixels.     *)
(* Colours, shadows and the forms of the glyphs are left out.              *)
(***************************************************************************)
EXTENDS Integers, Sequences, TLC

CONSTANT Metrics   \* bound: what the worker may hand to the compositor

Width == 240
Height == 180
DrawerWidth == 150
Half == Width \div 2

VARIABLES
  m,       \* filterMetrics_ and the balance of sequenceMetrics_
  screen   \* the pieces drawn last
vars == <<m, screen>>

-----------------------------------------------------------------------------
(* Pieces *)

\* text() stops before the first character that has no room.
CharsDrawn(value, x) ==
  LET room == 1 + (Width - x - 6) \div 6
  IN IF Len(value) <= room THEN Len(value) ELSE room
Text(value, x, y) ==
  <<[what |-> value, left |-> x, top |-> y,
     right |-> x + 6 * CharsDrawn(value, x) - 1, bottom |-> y + 7, solid |-> FALSE]>>

Bounded(i, high) == IF i < 0 THEN 0 ELSE IF i > high THEN high ELSE i
Box(name, left, top, right, bottom) ==
  <<[what |-> name, left |-> Bounded(left, Width), top |-> Bounded(top, Height),
     right |-> Bounded(right, Width), bottom |-> Bounded(bottom, Height), solid |-> TRUE]>>

When(condition, pieces) == IF condition THEN pieces ELSE <<>>
Cut(value, n) == SubSeq(value, 1, IF Len(value) < n THEN Len(value) ELSE n)

-----------------------------------------------------------------------------
(* The picture behind the pieces *)
InGallery(n) == n.scene \in {"gallery", "deleteConfirm"}
InDrawer(n) == n.scene \in {"controls", "browser", "diagnostics"}

FullFrame(n) ==
  IF InGallery(n) THEN IF n.thumbnail THEN "photo" ELSE "none"
  ELSE IF n.hasFrame THEN "filtered" ELSE "none"
ShowsOriginal(n, x) == ~InGallery(n) /\ n.compare /\ x < Half
PictureAt(n, x) ==
  IF FullFrame(n) # "none" /\ ShowsOriginal(n, x) THEN "original" ELSE FullFrame(n)

-----------------------------------------------------------------------------
(* The scenes *)
CountText(n) == ToString(n.index + 1) \o "/" \o ToString(n.photos)
GalleryPieces(n) ==
  Box("HEADER", 0, 0, Width, 14) \o Text("PHOTO GALLERY", 3, 3)
  \o (IF n.photos <= 0 THEN Text("NO RETRO PHOTOS", 72, 82)
      ELSE IF n.thumbnail
           THEN Text(CountText(n), 204, 3)
           ELSE Text("LOADING", 99, 82))
  \o Box("FOOTER", 0, 151, Width, Height)
  \o When(n.photos > 0, Text(Cut(n.photoStyle, 23), 3, 155)
                        \o Text("PROCESSED 320X240", 132, 155))
  \o Text(IF n.scene = "deleteConfirm" THEN "CENTER DELETE    BACK CANCEL"
          ELSE "LEFT RIGHT       BACK DELETE", 3, 170)

BarLength(n) == Bounded(IF n.parameter = 0 THEN n.value ELSE 50 + n.value, 100)
Parameters == <<"INTENSITY", "CONTRAST", "GRAIN", "MOTION">>
ParameterText(n) == Parameters[n.parameter + 1] \o " " \o ToString(n.value)
Drawer == Box("DRAWER", 0, 0, DrawerWidth, Height)
ControlPieces(n) ==
  Drawer \o Text("QUICK CONTROL", 3, 3) \o Text(Cut(n.style, 19), 3, 17)
  \o Text(ParameterText(n), 3, 34)
  \o Box("TROUGH", 3, 47, 107, 54) \o Box("BAR", 3, 47, 3 + BarLength(n), 54)
  \o Text("UP DOWN SELECT", 3, 62) \o Text("CENTER CLOSE", 3, 166)

\* The neighbours' names are taken to be as long as the selected one's.
RowTop(row) == 18 + (row + 2) * 14
BrowserPieces(n) ==
  LET Name(row) == Text(Cut(n.style, 17), 3, RowTop(row))
  IN Drawer \o Text("STYLE BROWSER", 3, 3)
     \o Name(-2) \o Name(-1) \o Name(0) \o Name(1) \o Name(2)

\* Five lines of numbers, each cut to 31 characters by snprintf.
DiagnosticsPieces(n) ==
  LET Line(i) == Text(Cut(n.lines[i], 31), 3, 3 + 15 * i)
  IN Drawer \o Text("DIAGNOSTICS", 3, 3)
     \o Line(1) \o Line(2) \o Line(3) \o Line(4) \o Line(5) \o Text("FN CLOSE", 3, 166)

BarPieces(n) ==
  Box("HEADER", 0, 0, Width, 12) \o Text(Cut(n.style, 19), 2, 2)
  \o When(n.favorite, Text("F", 226, 2))
  \o Box("FOOTER", 0, 158, Width, Height)
  \o Text(n.category, 2, 163) \o Text("< STYLE > CENTER", 132, 163)
  \o When(n.focus, Text("FOCUS", 204, 17))

ScenePieces(n) ==
  CASE InGallery(n) -> GalleryPieces(n)
    [] n.scene = "controls" -> ControlPieces(n)
    [] n.scene = "browser" -> BrowserPieces(n)
    [] n.scene = "diagnostics" -> DiagnosticsPieces(n)
    [] OTHER -> When(n.bars, BarPieces(n))

ComparePieces(n) ==
  When(~InGallery(n) /\ n.compare, Text("ORIGINAL", 2, 14) \o Text("RETROLENS", Half + 3, 14))

-----------------------------------------------------------------------------
(* Messages over the scene *)
Answers ==
  [saving |-> "SAVING PHOTO", saved |-> "RETRO PHOTO SAVED", failed |-> "PHOTO SAVE FAILED",
   busy |-> "PHOTO WRITER BUSY", deleted |-> "PHOTO DELETED",
   videoDisabled |-> "PHOTO ONLY - VIDEO OFF", noFrame |-> "RETRO FRAME NOT READY"]
StorageAnswers ==
  [directoryFailed |-> "RETRO FOLDER FAILED", insufficientSpace |-> "RETRO CARD LOW SPACE",
   indexFailed |-> "RETRO INDEX FAILED", writeProbeFailed |-> "RETRO WRITE TEST FAILED",
   initializing |-> "RETRO STORAGE STARTING"]
Answer(n) ==
  CASE n.status = "unavailable" /\ n.storage \in DOMAIN StorageAnswers -> StorageAnswers[n.storage]
    [] n.status = "unavailable" /\ n.storage \notin DOMAIN StorageAnswers -> "RETRO CARD NOT READY"
    [] n.status \in DOMAIN Answers -> Answers[n.status]
    [] OTHER -> ""   \* idle, loading
MessageLeft_centred == 120   \* mutant: a longer text has no room
MessageLeft == 35
MessagePieces(n) ==
  When(Answer(n) # "" /\ ~InGallery(n),
       Box("MESSAGE", 30, 78, 210, 94) \o Text(Answer(n), MessageLeft, 82))

Imbalance(n) == n.outstanding < 0 \/ n.outstanding > 1
AlertPieces(n) ==
  When(Imbalance(n) \/ n.decodeError,
       Box("ALERT", 30, 62, 210, 96)
       \o Text(IF Imbalance(n) THEN "BUFFER IMBALANCE" ELSE "DECODE ERROR", 55, 75))

FocusPieces(n) ==
  LET Mark(left, top) == Box("FOCUS MARK", left, top, left + 10, top + 1)
      Across == Height \div 2
  IN When(~InGallery(n) /\ n.focus,
          Mark(Half - 18, Across - 12) \o Mark(Half + 8, Across - 12)
          \o Mark(Half - 18, Across + 11) \o Mark(Half + 8, Across + 11))

\* What is drawn before the first filtered frame; the surface is still hidden.
StatusPieces(n) ==
  Box("BARS", 9, 7, 111, 25) \o Text("PHOTO ENGINE F1", 4, 30)
  \o Text(IF Imbalance(n) THEN "BUFFER IMBALANCE"
          ELSE IF n.decodeError THEN "DECODE ERROR" ELSE "SEQUENCE ACTIVE", 4, 45)
  \o Text(n.lines[2], 4, 60)
  \o Text(IF n.decodeError THEN "DECODE FAIL 1 JPEG 20K" ELSE "FPS 9.0 JPEG 20K", 4, 75)

Screen(n) ==
  IF n.hasFrame \/ InGallery(n)
  THEN ScenePieces(n) \o ComparePieces(n) \o MessagePieces(n) \o AlertPieces(n) \o FocusPieces(n)
  ELSE StatusPieces(n)

(* Every text: those made of the metrics, and the others. *)
Written(n) ==
  {Cut(n.style, 17), Cut(n.style, 19), Cut(n.photoStyle, 23), n.category, n.lines[2],
   CountText(n), ParameterText(n)}
  \union {Cut(n.lines[i], 31) : i \in 1..5}
Literals ==
  {"PHOTO GALLERY", "NO RETRO PHOTOS", "LOADING", "PROCESSED 320X240",
   "CENTER DELETE    BACK CANCEL", "LEFT RIGHT       BACK DELETE",
   "QUICK CONTROL", "UP DOWN SELECT", "CENTER CLOSE", "STYLE BROWSER", "DIAGNOSTICS", "FN CLOSE",
   "F", "< STYLE > CENTER", "FOCUS", "ORIGINAL", "RETROLENS", "BUFFER IMBALANCE", "DECODE ERROR",
   "PHOTO ENGINE F1", "SEQUENCE ACTIVE", "DECODE FAIL 1 JPEG 20K", "FPS 9.0 JPEG 20K",
   "RETRO CARD NOT READY"}
  \union {Answers[s] : s \in DOMAIN Answers} \union {StorageAnswers[s] : s \in DOMAIN StorageAnswers}

-----------------------------------------------------------------------------
Init == m \in Metrics /\ screen = <<>>
Compose == screen' = Screen(m) /\ UNCHANGED m
Spec == Init /\ [][Compose]_vars

-----------------------------------------------------------------------------
(***************************************************************************)
(* What the code keeps                                                     *)
(***************************************************************************)
Texts == {i \in DOMAIN screen : ~screen[i].solid}
Overlap(p, q) ==
  /\ p.left < q.right /\ q.left < p.right
  /\ p.top < q.bottom /\ q.top < p.bottom
Shown(i) == \A j \in (i + 1)..Len(screen) : ~(screen[j].solid /\ Overlap(screen[i], screen[j]))
\* Drawn to its last character, never crossed by anything drawn later.
Readable(value) ==
  \E i \in Texts :
    /\ screen[i].what = value /\ CharsDrawn(value, screen[i].left) = Len(value)
    /\ \A j \in (i + 1)..Len(screen) : ~Overlap(screen[i], screen[j])

\* Every piece lies on the screen, for every metrics and every name: text()
\* drops what does not fit, and the bar of the quick control stays in its
\* trough even when it shows another parameter's value.
TypeOK ==
  \A i \in DOMAIN screen :
    LET p == screen[i]
    IN /\ 0 <= p.left /\ p.right <= Width /\ 0 <= p.top /\ p.bottom <= Height
       /\ (p.solid /\ p.what = "BAR") => p.right <= 107

\* Whatever the worker answers to the user's request can be read, in the camera
\* and over a drawer, unless an alert is raised: nothing drawn after it crosses it.
AnswerIsReadable ==
  (screen # <<>> /\ m.hasFrame /\ Answer(m) # "" /\ ~InGallery(m) /\ ~Imbalance(m) /\ ~m.decodeError)
    => Readable(Answer(m))

\* Of the texts that are still shown, no two are drawn over each other.  Two cases
\* are known to fail and left out: a compare held over a drawer writes "ORIGINAL"
\* over its second line, and a name of 22 or more characters runs into the label
\* of the gallery.
TextsAreApart ==
  (~(m.compare /\ InDrawer(m)) /\ ~(InGallery(m) /\ Len(m.photoStyle) > 21))
    => \A i, j \in Texts : (i < j /\ Shown(i)) => ~Overlap(screen[i], screen[j])

\* The halves of the split compare are what their labels say, and a picture that
\* carries no label is the filtered one, or in the gallery the photo.
Under(value, picture) ==
  \A i \in Texts : screen[i].what = value =>
    \A x \in screen[i].left..(screen[i].right - 1) : PictureAt(m, x) = picture
HalvesAreLabelled ==
  (screen # <<>> /\ m.hasFrame /\ ~InDrawer(m)) =>
    /\ Under("ORIGINAL", "original") /\ Under("RETROLENS", "filtered")
    /\ (\E x \in 0..(Width - 1) : PictureAt(m, x) = "original") => Readable("ORIGINAL")
=============================================================================
