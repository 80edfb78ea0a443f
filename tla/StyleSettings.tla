--------------------------- MODULE StyleSettings ---------------------------
(***************************************************************************)
(* The style state of DisplayProbeWorker (selected style, intensity,       *)
(* adjustments, favorites, recent styles), the scenes and bars a user      *)
(* changes it through, and the settings file it outlives a session in.     *)
(*                                                                         *)
(* key() and touch() hold mutex_ throughout and are one action each; the   *)
(* load applies its result in one critical section, and the save runs in   *)
(* stop() when no thread is left.  saveSettings goes through a temporary   *)
(* file and a rename, so the file is the old or the new one.  Photos and   *)
(* the gallery's own index are PhotoWorker's; changeStyle() is not called  *)
(* by the application and is left out.                                     *)
(***************************************************************************)
EXTENDS Integers, Sequences, FiniteSets

CONSTANTS
  PresetCount,   \* presetCount()
  Id, Category,  \* of each preset, from kPresets
  RecentMax,     \* kRecentPresetCount
  Adjustments,   \* kPresetAdjustmentCount
  Lowest, Highest, Step,  \* of intensity (0) and of each adjustment
  NoFile,        \* there is no settings file
  MaxActs,       \* bound: keys and touches
  MaxSessions    \* bound: sessions

Presets == 0..(PresetCount - 1)
Cursors == 0..Adjustments   \* parameterIndex_: 0 is intensity

ASSUME StyleAssumption ==
  /\ PresetCount \in Nat \ {0} /\ RecentMax \in Nat \ {0} /\ Adjustments \in Nat
  /\ DOMAIN Id = Presets /\ \A p, q \in Presets : Id[p] = Id[q] => p = q
  /\ DOMAIN Category = Presets
  /\ Lowest \in [Cursors -> Int] /\ Highest \in [Cursors -> Int] /\ Step \in [Cursors -> Nat]
  /\ \A c \in Cursors : Lowest[c] <= Highest[c] /\ (c # 0 => 0 \in Lowest[c]..Highest[c])
  /\ MaxActs \in Nat /\ MaxSessions \in Nat

VARIABLES
  session,     \* between start() and the end of stop()
  storage,     \* "Initializing", "Ready" or "Unusable": storageReady_ and its init
  live,        \* what settingsLocked() collects
  dirty,       \* settingsDirty_
  scene, cursor,
  bars,        \* controlsVisible_
  barsTimed,   \* controlsVisibleUntilMs_ > 0
  compare,
  deleting,    \* a gallery delete is queued or runs
  shown,       \* of filterMetrics_: preset, parameterValue, favorite
  keyHeld,     \* the user's compare key
  finger,      \* "on" the screen or "off", or its comparison was "cancelled" by Android
  card,        \* settings.cfg, or NoFile
  \* counting and history
  acts, sessions,
  blind,       \* this session could not read the file there is
  left         \* the settings an orderly stop left behind and stored, or NoFile

uiVars == <<scene, cursor, bars, barsTimed, compare, deleting, keyHeld, finger>>
styleVars == <<live, dirty, shown>>
fileVars == <<card, left, blind>>
vars == <<session, storage, styleVars, uiVars, fileVars, acts, sessions>>

-----------------------------------------------------------------------------
Scenes == {"Camera", "Controls", "Browser", "Gallery", "Diagnostics", "DeleteConfirm"}
Clamp(v, c) == IF v < Lowest[c] THEN Lowest[c] ELSE IF v > Highest[c] THEN Highest[c] ELSE v
Flat == [c \in 1..Adjustments |-> 0]

Defaults == [preset |-> 0, intensity |-> Highest[0], favorites |-> {}, recent |-> <<>>,
             diagnostics |-> FALSE, adjust |-> [p \in Presets |-> Flat]]
Value(s, c) == IF c = 0 THEN s.intensity ELSE s.adjust[s.preset][c]
ShownOf(s, value) == [preset |-> s.preset, value |-> value, favorite |-> s.preset \in s.favorites]

\* recordRecentLocked: to the front, from where it stands or from a new last place.
Recorded_growing(s, p) ==   \* mutant: a style that is listed already gets a new place
  LET n == IF Len(s) < RecentMax THEN Len(s) + 1 ELSE Len(s)
  IN [i \in 1..n |-> IF i = 1 THEN p ELSE s[i - 1]]
Recorded(s, p) ==
  LET known == {i \in DOMAIN s : s[i] = p}
      n == IF known = {} /\ Len(s) < RecentMax THEN Len(s) + 1 ELSE Len(s)
      from == IF known = {} THEN n ELSE CHOOSE i \in known : TRUE
  IN [i \in 1..n |-> IF i = 1 THEN p ELSE IF i <= from THEN s[i - 1] ELSE s[i]]

\* changeCategoryLocked: the nearest preset of another category that way, or itself.
NextInCategory(p, d) ==
  LET at(k) == (p + d * k) % PresetCount
      other == {k \in 1..PresetCount : Category[at(k)] # Category[p]}
  IN IF other = {} THEN p ELSE at(CHOOSE k \in other : \A j \in other : k <= j)

(***************************************************************************)
(* saveSettings and loadSettings: ids for indices, a line per preset that  *)
(* has an adjustment, and values brought back into range.                  *)
(***************************************************************************)
FindPreset(id) ==
  IF \E p \in Presets : Id[p] = id
  THEN CHOOSE p \in Presets : Id[p] = id /\ \A q \in Presets : Id[q] = id => p <= q
  ELSE 0
Written(s) == [s EXCEPT !.preset = Id[s.preset],
                        !.recent = [i \in DOMAIN s.recent |-> Id[s.recent[i]]],
                        !.adjust = {[id |-> Id[p], values |-> s.adjust[p]] :
                                      p \in {q \in Presets : s.adjust[q] # Flat}}]
LinesOf(f, p) == {line \in f.adjust : FindPreset(line.id) = p}
Read(f) ==
  [f EXCEPT !.preset = FindPreset(f.preset),
            !.intensity = IF f.intensity \in Lowest[0]..Highest[0] THEN f.intensity
                                                                   ELSE Highest[0],
            !.recent = [i \in DOMAIN f.recent |-> FindPreset(f.recent[i])],
            !.adjust = [p \in Presets |->
                          IF LinesOf(f, p) = {} THEN Flat
                          ELSE LET line == CHOOSE l \in LinesOf(f, p) : TRUE
                               IN [c \in 1..Adjustments |-> Clamp(line.values[c], c)]]]

-----------------------------------------------------------------------------
Init ==
  /\ session = FALSE /\ storage = "Initializing"
  /\ live = Defaults /\ dirty = FALSE /\ shown = ShownOf(Defaults, Highest[0])
  /\ scene = "Camera" /\ cursor = 0 /\ bars = TRUE /\ barsTimed = TRUE /\ compare = FALSE
  /\ deleting = FALSE /\ keyHeld = FALSE /\ finger = "off"
  /\ card = NoFile /\ left = NoFile /\ blind = FALSE
  /\ acts = 0 /\ sessions = 0

\* The constructor and start().
Start ==
  /\ ~session /\ sessions < MaxSessions
  /\ session' = TRUE /\ sessions' = sessions + 1 /\ storage' = "Initializing"
  /\ live' = Defaults /\ dirty' = FALSE /\ shown' = ShownOf(Defaults, Highest[0])
  /\ scene' = "Camera" /\ cursor' = 0 /\ bars' = TRUE /\ barsTimed' = TRUE /\ compare' = FALSE
  /\ deleting' = FALSE /\ keyHeld' = FALSE /\ finger' = "off" /\ blind' = FALSE
  /\ UNCHANGED <<card, left, acts>>

(***************************************************************************)
(* The photo thread                                                        *)
(***************************************************************************)
\* The verdict of the store, whatever it is, rewrites what is shown.
StorageAnswers_unmarked(ready, loaded) ==   \* mutant: the favorite mark is not refreshed
  /\ session /\ storage = "Initializing"
  /\ storage' = IF ready THEN "Ready" ELSE "Unusable"
  /\ live' = loaded
  /\ shown' = [shown EXCEPT !.preset = loaded.preset, !.value = loaded.intensity]
  /\ UNCHANGED <<session, dirty, uiVars, card, left, acts, sessions>>
StorageAnswers(ready, loaded) ==
  /\ session /\ storage = "Initializing"
  /\ storage' = IF ready THEN "Ready" ELSE "Unusable"
  /\ live' = loaded /\ shown' = ShownOf(loaded, loaded.intensity)
  /\ UNCHANGED <<session, dirty, uiVars, card, left, acts, sessions>>

StorageFails == StorageAnswers(FALSE, live) /\ UNCHANGED blind
NothingLoaded == StorageAnswers(TRUE, live) /\ blind' = (card # NoFile)
LoadSettings == card # NoFile /\ StorageAnswers(TRUE, Read(card)) /\ UNCHANGED blind

\* A save that finds no space leaves the store unusable.
SpaceRunsOut ==
  /\ session /\ storage = "Ready" /\ storage' = "Unusable"
  /\ UNCHANGED <<session, styleVars, uiVars, fileVars, acts, sessions>>

\* The end of a delete puts the gallery back, wherever the user went meanwhile.
DeletionEnds ==
  /\ session /\ deleting
  /\ deleting' = FALSE /\ scene' = "Gallery"
  /\ UNCHANGED <<session, storage, styleVars, cursor, bars, barsTimed, compare, keyHeld, finger,
                 fileVars, acts, sessions>>

(***************************************************************************)
(* key()                                                                   *)
(***************************************************************************)
UserActs ==
  /\ session /\ acts < MaxActs /\ acts' = acts + 1
  /\ UNCHANGED <<session, storage, fileVars, sessions>>

\* What every key but compare ends in.
KeyPressed ==
  /\ UserActs
  /\ bars' = TRUE /\ barsTimed' = TRUE
  /\ UNCHANGED <<compare, keyHeld, finger>>

SelectStyle(p) ==
  /\ live' = [live EXCEPT !.preset = p, !.recent = Recorded(@, p)]
  /\ shown' = ShownOf(live', Value(live', cursor))
  /\ dirty' = TRUE

With(s, c, value) == IF c = 0 THEN [s EXCEPT !.intensity = value]
                              ELSE [s EXCEPT !.adjust[s.preset][c] = value]
AdjustParameter_clean(d) ==   \* mutant: the adjusted settings are not marked for saving
  /\ live' = With(live, cursor, Clamp(Value(live, cursor) + d * Step[cursor], cursor))
  /\ shown' = ShownOf(live', Value(live', cursor))
  /\ dirty' = dirty
AdjustParameter(d) ==
  /\ live' = With(live, cursor, Clamp(Value(live, cursor) + d * Step[cursor], cursor))
  /\ shown' = ShownOf(live', Value(live', cursor))
  /\ dirty' = TRUE

KeyPreviousNext(d) ==
  /\ KeyPressed
  /\ CASE scene = "Gallery" -> UNCHANGED styleVars
       [] scene = "Controls" -> AdjustParameter(d)
       [] OTHER -> SelectStyle((live.preset + d) % PresetCount)
  /\ UNCHANGED <<scene, cursor, deleting>>

KeyUpDown(d) ==
  /\ KeyPressed
  /\ CASE scene = "Gallery" -> UNCHANGED <<cursor, styleVars>>
       [] scene = "Controls" -> /\ cursor' = (cursor + d) % (Adjustments + 1)
                                /\ shown' = ShownOf(live, Value(live, cursor'))
                                /\ UNCHANGED <<live, dirty>>
       [] OTHER -> SelectStyle(NextInCategory(live.preset, d)) /\ UNCHANGED cursor
  /\ UNCHANGED <<scene, deleting>>

ToggleFavorite ==
  /\ live' = [live EXCEPT !.favorites =
                IF live.preset \in @ THEN @ \ {live.preset} ELSE @ \union {live.preset}]
  /\ shown' = [shown EXCEPT !.favorite = live.preset \in live'.favorites]
  /\ dirty' = TRUE

KeyConfirm ==
  /\ KeyPressed
  /\ CASE scene = "DeleteConfirm" ->
             /\ deleting' \in {deleting, deleting \/ storage = "Ready"}
             /\ UNCHANGED <<scene, styleVars>>
       [] scene = "Gallery" -> ToggleFavorite /\ UNCHANGED <<scene, deleting>>
       [] OTHER -> /\ scene' = IF scene = "Controls" THEN "Camera" ELSE "Controls"
                   /\ UNCHANGED <<deleting, styleVars>>
  /\ UNCHANGED cursor

KeyScene(target) ==
  /\ KeyPressed
  /\ scene' = IF scene = target THEN "Camera" ELSE target
  /\ UNCHANGED <<cursor, deleting, styleVars>>

KeyBack ==
  /\ KeyPressed
  /\ scene' = CASE scene = "Gallery" -> "DeleteConfirm"
                [] scene = "DeleteConfirm" -> "Gallery"
                [] OTHER -> "Camera"
  /\ UNCHANGED <<cursor, deleting, styleVars>>

KeyDiagnostics ==
  /\ KeyPressed
  /\ scene' = IF scene = "Diagnostics" THEN "Camera" ELSE "Diagnostics"
  /\ live' = [live EXCEPT !.diagnostics = (scene' = "Diagnostics")]
  /\ dirty' = TRUE
  /\ UNCHANGED <<cursor, deleting, shown>>

KeyCompare ==
  /\ UserActs
  /\ keyHeld' = ~keyHeld /\ compare' = ~keyHeld
  /\ finger' = IF finger = "cancelled" THEN "off" ELSE finger
  /\ UNCHANGED <<styleVars, scene, cursor, bars, barsTimed, deleting>>

(***************************************************************************)
(* touch()                                                                 *)
(***************************************************************************)
TouchDown ==
  /\ UserActs
  /\ finger # "on" /\ finger' = "on"
  /\ UNCHANGED <<styleVars, scene, cursor, bars, barsTimed, compare, deleting, keyHeld>>

\* A finger that moves 450 ms after it went down or later.
TouchHold ==
  /\ UserActs
  /\ finger = "on" /\ compare' = TRUE
  /\ UNCHANGED <<styleVars, scene, cursor, bars, barsTimed, deleting, keyHeld, finger>>

Swipe(d) ==
  /\ SelectStyle((live.preset + d) % PresetCount)
  /\ bars' = TRUE /\ barsTimed' = TRUE
Tap ==
  /\ bars' = ~bars /\ barsTimed' = ~bars
  /\ shown' = [shown EXCEPT !.favorite = live.preset \in live.favorites]
  /\ UNCHANGED <<live, dirty>>
TouchUp ==
  /\ UserActs
  /\ finger = "on" /\ finger' = "off" /\ compare' = FALSE
  /\ Tap \/ \E d \in {-1, 1} : Swipe(d)
  /\ UNCHANGED <<scene, cursor, deleting, keyHeld>>

\* ACTION_CANCEL, which touch() passes over: a comparison stays on.
TouchCancel ==
  /\ UserActs
  /\ finger = "on" /\ finger' = IF compare THEN "cancelled" ELSE "off"
  /\ UNCHANGED <<styleVars, scene, cursor, bars, barsTimed, compare, deleting, keyHeld>>

\* renderNextLocked, once two seconds have passed.
HideBars ==
  /\ session /\ scene = "Camera" /\ bars /\ barsTimed
  /\ bars' = FALSE
  /\ UNCHANGED <<session, storage, styleVars, scene, cursor, barsTimed, compare, deleting, keyHeld,
                 finger, fileVars, acts, sessions>>

(***************************************************************************)
(* The end of a session                                                    *)
(***************************************************************************)
\* stop(): the save may fail, and is not tried without a usable store.
Stop ==
  /\ session /\ session' = FALSE
  /\ IF storage = "Ready" /\ dirty
     THEN \/ card' = Written(live) /\ left' = live
          \/ UNCHANGED card /\ left' = NoFile
     ELSE /\ UNCHANGED card
          /\ left' = IF storage = "Ready" /\ ~blind /\ card # NoFile THEN live ELSE NoFile
  /\ UNCHANGED <<storage, styleVars, uiVars, blind, acts, sessions>>

\* The process is killed, before or after the rename of a save it was in.
Killed ==
  /\ session /\ session' = FALSE
  /\ \/ storage = "Ready" /\ dirty /\ card' = Written(live)
     \/ UNCHANGED card
  /\ left' = NoFile
  /\ UNCHANGED <<storage, styleVars, uiVars, blind, acts, sessions>>

Next ==
  \/ Start \/ Stop \/ Killed
  \/ StorageFails \/ NothingLoaded \/ LoadSettings \/ SpaceRunsOut \/ DeletionEnds
  \/ \E d \in {-1, 1} : KeyPreviousNext(d) \/ KeyUpDown(d)
  \/ KeyConfirm \/ KeyScene("Browser") \/ KeyScene("Gallery") \/ KeyBack \/ KeyDiagnostics
  \/ KeyCompare \/ TouchDown \/ TouchHold \/ TouchUp \/ TouchCancel
  \/ HideBars

Spec == Init /\ [][Next]_vars
-----------------------------------------------------------------------------
(***************************************************************************)
(* What the code keeps                                                     *)
(***************************************************************************)
SettingsOK(s) ==
  /\ s.preset \in Presets /\ s.intensity \in Lowest[0]..Highest[0]
  /\ s.favorites \subseteq Presets /\ s.diagnostics \in BOOLEAN
  /\ DOMAIN s.recent = 1..Len(s.recent) /\ \A i \in DOMAIN s.recent : s.recent[i] \in Presets
  /\ DOMAIN s.adjust = Presets
  /\ \A p \in Presets : /\ DOMAIN s.adjust[p] = 1..Adjustments
                        /\ \A c \in 1..Adjustments : s.adjust[p][c] \in Lowest[c]..Highest[c]

FlagsOK ==
  /\ session \in BOOLEAN /\ dirty \in BOOLEAN /\ blind \in BOOLEAN /\ deleting \in BOOLEAN
  /\ bars \in BOOLEAN /\ barsTimed \in BOOLEAN
  /\ compare \in BOOLEAN /\ keyHeld \in BOOLEAN /\ finger \in {"off", "on", "cancelled"}

\* Types, and every value the quick controls can reach or a file can bring
\* back is in its range.
TypeOK ==
  /\ storage \in {"Initializing", "Ready", "Unusable"}
  /\ SettingsOK(live) /\ (left # NoFile => SettingsOK(left)) /\ (card # NoFile => SettingsOK(Read(card)))
  /\ FlagsOK /\ scene \in Scenes /\ cursor \in Cursors
  /\ shown.preset \in Presets /\ shown.value \in Int /\ shown.favorite \in BOOLEAN
  /\ acts \in 0..MaxActs /\ sessions \in 0..MaxSessions

RecentOK(s) ==
  /\ Len(s.recent) <= RecentMax
  /\ \A i, j \in DOMAIN s.recent : s.recent[i] = s.recent[j] => i = j
  /\ s.recent # <<>> => s.recent[1] = s.preset

\* Types and ranges hold, and the recent list never exceeds its array, names no
\* style twice and begins with the style in use, through every mixture of keys,
\* swipes, loads that replace it under way and sessions: recordRecentLocked
\* shifts in place and trusts that the style it finds is there once.
RecentIsHistory ==
  TypeOK /\ RecentOK(live) /\ (card # NoFile => RecentOK(Read(card)))

\* After every step the screen names the selected style and its own favorite
\* mark, and the value beside the cursor is that parameter's.  Two things are
\* known to differ: the store's verdict shows intensity wherever the cursor is,
\* and a tap ends the comparison of a key that is still held; but only a held
\* key or a finger compares, or one whose touch Android cancelled, until the
\* next touch ends or the key is used.
ShownIsLive ==
  session => /\ shown = ShownOf(live, shown.value)
             /\ shown.value \in {Value(live, cursor), live.intensity}
             /\ compare => keyHeld \/ finger # "off"

\* What a stop stored is what the next session reads: favorites, recent
\* styles, style, intensity and every preset's adjustments.  (Every change
\* must mark the settings dirty, and each value must survive the file.)  What
\* was left is not always what was chosen: a load that ends after the user's
\* first keys replaces all of it.
StoredIsWhatWasLeft == ~session /\ left # NoFile => Read(card) = left

=============================================================================
