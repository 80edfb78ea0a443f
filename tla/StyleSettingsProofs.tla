------------------------ MODULE StyleSettingsProofs ------------------------
(***************************************************************************)
(* Proofs about the style state, for any presets, categories and ranges    *)
(* and any number of adjustments, keys and sessions: values stay in range, *)
(* the recent list is a history without repetition, what is shown is what  *)
(* is set, and what a stop stored is what the next session reads.          *)
(***************************************************************************)
EXTENDS StyleSettings, SequenceTheorems, WellFoundedInduction, TLAPS

-----------------------------------------------------------------------------
(***************************************************************************)
(* The invariant.                                                          *)
(***************************************************************************)
Settings ==
  [preset : Presets, intensity : Int, favorites : SUBSET Presets, recent : Seq(Presets),
   diagnostics : BOOLEAN, adjust : [Presets -> [1..Adjustments -> Int]]]

\* Settings that the program may hold, and leave in its file.
Good(s) ==
  /\ s \in Settings /\ RecentOK(s)
  /\ s.intensity \in Lowest[0]..Highest[0]
  /\ \A p \in Presets : \A c \in 1..Adjustments : s.adjust[p][c] \in Lowest[c]..Highest[c]

\* The file is the image of good settings: those that were left, and those a
\* session has that has loaded it and changed nothing.
FileInv ==
  /\ card # NoFile => Good(Read(card)) /\ card = Written(Read(card))
  /\ left # NoFile => Good(left)
  /\ (~session /\ left # NoFile) => card = Written(left)
  /\ (session /\ storage = "Ready" /\ ~dirty /\ ~blind /\ card # NoFile) => card = Written(live)

ScreenInv ==
  /\ storage \in {"Initializing", "Ready", "Unusable"}
  /\ scene \in Scenes /\ cursor \in Cursors
  /\ shown.preset \in Presets /\ shown.value \in Int /\ shown.favorite \in BOOLEAN
  /\ acts \in 0..MaxActs /\ sessions \in 0..MaxSessions

StyleInv == FlagsOK /\ ScreenInv /\ Good(live) /\ FileInv /\ ShownIsLive

-----------------------------------------------------------------------------
(***************************************************************************)
(* Values, and the list of recent styles.                                  *)
(***************************************************************************)
\* A value that is brought back into its range is in it, and one that is stays.
LEMMA ClampedInRange ==
  ASSUME NEW c \in Cursors, NEW v \in Int
  PROVE  /\ Clamp(v, c) \in Lowest[c]..Highest[c]
         /\ v \in Lowest[c]..Highest[c] => Clamp(v, c) = v
BY StyleAssumption DEF StyleAssumption, Clamp

\* Recorded puts the style first and keeps the list within its array and free of
\* repetition: an entry comes from the place before it up to where the style was
\* found, from its own place after that, never from where the style was.
LEMMA RecordedProperties ==
  ASSUME NEW s \in Seq(Presets), Len(s) <= RecentMax, NEW p \in Presets,
         \A i, j \in DOMAIN s : s[i] = s[j] => i = j
  PROVE  /\ Recorded(s, p) \in Seq(Presets) /\ Len(Recorded(s, p)) <= RecentMax
         /\ Recorded(s, p) # <<>> /\ Recorded(s, p)[1] = p
         /\ \A i, j \in DOMAIN Recorded(s, p) : Recorded(s, p)[i] = Recorded(s, p)[j] => i = j
<1> DEFINE known == {i \in DOMAIN s : s[i] = p}
           n == IF known = {} /\ Len(s) < RecentMax THEN Len(s) + 1 ELSE Len(s)
           from == IF known = {} THEN n ELSE CHOOSE i \in known : TRUE
           t == [i \in 1..n |-> IF i = 1 THEN p ELSE IF i <= from THEN s[i - 1] ELSE s[i]]
<1>1. /\ RecentMax \in Nat \ {0} /\ Len(s) \in Nat /\ DOMAIN s = 1..Len(s)
      /\ \A i \in 1..Len(s) : s[i] \in Presets
  BY StyleAssumption, LenProperties, ElementOfSeq DEF StyleAssumption
<1>2. n \in 1..RecentMax /\ n - 1 <= Len(s) /\ from \in 1..n
      /\ (from = n \/ n = Len(s)) /\ \A i \in 1..Len(s) : s[i] = p => i = from
  <2>1. CASE known = {}
    <3>1. n = IF Len(s) < RecentMax THEN Len(s) + 1 ELSE Len(s)
      BY <2>1
    <3>2. n \in 1..RecentMax /\ n - 1 <= Len(s)
      BY <1>1, <3>1
    <3>3. from = n /\ \A i \in 1..Len(s) : s[i] # p
      BY <1>1, <2>1
    <3> QED
      BY <3>2, <3>3
  <2>2. CASE known # {}
    <3>1. n = Len(s)
      BY <2>2
    <3>2. from \in known
      BY <2>2
    <3>3. from \in 1..Len(s) /\ \A i \in 1..Len(s) : s[i] = p => i = from
      BY <1>1, <3>2
    <3> HIDE DEF n, from
    <3>4. n \in 1..RecentMax /\ n - 1 <= Len(s) /\ from \in 1..n
      BY <1>1, <3>1, <3>3
    <3> QED
      BY <3>1, <3>3, <3>4
  <2> QED
    BY <2>1, <2>2
<1> HIDE DEF n, from
<1>3. RecentMax \in Nat /\ Len(s) \in Nat
  BY <1>1
<1>4. n \in 1..RecentMax /\ n - 1 <= Len(s) /\ from \in 1..n /\ (from = n \/ n = Len(s))
  BY <1>2
<1> DEFINE source(i) == IF i <= from THEN i - 1 ELSE i
<1>5. DOMAIN t = 1..n /\ t[1] = p /\ \A i \in 1..n : i # 1 => t[i] = s[source(i)]
  BY <1>2
<1>6. ASSUME NEW i \in 1..n, i # 1 PROVE source(i) \in 1..Len(s) /\ source(i) # from
  <2>1. /\ Len(s) \in Nat /\ n \in Nat /\ from \in Nat /\ i \in Nat /\ 1 <= i /\ i <= n
        /\ n - 1 <= Len(s) /\ from <= n /\ (from = n \/ n = Len(s))
    BY <1>3, <1>4
  <2>2. CASE i <= from
    BY <1>6, <2>1, <2>2
  <2>3. CASE ~(i <= from)
    BY <1>6, <2>1, <2>3
  <2> QED
    BY <2>2, <2>3
<1>7. \A i, j \in 1..n : source(i) = source(j) /\ source(i) # from => i = j
  BY <1>2
<1> HIDE DEF t, source
<1>8. ASSUME NEW i \in 1..n, i # 1 PROVE t[i] \in Presets /\ t[i] # p
  BY <1>1, <1>2, <1>6, <1>5, <1>8
<1>9. t \in Seq(Presets) /\ Len(t) = n
  <2>1. \A i \in 1..n : t[i] \in Presets
    BY <1>5, <1>8
  <2>2. t = [i \in 1..n |-> t[i]]
    BY DEF t
  <2> QED
    BY <1>2, <1>5, <2>1, <2>2
<1>10. \A i, j \in 1..n : t[i] = t[j] => i = j
  <2> SUFFICES ASSUME NEW i \in 1..n, NEW j \in 1..n, t[i] = t[j], i # 1, j # 1 PROVE i = j
    BY <1>5, <1>8
  <2>1. source(i) \in 1..Len(s) /\ source(j) \in 1..Len(s) /\ s[source(i)] = s[source(j)]
    BY <1>6, <1>5
  <2>2. source(i) = source(j)
    BY <1>1, <2>1
  <2> QED
    BY <1>6, <1>7, <2>2
<1>11. t[1] = p /\ t # <<>>
  BY <1>2, <1>5
<1>12. Recorded(s, p) = t
  BY DEF Recorded, t, n, from
<1> QED
  BY <1>2, <1>5, <1>9, <1>10, <1>11, <1>12

\* Selecting a style gives good settings.
LEMMA FirstRecorded ==
  ASSUME NEW s, Good(s), NEW p \in Presets
  PROVE  Good([s EXCEPT !.preset = p, !.recent = Recorded(@, p)])
<1> DEFINE r == Recorded(s.recent, p)
           t == [s EXCEPT !.preset = p, !.recent = r]
<1>1. s.recent \in Seq(Presets)
  BY DEF Good, Settings
<1>2. /\ r \in Seq(Presets) /\ Len(r) <= RecentMax /\ r # <<>> /\ r[1] = p
      /\ \A i, j \in DOMAIN r : r[i] = r[j] => i = j
  BY <1>1, RecordedProperties DEF Good, RecentOK
<1> HIDE DEF r
<1>3. /\ t \in Settings /\ t.preset = p /\ t.recent = r
      /\ t.intensity = s.intensity /\ t.adjust = s.adjust
  BY <1>2 DEF Good, Settings
<1> HIDE DEF t
<1>4. Good(t)
  BY <1>2, <1>3 DEF Good, RecentOK
<1> QED
  BY <1>4 DEF t, r

\* So does setting a value that is in its range.
LEMMA WithValue ==
  ASSUME NEW s, Good(s), NEW c \in Cursors, NEW v \in Lowest[c]..Highest[c]
  PROVE  Good(With(s, c, v)) /\ With(s, c, v).preset = s.preset
<1>1. CASE c = 0
  <2> DEFINE t == [s EXCEPT !.intensity = v]
  <2>0. v \in Int
    BY StyleAssumption DEF StyleAssumption
  <2>1. /\ t \in Settings /\ t.preset = s.preset /\ t.recent = s.recent
        /\ t.intensity = v /\ t.adjust = s.adjust
    BY <2>0 DEF Good, Settings
  <2> HIDE DEF t
  <2>2. Good(t)
    BY <1>1, <2>1 DEF Good, RecentOK
  <2> QED
    BY <1>1, <2>1, <2>2 DEF With, t
<1>2. CASE c # 0
  <2> DEFINE t == [s EXCEPT !.adjust[s.preset][c] = v]
             a == [s.adjust EXCEPT ![s.preset][c] = v]
  <2>0. v \in Int /\ c \in 1..Adjustments /\ s.preset \in Presets
    BY <1>2, StyleAssumption DEF StyleAssumption, Cursors, Good, Settings
  <2>1. /\ a \in [Presets -> [1..Adjustments -> Int]]
        /\ \A p \in Presets : \A d \in 1..Adjustments :
             a[p][d] = IF p = s.preset /\ d = c THEN v ELSE s.adjust[p][d]
    BY <2>0 DEF Good, Settings
  <2>2. t = [s EXCEPT !.adjust = a]
    OBVIOUS
  <2> HIDE DEF a
  <2>3. /\ t \in Settings /\ t.preset = s.preset /\ t.recent = s.recent
        /\ t.intensity = s.intensity /\ t.adjust = a
    BY <2>1, <2>2 DEF Good, Settings
  <2> HIDE DEF t
  <2>4. Good(t)
    BY <2>1, <2>3 DEF Good, RecentOK
  <2> QED
    BY <1>2, <2>3, <2>4 DEF With, t
<1> QED
  BY <1>1, <1>2

\* The value beside the cursor is in its range.
LEMMA ValueInRange ==
  ASSUME NEW s, Good(s), NEW c \in Cursors
  PROVE  Value(s, c) \in Lowest[c]..Highest[c] /\ Value(s, c) \in Int
BY StyleAssumption, SMTT(20) DEF StyleAssumption, Value, Good, Settings, Cursors

\* A set of numbers that is not empty has a least one.
LEMMA LeastNumber ==
  ASSUME NEW S \in SUBSET Nat, S # {}
  PROVE  \E k \in S : \A j \in S : k <= j
<1> DEFINE less == OpToRel(<, Nat)
<1>1. \A j, k \in Nat : <<j, k>> \in less <=> j < k
  BY DEF OpToRel
<1>2. IsWellFoundedOn(less, Nat)
  BY NatLessThanWellFounded
<1> HIDE DEF less
<1>3. PICK k \in S : \A j \in S : ~(<<j, k>> \in less)
  BY <1>2, WFMin
<1>4. ASSUME NEW j \in S PROVE k <= j
  <2>1. j \in Nat /\ k \in Nat /\ ~(j < k)
    BY <1>1, <1>3
  <2> QED
    BY <2>1
<1> QED
  BY <1>4

\* The next preset, and the next of another category, is a preset.
LEMMA Neighbours ==
  ASSUME NEW p \in Presets, NEW d \in {-1, 1}
  PROVE  (p + d) % PresetCount \in Presets /\ NextInCategory(p, d) \in Presets
<1> DEFINE at(k) == (p + d * k) % PresetCount
           other == {k \in 1..PresetCount : Category[at(k)] # Category[p]}
           next == CHOOSE k \in other : \A j \in other : k <= j
<1>1. PresetCount \in Nat \ {0} /\ p \in Int
  BY StyleAssumption DEF StyleAssumption, Presets
<1>2. ASSUME NEW k \in Int PROVE k % PresetCount \in Presets
  BY <1>1, <1>2 DEF Presets
<1>3. NextInCategory(p, d) = IF other = {} THEN p ELSE at(next)
  BY DEF NextInCategory
<1>4. CASE other # {}
  <2>1. PICK k \in other : \A j \in other : k <= j
    <3>1. other \subseteq Nat
      BY <1>1
    <3> HIDE DEF other
    <3> QED
      BY <1>4, <3>1, LeastNumber
  <2>2. next \in other
    BY <2>1
  <2> HIDE DEF next
  <2>3. next \in Int /\ p + d * next \in Int
    BY <1>1, <2>2
  <2>4. at(next) \in Presets
    BY <1>2, <2>3
  <2>5. NextInCategory(p, d) = at(next)
    BY <1>3, <1>4
  <2> QED
    BY <1>1, <1>2, <2>4, <2>5
<1> QED
  BY <1>1, <1>2, <1>3, <1>4

-----------------------------------------------------------------------------
(***************************************************************************)
(* The settings file.                                                      *)
(***************************************************************************)
\* An id leads back to the preset it was taken from.
LEMMA FindsItsPreset ==
  ASSUME NEW p \in Presets
  PROVE  FindPreset(Id[p]) = p
<1>1. \A q \in Presets : Id[q] = Id[p] => q = p
  BY StyleAssumption DEF StyleAssumption
<1>2. p \in Int
  BY DEF Presets
<1>3. Id[p] = Id[p] /\ \A q \in Presets : Id[q] = Id[p] => p <= q
  BY <1>1, <1>2
<1> QED
  BY <1>1, <1>3 DEF FindPreset

\* Settings that were good when they were written are read back as they were.
LEMMA ReadWritten ==
  ASSUME NEW s, Good(s)
  PROVE  Read(Written(s)) = s
<1> DEFINE lines == {[id |-> Id[p], values |-> s.adjust[p]] :
                       p \in {q \in Presets : s.adjust[q] # Flat}}
           names == [i \in DOMAIN s.recent |-> Id[s.recent[i]]]
           w == [s EXCEPT !.preset = Id[s.preset], !.recent = names, !.adjust = lines]
           recent == [i \in DOMAIN w.recent |-> FindPreset(w.recent[i])]
           adjust == [p \in Presets |->
                        IF LinesOf(w, p) = {} THEN Flat
                        ELSE LET line == CHOOSE l \in LinesOf(w, p) : TRUE
                             IN [c \in 1..Adjustments |-> Clamp(line.values[c], c)]]
           intensity == IF w.intensity \in Lowest[0]..Highest[0] THEN w.intensity ELSE Highest[0]
<1>1. s \in Settings /\ s.preset \in Presets /\ s.recent \in Seq(Presets)
  BY DEF Good, Settings
<1>2. /\ w.preset = Id[s.preset] /\ w.recent = names /\ w.adjust = lines
      /\ w.intensity = s.intensity
      /\ w = [preset |-> Id[s.preset], intensity |-> s.intensity, favorites |-> s.favorites,
              recent |-> names, diagnostics |-> s.diagnostics, adjust |-> lines]
  <2> HIDE DEF names, lines
  <2>1. DOMAIN s = {"preset", "intensity", "favorites", "recent", "diagnostics", "adjust"}
    BY <1>1 DEF Settings
  <2>2. /\ w.preset = Id[s.preset] /\ w.recent = names /\ w.adjust = lines
        /\ w.intensity = s.intensity
    BY <2>1
  <2>3. w = [s EXCEPT !.preset = Id[s.preset], !.recent = names, !.adjust = lines]
    OBVIOUS
  <2>4. w.favorites = s.favorites /\ w.diagnostics = s.diagnostics
    BY <2>1
  <2> HIDE DEF w
  <2>5. w = [preset |-> Id[s.preset], intensity |-> s.intensity, favorites |-> s.favorites,
             recent |-> names, diagnostics |-> s.diagnostics, adjust |-> lines]
    BY <2>1, <2>2, <2>3, <2>4
  <2> QED
    BY <2>2, <2>5
<1>3. FindPreset(w.preset) = s.preset
  BY <1>1, <1>2, FindsItsPreset
<1>4. intensity = s.intensity
  BY <1>2 DEF Good
<1>5. recent = s.recent
  <2>1. \A i \in DOMAIN s.recent : s.recent[i] \in Presets
    BY <1>1, ElementOfSeq, LenProperties
  <2>2. \A i \in DOMAIN s.recent : FindPreset(names[i]) = s.recent[i]
    BY <2>1, FindsItsPreset
  <2>3. recent = [i \in DOMAIN s.recent |-> s.recent[i]]
    BY <1>2, <2>2
  <2>4. s.recent = [i \in DOMAIN s.recent |-> s.recent[i]]
    BY <1>1, LenProperties
  <2> QED
    BY <2>3, <2>4
<1>6. adjust = s.adjust
  <2>1. s.adjust \in [Presets -> [1..Adjustments -> Int]]
    BY <1>1 DEF Settings
  <2>2. ASSUME NEW p \in Presets PROVE adjust[p] = s.adjust[p]
    <3>1. \A line \in LinesOf(w, p) : line = [id |-> Id[p], values |-> s.adjust[p]]
      <4> SUFFICES ASSUME NEW line \in lines, FindPreset(line.id) = p
                   PROVE  line = [id |-> Id[p], values |-> s.adjust[p]]
        BY <1>2 DEF LinesOf
      <4>1. PICK q \in Presets : line = [id |-> Id[q], values |-> s.adjust[q]]
        OBVIOUS
      <4>2. q = p
        BY <4>1, FindsItsPreset
      <4> QED
        BY <4>1, <4>2
    <3>2. CASE s.adjust[p] = Flat
      <4>1. LinesOf(w, p) = {}
        <5> SUFFICES ASSUME NEW line \in lines, FindPreset(line.id) = p PROVE FALSE
          BY <1>2 DEF LinesOf
        <5>1. PICK q \in Presets : /\ line = [id |-> Id[q], values |-> s.adjust[q]]
                                   /\ s.adjust[q] # Flat
          OBVIOUS
        <5>2. q = p
          BY <5>1, FindsItsPreset
        <5> QED
          BY <3>2, <5>1, <5>2
      <4> QED
        BY <3>2, <4>1
    <3>3. CASE s.adjust[p] # Flat
      <4> DEFINE line == CHOOSE l \in LinesOf(w, p) : TRUE
      <4>1. LinesOf(w, p) # {}
        <5>1. [id |-> Id[p], values |-> s.adjust[p]] \in lines
          BY <3>3
        <5>2. FindPreset([id |-> Id[p], values |-> s.adjust[p]].id) = p
          BY FindsItsPreset
        <5> QED
          BY <1>2, <5>1, <5>2 DEF LinesOf
      <4>2. line = [id |-> Id[p], values |-> s.adjust[p]]
        BY <3>1, <4>1
      <4>3. adjust[p] = [c \in 1..Adjustments |-> Clamp(line.values[c], c)]
        BY <4>1
      <4> HIDE DEF line, adjust, w, lines
      <4>4. adjust[p] = [c \in 1..Adjustments |-> Clamp(s.adjust[p][c], c)]
        BY <4>2, <4>3
      <4>5. \A c \in 1..Adjustments : Clamp(s.adjust[p][c], c) = s.adjust[p][c]
        <5>1. \A c \in 1..Adjustments :
                c \in Cursors /\ s.adjust[p][c] \in Int /\ s.adjust[p][c] \in Lowest[c]..Highest[c]
          BY <2>1, StyleAssumption DEF StyleAssumption, Good, Cursors
        <5> QED
          BY <5>1, ClampedInRange
      <4>6. s.adjust[p] = [c \in 1..Adjustments |-> s.adjust[p][c]]
        BY <2>1
      <4> QED
        BY <4>4, <4>5, <4>6
    <3> QED
      BY <3>2, <3>3
  <2>3. adjust = [p \in Presets |-> adjust[p]]
    OBVIOUS
  <2> HIDE DEF adjust
  <2> QED
    BY <2>1, <2>2, <2>3
<1>7. Written(s) = w
  BY DEF Written
<1>8. Read(w) = [w EXCEPT !.preset = FindPreset(w.preset), !.intensity = intensity,
                          !.recent = recent, !.adjust = adjust]
  BY DEF Read
<1> HIDE DEF intensity, recent, adjust, names, lines
<1>9. Read(w) = [preset |-> s.preset, intensity |-> s.intensity, favorites |-> s.favorites,
                 recent |-> s.recent, diagnostics |-> s.diagnostics, adjust |-> s.adjust]
  <2>1. Read(w) = [w EXCEPT !.preset = s.preset, !.intensity = s.intensity,
                            !.recent = s.recent, !.adjust = s.adjust]
    BY <1>3, <1>4, <1>5, <1>6, <1>8
  <2>2. DOMAIN w = {"preset", "intensity", "favorites", "recent", "diagnostics", "adjust"}
    BY <1>2
  <2>3. w.favorites = s.favorites /\ w.diagnostics = s.diagnostics
    BY <1>2
  <2> HIDE DEF w
  <2> QED
    BY <2>1, <2>2, <2>3
<1>10. s = [preset |-> s.preset, intensity |-> s.intensity, favorites |-> s.favorites,
            recent |-> s.recent, diagnostics |-> s.diagnostics, adjust |-> s.adjust]
  BY <1>1 DEF Settings
<1> QED
  BY <1>7, <1>9, <1>10

\* Good settings are what the type invariant and RecentIsHistory ask for.
LEMMA GoodIsOK ==
  ASSUME NEW s, Good(s)
  PROVE  SettingsOK(s) /\ RecentOK(s)
<1>1. /\ s.preset \in Presets /\ s.favorites \subseteq Presets /\ s.diagnostics \in BOOLEAN
      /\ s.recent \in Seq(Presets) /\ s.adjust \in [Presets -> [1..Adjustments -> Int]]
  BY DEF Good, Settings
<1>2. DOMAIN s.recent = 1..Len(s.recent) /\ \A i \in DOMAIN s.recent : s.recent[i] \in Presets
  BY <1>1, LenProperties, ElementOfSeq
<1>3. DOMAIN s.adjust = Presets /\ \A p \in Presets : DOMAIN s.adjust[p] = 1..Adjustments
  BY <1>1
<1> QED
  BY <1>1, <1>2, <1>3 DEF Good, SettingsOK

\* The constructor's settings are good.
LEMMA DefaultsGood == Good(Defaults)
<1>1. 0 \in Presets /\ 0 \in Cursors
  BY StyleAssumption DEF StyleAssumption, Presets, Cursors
<1>2. <<>> \in Seq(Presets) /\ Len(<<>>) = 0
  BY EmptySeq
<1>3. Flat \in [1..Adjustments -> Int]
  BY DEF Flat
<1>4. Highest[0] \in Int /\ Lowest[0] \in Int /\ Lowest[0] <= Highest[0]
  BY <1>1, StyleAssumption DEF StyleAssumption
<1>5. Defaults \in Settings
  BY <1>1, <1>2, <1>3, <1>4 DEF Defaults, Settings
<1>6. /\ Defaults.preset = 0 /\ Defaults.intensity = Highest[0] /\ Defaults.recent = <<>>
      /\ \A p \in Presets : Defaults.adjust[p] = Flat
  BY DEF Defaults
<1>7. \A c \in 1..Adjustments : Flat[c] = 0 /\ 0 \in Lowest[c]..Highest[c]
  BY StyleAssumption DEF StyleAssumption, Flat, Cursors
<1>8. RecentOK(Defaults)
  BY <1>2, <1>6, StyleAssumption DEF RecentOK, StyleAssumption
<1> QED
  BY <1>4, <1>5, <1>6, <1>7, <1>8 DEF Good

-----------------------------------------------------------------------------
(***************************************************************************)
(* What is shown.  Consistent is what ShownIsLive says of a session, and   *)
(* what each change of style restores.                                     *)
(***************************************************************************)
Consistent == /\ shown = ShownOf(live, shown.value)
              /\ shown.value \in {Value(live, cursor), live.intensity}

\* The fields of what is shown.
LEMMA ShownProperties ==
  ASSUME NEW s, NEW v
  PROVE  /\ ShownOf(s, v).preset = s.preset /\ ShownOf(s, v).value = v
         /\ ShownOf(s, v).favorite = (s.preset \in s.favorites)
BY DEF ShownOf

\* Showing the value beside the cursor, or the intensity, is consistent.
LEMMA ShowingIsConsistent ==
  ASSUME NEW v, shown' = ShownOf(live', v), v \in {Value(live', cursor'), live'.intensity}
  PROVE  Consistent'
<1>1. shown'.value = v
  BY ShownProperties
<1> QED
  BY <1>1 DEF Consistent

\* What is consistent with good settings is typed as it should be.
LEMMA ConsistentTypes ==
  ASSUME NEW s, Good(s), NEW c \in Cursors,
         NEW sh, sh = ShownOf(s, sh.value), sh.value \in {Value(s, c), s.intensity}
  PROVE  sh.preset \in Presets /\ sh.value \in Int /\ sh.favorite \in BOOLEAN
<1>1. s.preset \in Presets /\ s.intensity \in Int
  BY DEF Good, Settings
<1>2. sh.value \in Int
  BY <1>1, ValueInRange
<1>3. sh.preset = s.preset /\ sh.favorite = (s.preset \in s.favorites)
  <2>1. \A v : /\ ShownOf(s, v).preset = s.preset
               /\ ShownOf(s, v).favorite = (s.preset \in s.favorites)
    BY ShownProperties
  <2> QED
    BY <2>1, Zenon
<1>4. (s.preset \in s.favorites) \in BOOLEAN
  OBVIOUS
<1> QED
  BY <1>1, <1>2, <1>3, <1>4, Zenon

\* Each of the four changes of style leaves good settings, consistently shown.
LEMMA SelectedStyle ==
  ASSUME Good(live), cursor' = cursor, NEW p \in Presets, SelectStyle(p)
  PROVE  Good(live') /\ dirty' = TRUE /\ Consistent'
<1>1. Good(live') /\ dirty' = TRUE
  BY FirstRecorded DEF SelectStyle
<1>2. shown' = ShownOf(live', Value(live', cursor'))
  BY DEF SelectStyle
<1> QED
  BY <1>1, <1>2, ShowingIsConsistent

\* Turning the dial: the value is clamped before it is set.
LEMMA AdjustedParameter ==
  ASSUME Good(live), cursor \in Cursors, cursor' = cursor, NEW d \in {-1, 1}, AdjustParameter(d)
  PROVE  Good(live') /\ dirty' = TRUE /\ Consistent'
<1> DEFINE v == Value(live, cursor) + d * Step[cursor]
<1>1. v \in Int
  BY ValueInRange, StyleAssumption DEF StyleAssumption
<1>2. live' = With(live, cursor, Clamp(v, cursor)) /\ dirty' = TRUE
  BY DEF AdjustParameter
<1> HIDE DEF v
<1>3. Good(live')
  BY <1>1, <1>2, ClampedInRange, WithValue
<1>4. shown' = ShownOf(live', Value(live', cursor'))
  BY DEF AdjustParameter
<1> QED
  BY <1>2, <1>3, <1>4, ShowingIsConsistent

\* Marking a favorite touches the mark on the screen only.
LEMMA ToggledFavorite ==
  ASSUME Good(live), cursor' = cursor, Consistent, ToggleFavorite
  PROVE  Good(live') /\ dirty' = TRUE /\ Consistent'
<1> DEFINE marks == IF live.preset \in live.favorites THEN live.favorites \ {live.preset}
                                                      ELSE live.favorites \union {live.preset}
<1>1. live' = [live EXCEPT !.favorites = marks] /\ dirty' = TRUE
  BY DEF ToggleFavorite
<1>2. marks \in SUBSET Presets
  BY DEF Good, Settings
<1> HIDE DEF marks
<1>3. /\ live' \in Settings /\ live'.preset = live.preset /\ live'.intensity = live.intensity
      /\ live'.recent = live.recent /\ live'.adjust = live.adjust
  BY <1>1, <1>2 DEF Good, Settings
<1>4. Good(live')
  BY <1>3 DEF Good, RecentOK
<1>5. shown' = [shown EXCEPT !.favorite = live.preset \in live'.favorites]
  BY DEF ToggleFavorite
<1>6. shown' = ShownOf(live', shown.value)
  BY <1>3, <1>5 DEF Consistent, ShownOf
<1>7. shown.value \in {Value(live', cursor'), live'.intensity}
  BY <1>3 DEF Consistent, Value
<1> QED
  BY <1>1, <1>4, <1>6, <1>7, ShowingIsConsistent

\* The diagnostics drawer is not a part of what is shown.
LEMMA ChangedDiagnostics ==
  ASSUME Good(live), cursor' = cursor, Consistent, shown' = shown, NEW b \in BOOLEAN,
         live' = [live EXCEPT !.diagnostics = b]
  PROVE  Good(live') /\ Consistent'
<1>1. /\ live' \in Settings /\ live'.preset = live.preset /\ live'.intensity = live.intensity
      /\ live'.recent = live.recent /\ live'.adjust = live.adjust
      /\ live'.favorites = live.favorites
  BY DEF Good, Settings
<1>2. Good(live')
  BY <1>1 DEF Good, RecentOK
<1>3. shown' = ShownOf(live', shown.value)
  BY <1>1 DEF Consistent, ShownOf
<1>4. shown.value \in {Value(live', cursor'), live'.intensity}
  BY <1>1 DEF Consistent, Value
<1> QED
  BY <1>2, <1>3, <1>4, ShowingIsConsistent

\* What changes neither settings nor screen is consistent.
LEMMA StyleKept ==
  ASSUME Good(live), Consistent, UNCHANGED <<live, shown, cursor>>
  PROVE  Good(live') /\ Consistent'
<1>1. live' = live /\ shown' = shown /\ cursor' = cursor
  OBVIOUS
<1> QED
  BY <1>1 DEF Consistent

-----------------------------------------------------------------------------
(***************************************************************************)
(* What the user does.                                                     *)
(***************************************************************************)
UserStep ==
  \/ \E d \in {-1, 1} : KeyPreviousNext(d) \/ KeyUpDown(d)
  \/ KeyConfirm \/ KeyScene("Browser") \/ KeyScene("Gallery") \/ KeyBack \/ KeyDiagnostics
  \/ KeyCompare \/ TouchDown \/ TouchHold \/ TouchUp \/ TouchCancel

\* No key or touch leaves a setting out of range, a style shown that is not the
\* selected one, or a change unmarked.
Tidy ==
  /\ session' = session /\ storage' = storage /\ UNCHANGED fileVars
  /\ Good(live') /\ (dirty' = TRUE \/ UNCHANGED <<live, dirty>>)
  /\ Consistent' /\ cursor' \in Cursors /\ scene' \in Scenes
  /\ acts' \in 0..MaxActs /\ sessions' = sessions

\* A key or touch counts as one, and leaves session, store and file alone.
LEMMA UserActsCounted ==
  ASSUME acts \in 0..MaxActs, UserActs
  PROVE  /\ session /\ session' = session /\ storage' = storage /\ UNCHANGED fileVars
         /\ acts' \in 0..MaxActs /\ sessions' = sessions
BY StyleAssumption DEF StyleAssumption, UserActs

\* So is everything the user does.
LEMMA UserIsTidy ==
  ASSUME StyleInv, UserStep
  PROVE  Tidy
<1>1. /\ acts \in 0..MaxActs /\ scene \in Scenes /\ cursor \in Cursors /\ Good(live)
  BY DEF StyleInv, ScreenInv
<1>2. /\ session /\ session' = session /\ storage' = storage /\ UNCHANGED fileVars
      /\ acts' \in 0..MaxActs /\ sessions' = sessions
  <2>1. UserActs
    BY DEF UserStep, KeyPreviousNext, KeyUpDown, KeyConfirm, KeyScene, KeyBack, KeyDiagnostics,
           KeyPressed, KeyCompare, TouchDown, TouchHold, TouchUp, TouchCancel
  <2> QED
    BY <1>1, <2>1, UserActsCounted
<1>3. Consistent
  BY <1>2, Zenon DEF StyleInv, ShownIsLive, Consistent
<1>4. live.preset \in Presets
  BY <1>1 DEF Good, Settings
<1> SUFFICES /\ Good(live') /\ (dirty' = TRUE \/ UNCHANGED <<live, dirty>>)
             /\ Consistent' /\ cursor' \in Cursors /\ scene' \in Scenes
  BY <1>2, Zenon DEF Tidy
<1>5. ASSUME NEW d \in {-1, 1}, KeyPreviousNext(d)
      PROVE  /\ Good(live') /\ (dirty' = TRUE \/ UNCHANGED <<live, dirty>>)
             /\ Consistent' /\ cursor' \in Cursors /\ scene' \in Scenes
  <2>1. scene' = scene /\ cursor' = cursor
    BY <1>5 DEF KeyPreviousNext
  <2>2. \/ UNCHANGED styleVars \/ AdjustParameter(d) \/ SelectStyle((live.preset + d) % PresetCount)
    BY <1>5, Zenon DEF KeyPreviousNext
  <2>3. CASE UNCHANGED styleVars
    BY <1>1, <1>3, <2>1, <2>3, StyleKept DEF styleVars
  <2>4. CASE AdjustParameter(d)
    BY <1>1, <2>1, <2>4, AdjustedParameter
  <2>5. CASE SelectStyle((live.preset + d) % PresetCount)
    BY <1>1, <1>4, <2>1, <2>5, SelectedStyle, Neighbours
  <2> QED
    BY <2>2, <2>3, <2>4, <2>5
<1>6. ASSUME NEW d \in {-1, 1}, KeyUpDown(d)
      PROVE  /\ Good(live') /\ (dirty' = TRUE \/ UNCHANGED <<live, dirty>>)
             /\ Consistent' /\ cursor' \in Cursors /\ scene' \in Scenes
  <2>1. scene' = scene
    BY <1>6 DEF KeyUpDown
  <2>2. \/ UNCHANGED <<cursor, styleVars>>
        \/ /\ cursor' = (cursor + d) % (Adjustments + 1)
           /\ shown' = ShownOf(live, Value(live, cursor'))
           /\ UNCHANGED <<live, dirty>>
        \/ SelectStyle(NextInCategory(live.preset, d)) /\ UNCHANGED cursor
    BY <1>6, Zenon DEF KeyUpDown
  <2>3. CASE UNCHANGED <<cursor, styleVars>>
    BY <1>1, <1>3, <2>1, <2>3, StyleKept DEF styleVars
  <2>4. CASE /\ cursor' = (cursor + d) % (Adjustments + 1)
             /\ shown' = ShownOf(live, Value(live, cursor'))
             /\ UNCHANGED <<live, dirty>>
    <3>1. cursor' \in Cursors
      BY <1>1, <2>4, StyleAssumption DEF StyleAssumption, Cursors
    <3>2. shown' = ShownOf(live', Value(live', cursor'))
      BY <2>4
    <3>3. Consistent'
      BY <3>2, ShowingIsConsistent
    <3> QED
      BY <1>1, <2>1, <2>4, <3>1, <3>3
  <2>5. CASE SelectStyle(NextInCategory(live.preset, d)) /\ UNCHANGED cursor
    BY <1>1, <1>4, <2>1, <2>5, SelectedStyle, Neighbours
  <2> QED
    BY <2>2, <2>3, <2>4, <2>5
<1>7. CASE KeyConfirm
  <2>1. scene' \in Scenes /\ cursor' = cursor
    BY <1>1, <1>7 DEF KeyConfirm, Scenes
  <2>2. UNCHANGED styleVars \/ ToggleFavorite
    BY <1>7, Zenon DEF KeyConfirm
  <2>3. CASE UNCHANGED styleVars
    BY <1>1, <1>3, <2>1, <2>3, StyleKept DEF styleVars
  <2>4. CASE ToggleFavorite
    BY <1>1, <1>3, <2>1, <2>4, ToggledFavorite
  <2> QED
    BY <2>2, <2>3, <2>4
<1>8. CASE KeyScene("Browser") \/ KeyScene("Gallery") \/ KeyBack
  <2>1. scene' \in Scenes /\ cursor' = cursor /\ UNCHANGED styleVars
    BY <1>1, <1>8 DEF KeyScene, KeyBack, Scenes
  <2> QED
    BY <1>1, <1>3, <2>1, StyleKept DEF styleVars
<1>9. CASE KeyDiagnostics
  <2> DEFINE b == scene' = "Diagnostics"
  <2>1. /\ scene' \in Scenes /\ cursor' = cursor /\ shown' = shown /\ dirty' = TRUE
        /\ live' = [live EXCEPT !.diagnostics = b]
    BY <1>1, <1>9 DEF KeyDiagnostics, Scenes
  <2>2. b \in BOOLEAN
    OBVIOUS
  <2> HIDE DEF b
  <2> QED
    BY <1>1, <1>3, <2>1, <2>2, ChangedDiagnostics
<1>10. CASE KeyCompare \/ TouchDown \/ TouchHold \/ TouchCancel
  <2>1. UNCHANGED <<styleVars, scene, cursor>>
    BY <1>10, Zenon DEF KeyCompare, TouchDown, TouchHold, TouchCancel
  <2> QED
    BY <1>1, <1>3, <2>1, StyleKept DEF styleVars
<1>11. CASE TouchUp
  <2>1. scene' = scene /\ cursor' = cursor
    BY <1>11 DEF TouchUp
  <2>2. CASE Tap
    <3>1. /\ shown' = [shown EXCEPT !.favorite = live.preset \in live.favorites]
          /\ UNCHANGED <<live, dirty>>
      BY <2>2 DEF Tap
    <3>2. shown' = ShownOf(live', shown.value)
      BY <1>3, <3>1 DEF Consistent, ShownOf
    <3>3. shown.value \in {Value(live', cursor'), live'.intensity}
      BY <1>3, <2>1, <3>1 DEF Consistent
    <3>4. Consistent'
      BY <3>2, <3>3, ShowingIsConsistent
    <3> QED
      BY <1>1, <2>1, <3>1, <3>4
  <2>3. CASE \E d \in {-1, 1} : Swipe(d)
    BY <1>1, <1>4, <2>1, <2>3, SelectedStyle, Neighbours DEF Swipe
  <2> QED
    BY <1>11, <2>2, <2>3 DEF TouchUp
<1> QED
  BY <1>5, <1>6, <1>7, <1>8, <1>9, <1>10, <1>11 DEF UserStep

-----------------------------------------------------------------------------
(***************************************************************************)
(* The invariant holds at first and is kept.                               *)
(***************************************************************************)
\* Only a held key or a finger compares, or one whose touch was cancelled.
Comparing == compare => keyHeld \/ finger # "off"

\* The flags stay Boolean.
LEMMA FlagsStep ==
  ASSUME FlagsOK, Next
  PROVE  FlagsOK'
<1>1. /\ (~bars) \in BOOLEAN /\ (~barsTimed) \in BOOLEAN /\ (~keyHeld) \in BOOLEAN
      /\ (card # NoFile) \in BOOLEAN /\ (deleting \/ storage = "Ready") \in BOOLEAN
  BY Zenon
<1>2. CASE Start \/ Stop \/ Killed
  BY <1>2, Zenon DEF FlagsOK, Start, Stop, Killed, styleVars, uiVars
<1>3. CASE StorageFails \/ NothingLoaded \/ LoadSettings
  BY <1>1, <1>3, Zenon DEF FlagsOK, StorageFails, NothingLoaded, LoadSettings, StorageAnswers, uiVars
<1>4. CASE SpaceRunsOut \/ DeletionEnds \/ HideBars
  BY <1>4, Zenon DEF FlagsOK, SpaceRunsOut, DeletionEnds, HideBars, styleVars, uiVars, fileVars
<1>5. CASE UserStep
  <2>1. session' = session /\ blind' = blind
    BY <1>5, Zenon DEF UserStep, KeyPreviousNext, KeyUpDown, KeyConfirm, KeyScene, KeyBack,
           KeyDiagnostics, KeyPressed, KeyCompare, TouchDown, TouchHold, TouchUp, TouchCancel,
           UserActs, fileVars
  <2>2. dirty' \in BOOLEAN
    BY <1>5, Zenon DEF FlagsOK, UserStep, KeyPreviousNext, KeyUpDown, KeyConfirm, KeyScene, KeyBack,
           KeyDiagnostics, KeyCompare, TouchDown, TouchHold, TouchUp, TouchCancel, Tap, Swipe,
           SelectStyle, AdjustParameter, ToggleFavorite, styleVars
  <2>3. bars' \in BOOLEAN /\ barsTimed' \in BOOLEAN
    BY <1>1, <1>5, Zenon DEF FlagsOK, UserStep, KeyPreviousNext, KeyUpDown, KeyConfirm, KeyScene,
           KeyBack, KeyDiagnostics, KeyPressed, KeyCompare, TouchDown, TouchHold, TouchUp,
           TouchCancel, Tap, Swipe
  <2>4. compare' \in BOOLEAN /\ keyHeld' \in BOOLEAN
    BY <1>1, <1>5, Zenon DEF FlagsOK, UserStep, KeyPreviousNext, KeyUpDown, KeyConfirm, KeyScene,
           KeyBack, KeyDiagnostics, KeyPressed, KeyCompare, TouchDown, TouchHold, TouchUp, TouchCancel
  <2>5. deleting' \in BOOLEAN
    BY <1>1, <1>5, Zenon DEF FlagsOK, UserStep, KeyPreviousNext, KeyUpDown, KeyConfirm, KeyScene,
           KeyBack, KeyDiagnostics, KeyCompare, TouchDown, TouchHold, TouchUp, TouchCancel
  <2>6. finger' \in {"off", "on", "cancelled"}
    BY <1>5 DEF FlagsOK, UserStep, KeyPreviousNext, KeyUpDown, KeyConfirm, KeyScene, KeyBack,
           KeyDiagnostics, KeyPressed, KeyCompare, TouchDown, TouchHold, TouchUp, TouchCancel
  <2> QED
    BY <2>1, <2>2, <2>3, <2>4, <2>5, <2>6, Zenon DEF FlagsOK
<1> QED
  BY <1>2, <1>3, <1>4, <1>5, Zenon DEF Next, UserStep

\* Within a session only a held key or a finger compares, or a cancelled one.
LEMMA ComparingStep ==
  ASSUME session => Comparing, Next
  PROVE  session' => Comparing'
<1>1. CASE Start
  BY <1>1, Zenon DEF Comparing, Start
<1>2. CASE Stop \/ Killed \/ SpaceRunsOut
  BY <1>2, Zenon DEF Comparing, Stop, Killed, SpaceRunsOut, uiVars
<1>3. CASE StorageFails \/ NothingLoaded \/ LoadSettings
  BY <1>3, Zenon DEF Comparing, StorageFails, NothingLoaded, LoadSettings, StorageAnswers, uiVars
<1>4. CASE DeletionEnds \/ HideBars
  BY <1>4, Zenon DEF Comparing, DeletionEnds, HideBars
<1>5. CASE UserStep
  <2>1. session
    BY <1>5, Zenon DEF UserStep, KeyPreviousNext, KeyUpDown, KeyConfirm, KeyScene, KeyBack,
           KeyDiagnostics, KeyPressed, KeyCompare, TouchDown, TouchHold, TouchUp, TouchCancel, UserActs
  <2> QED
    BY <1>5, <2>1, Zenon DEF Comparing, UserStep, KeyPreviousNext, KeyUpDown, KeyConfirm, KeyScene,
           KeyBack, KeyDiagnostics, KeyPressed, KeyCompare, TouchDown, TouchHold, TouchUp, TouchCancel
<1> QED
  BY <1>1, <1>2, <1>3, <1>4, <1>5, Zenon DEF Next, UserStep

\* An unmarked change is what FileInv would not survive: what is not dirty is
\* still what the file holds.
LEMMA FileKept ==
  ASSUME FileInv, UNCHANGED fileVars, session' = session,
         storage' = storage \/ storage' = "Unusable",
         dirty' = TRUE \/ UNCHANGED <<live, dirty>>
  PROVE  FileInv'
<1>1. card' = card /\ left' = left /\ blind' = blind
  BY DEF fileVars
<1> QED
  BY <1>1 DEF FileInv

\* The file stays an image of good settings, and those of the session are good.
LEMMA FileStep ==
  ASSUME StyleInv, Next
  PROVE  Good(live') /\ FileInv'
<1>1. Good(live) /\ FileInv
  BY DEF StyleInv
<1>2. Good(live) => live = Read(Written(live))
  BY ReadWritten
<1>3. CASE Start
  <2>1. /\ live' = Defaults /\ card' = card /\ left' = left
        /\ session' = TRUE /\ storage' = "Initializing"
    BY <1>3 DEF Start
  <2>2. Good(live')
    BY <2>1, DefaultsGood
  <2> QED
    BY <1>1, <2>1, <2>2 DEF FileInv
<1>4. CASE Stop
  <2>1. /\ session' = FALSE /\ live' = live
        /\ \/ card' = Written(live) /\ left' = live
           \/ card' = card /\ left' = NoFile
           \/ /\ storage = "Ready" /\ ~dirty /\ ~blind /\ card # NoFile /\ session
              /\ card' = card /\ left' = live
    BY <1>4 DEF Stop, styleVars
  <2> QED
    BY <1>1, <1>2, <2>1 DEF FileInv
<1>5. CASE Killed
  <2>1. /\ session' = FALSE /\ live' = live /\ left' = NoFile
        /\ card' = Written(live) \/ card' = card
    BY <1>5 DEF Killed, styleVars
  <2> QED
    BY <1>1, <1>2, <2>1 DEF FileInv
<1>6. CASE StorageFails
  <2>1. /\ session' = session /\ session /\ storage' = "Unusable" /\ live' = live
        /\ card' = card /\ left' = left
    BY <1>6 DEF StorageFails, StorageAnswers
  <2> QED
    BY <1>1, <2>1 DEF FileInv
<1>7. CASE NothingLoaded
  <2>1. /\ session' = session /\ session /\ live' = live /\ card' = card /\ left' = left
        /\ blind' = (card # NoFile)
    BY <1>7 DEF NothingLoaded, StorageAnswers
  <2> QED
    BY <1>1, <2>1 DEF FileInv
<1>8. CASE LoadSettings
  <2>1. /\ session' = session /\ session /\ card # NoFile /\ live' = Read(card)
        /\ card' = card /\ left' = left
    BY <1>8 DEF LoadSettings, StorageAnswers
  <2>2. Good(Read(card)) /\ card = Written(Read(card))
    BY <1>1, <2>1 DEF FileInv
  <2> QED
    BY <1>1, <2>1, <2>2 DEF FileInv
<1>9. CASE SpaceRunsOut \/ DeletionEnds \/ HideBars
  <2>1. /\ UNCHANGED fileVars /\ session' = session /\ UNCHANGED <<live, dirty>>
        /\ storage' = storage \/ storage' = "Unusable"
    BY <1>9, Zenon DEF SpaceRunsOut, DeletionEnds, HideBars, styleVars
  <2>2. live' = live
    BY <2>1
  <2> QED
    BY <1>1, <2>1, <2>2, FileKept
<1>10. CASE UserStep
  <2>1. Tidy
    BY <1>10, UserIsTidy
  <2> QED
    BY <1>1, <2>1, FileKept, Zenon DEF Tidy
<1> QED
  BY <1>3, <1>4, <1>5, <1>6, <1>7, <1>8, <1>9, <1>10, Zenon DEF Next, UserStep

\* The screen stays consistent, and its types hold.
LEMMA ScreenStep ==
  ASSUME StyleInv, Next
  PROVE  ScreenInv' /\ (session' => Consistent')
<1>1. ScreenInv /\ Good(live) /\ cursor \in Cursors /\ (session => Consistent)
  BY Zenon DEF StyleInv, ScreenInv, ShownIsLive, Consistent
<1>2. Good(live') /\ FileInv
  BY FileStep DEF StyleInv
<1>3. CASE Start
  <2>1. /\ storage' = "Initializing" /\ scene' = "Camera" /\ cursor' = 0 /\ acts' = acts
        /\ sessions < MaxSessions /\ sessions' = sessions + 1
        /\ live' = Defaults /\ shown' = ShownOf(live', Highest[0])
    BY <1>3 DEF Start
  <2>2. live'.intensity = Highest[0]
    BY <2>1 DEF Defaults
  <2>3. Consistent'
    BY <2>1, <2>2, ShowingIsConsistent
  <2>4. cursor' \in Cursors
    BY <2>1, StyleAssumption DEF StyleAssumption, Cursors
  <2>5. shown'.preset \in Presets /\ shown'.value \in Int /\ shown'.favorite \in BOOLEAN
    BY <1>2, <2>3, <2>4, ConsistentTypes DEF Consistent
  <2>6. sessions' \in 0..MaxSessions
    BY <1>1, <2>1, StyleAssumption DEF ScreenInv, StyleAssumption
  <2> QED
    BY <1>1, <2>1, <2>3, <2>4, <2>5, <2>6 DEF ScreenInv, Scenes
<1>4. CASE Stop \/ Killed
  <2>1. ~session' /\ UNCHANGED <<storage, shown, scene, cursor, acts, sessions>>
    BY <1>4, Zenon DEF Stop, Killed, styleVars, uiVars
  <2> QED
    BY <1>1, <2>1 DEF ScreenInv
<1>5. CASE StorageFails \/ NothingLoaded \/ LoadSettings
  <2>1. /\ storage' \in {"Initializing", "Ready", "Unusable"}
        /\ shown' = ShownOf(live', live'.intensity)
        /\ UNCHANGED <<scene, cursor, acts, sessions>>
    BY <1>5 DEF StorageFails, NothingLoaded, LoadSettings, StorageAnswers, uiVars
  <2>2. Consistent'
    BY <2>1, ShowingIsConsistent
  <2>3. shown'.preset \in Presets /\ shown'.value \in Int /\ shown'.favorite \in BOOLEAN
    BY <1>1, <1>2, <2>1, <2>2, ConsistentTypes DEF Consistent
  <2> QED
    BY <1>1, <2>1, <2>2, <2>3 DEF ScreenInv
<1>6. CASE SpaceRunsOut \/ DeletionEnds \/ HideBars
  <2>1. /\ session' = session /\ session /\ UNCHANGED <<live, shown, cursor, acts, sessions>>
        /\ storage' = storage \/ storage' = "Unusable"
        /\ scene' = scene \/ scene' = "Gallery"
    BY <1>6, Zenon DEF SpaceRunsOut, DeletionEnds, HideBars, styleVars, uiVars
  <2>2. Consistent'
    BY <1>1, <2>1, StyleKept
  <2> QED
    BY <1>1, <2>1, <2>2 DEF ScreenInv, Scenes
<1>7. CASE UserStep
  <2>1. Tidy
    BY <1>7, UserIsTidy
  <2>2. shown'.preset \in Presets /\ shown'.value \in Int /\ shown'.favorite \in BOOLEAN
    BY <2>1, ConsistentTypes DEF Tidy, Consistent
  <2> QED
    BY <1>1, <2>1, <2>2, Zenon DEF ScreenInv, Tidy
<1> QED
  BY <1>3, <1>4, <1>5, <1>6, <1>7, Zenon DEF Next, UserStep

\* The inductive invariant.
THEOREM StyleInvariant == Spec => []StyleInv
<1>1. Init => StyleInv
  <2> SUFFICES ASSUME Init PROVE StyleInv
    OBVIOUS
  <2>1. /\ live = Defaults /\ shown = ShownOf(live, Highest[0]) /\ live.intensity = Highest[0]
        /\ cursor = 0 /\ ~session
    BY DEF Init, Defaults
  <2>2. Good(live) /\ cursor \in Cursors
    BY <2>1, DefaultsGood, StyleAssumption DEF StyleAssumption, Cursors
  <2>3. Consistent
    <3>1. shown.value = Highest[0]
      BY <2>1, ShownProperties
    <3> QED
      BY <2>1, <3>1 DEF Consistent
  <2>4. shown.preset \in Presets /\ shown.value \in Int /\ shown.favorite \in BOOLEAN
    BY <2>2, <2>3, ConsistentTypes DEF Consistent
  <2>5. FlagsOK
    BY Zenon DEF Init, FlagsOK
  <2>6. ScreenInv
    BY <2>2, <2>4, StyleAssumption DEF StyleAssumption, Init, ScreenInv, Scenes
  <2>7. FileInv
    BY DEF Init, FileInv
  <2> QED
    BY <2>1, <2>2, <2>5, <2>6, <2>7, Zenon DEF StyleInv, ShownIsLive
<1>2. StyleInv /\ [Next]_vars => StyleInv'
  <2> SUFFICES ASSUME StyleInv, [Next]_vars PROVE StyleInv'
    OBVIOUS
  <2>1. CASE Next
    <3>1. FlagsOK' /\ FileInv' /\ Good(live)' /\ ScreenInv' /\ (session' => Consistent')
      BY <2>1, FlagsStep, FileStep, ScreenStep DEF StyleInv
    <3>2. session => Comparing
      BY Zenon DEF StyleInv, ShownIsLive, Comparing
    <3>3. session' => Comparing'
      BY <2>1, <3>2, ComparingStep
    <3> QED
      BY <3>1, <3>3, Zenon DEF StyleInv, ShownIsLive, Consistent, Comparing
  <2>2. CASE UNCHANGED vars
    <3>1. UNCHANGED <<session, storage, live, dirty, shown, scene, cursor, bars, barsTimed, compare,
                      deleting, keyHeld, finger, card, left, blind, acts, sessions>>
      BY <2>2 DEF vars, styleVars, uiVars, fileVars
    <3> QED
      BY <3>1 DEF StyleInv, FlagsOK, ScreenInv, FileInv, ShownIsLive
  <2> QED
    BY <2>1, <2>2
<1> QED
  BY <1>1, <1>2, PTL DEF Spec

(***************************************************************************)
(* What the runs check.                                                    *)
(***************************************************************************)
\* The invariant gives types and ranges.
LEMMA TypesFollow ==
  ASSUME StyleInv
  PROVE  TypeOK
<1>1. SettingsOK(live)
  BY GoodIsOK DEF StyleInv
<1>2. (left # NoFile => SettingsOK(left)) /\ (card # NoFile => SettingsOK(Read(card)))
  BY GoodIsOK DEF StyleInv, FileInv
<1> QED
  BY <1>1, <1>2, Zenon DEF StyleInv, ScreenInv, TypeOK

\* recordRecentLocked shifts in place and trusts that a style stands in the
\* list once: through keys, swipes, loads and sessions it does, the list stays
\* within its array and begins with the style in use, and every value that is
\* set or read stays in its range.
THEOREM RecentStylesAreHistory == Spec => []RecentIsHistory
<1>1. StyleInv => RecentIsHistory
  <2> SUFFICES ASSUME StyleInv PROVE RecentIsHistory
    OBVIOUS
  <2>1. RecentOK(live) /\ (card # NoFile => RecentOK(Read(card)))
    BY DEF StyleInv, FileInv, Good
  <2> QED
    BY <2>1, TypesFollow DEF RecentIsHistory
<1> QED
  BY <1>1, StyleInvariant, PTL

\* Each of the many places that assign filterMetrics_ leaves the selected style,
\* its own favorite mark and a value that is one of its own; nothing compares
\* without a held key, a finger or one whose touch Android cancelled.
THEOREM ScreenShowsSettings == Spec => []ShownIsLive
<1>1. StyleInv => ShownIsLive
  BY DEF StyleInv
<1> QED
  BY <1>1, StyleInvariant, PTL

\* What stop() stored, or found stored already, is what loadSettings brings
\* back: no change went unmarked, and no value is lost in the file.
THEOREM StoredIsRead == Spec => []StoredIsWhatWasLeft
<1>1. StyleInv => StoredIsWhatWasLeft
  <2> SUFFICES ASSUME StyleInv, ~session, left # NoFile PROVE Read(card) = left
    BY DEF StoredIsWhatWasLeft
  <2>1. Good(left) /\ card = Written(left)
    BY DEF StyleInv, FileInv
  <2> QED
    BY <2>1, ReadWritten
<1> QED
  BY <1>1, StyleInvariant, PTL

=============================================================================
