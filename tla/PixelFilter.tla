---------------------------- MODULE PixelFilter ----------------------------
(***************************************************************************)
(* processFrame of retrolens_core.cpp for one pixel of the picture, with   *)
(* the arithmetic of the code: every pass, its truncating divisions, and   *)
(* the feedback of each frame into the next through previous_.             *)
(*                                                                         *)
(* A look is a preset of the catalogue.  A subject is the colour sampled   *)
(* for a pixel and the brightness gradient around it; where the sample is  *)
(* read from is Raster's.  The random number of the grain is any value of  *)
(* Grains (nextRandom is a function of the frame's time, which no property *)
(* tells apart).                                                           *)
(***************************************************************************)
EXTENDS Integers

CONSTANTS
  Looks,        \* presets of the catalogue
  Subjects,     \* for each look [in |-> <<r, g, b>>, gradient |-> sum of the two luma differences]
  Places,       \* for each look <<x, y>>
  Intensities,
  Adjustments,  \* [contrast, grain, motion] of the quick controls
  Grains        \* (int)(nextRandom() & 255) - 128

Channels == 1..3
Colour == [Channels -> 0..255]

\* The ranges that kPresets, the quick controls and the sensor keep to.
ASSUME FilterAssumption ==
  /\ Looks \subseteq [id : STRING, category : STRING, flags : SUBSET STRING,
                      tint : [Channels -> Nat], saturation : Int, contrast : -100..100,
                      posterize : 2..15, noise : 0..100, pixelSize : Nat, temporal : 0..48]
  /\ Subjects \in [Looks -> SUBSET [in : Colour, gradient : Nat]]
  /\ Places \in [Looks -> SUBSET (Nat \X Nat)]
  /\ Intensities \subseteq 0..100 /\ Grains \subseteq -128..127
  /\ Adjustments \subseteq [contrast : -40..40, grain : -20..20, motion : -30..30]

NoHistory == <<>>

VARIABLES
  look, adjust, intensity,  \* of the frame that was filtered last
  at, grain,                \* the place of the pixel and its grain, the same in every frame
  subject,                  \* what it was filtered from
  filtered                  \* filtered_, the previous_ of the next frame
filterVars == <<look, adjust, intensity, at, grain, subject, filtered>>

-----------------------------------------------------------------------------
(* Arithmetic of C: / truncates, >> 8 rounds down. *)
Quot(a, b) == IF a >= 0 THEN a \div b ELSE -((-a) \div b)
Clamp(v, low, high) == IF v < low THEN low ELSE IF v > high THEN high ELSE v
Clamp8(v) == Clamp(v, 0, 255)
Abs(v) == IF v < 0 THEN -v ELSE v
Grey(v) == <<v, v, v>>
Each(c, Op(_)) == [i \in Channels |-> Op(c[i])]
luma(c) == (c[1] * 77 + c[2] * 150 + c[3] * 29) \div 256

\* adjustedPresetLocked
Adjusted_wideMotion(p, a) ==   \* mutant: the motion of the quick control counts double
  [p EXCEPT !.contrast = Clamp(@ + a.contrast, -100, 100),
            !.noise = Clamp(@ + a.grain, 0, 100),
            !.temporal = Clamp(@ + 2 * a.motion, 0, 100)]
Adjusted(p, a) ==
  [p EXCEPT !.contrast = Clamp(@ + a.contrast, -100, 100),
            !.noise = Clamp(@ + a.grain, 0, 100),
            !.temporal = Clamp(@ + a.motion, 0, 100)]

(* The passes, in their order. *)
Graded(c, p, amount) ==
  LET grey == luma(c)
      saturated(v) == grey + Quot((v - grey) * (100 + Quot(p.saturation * amount, 100)), 100)
      tinted(v, i) == Quot(v * (100 + Quot((p.tint[i] - 100) * amount, 100)), 100)
      contrasted(v) == 128 + Quot((v - 128) * (100 + Quot(p.contrast * amount, 100)), 100)
  IN [i \in Channels |-> contrasted(tinted(saturated(c[i]), i))]

Mono(c, p) == [i \in Channels |-> Quot(luma(c) * p.tint[i], 100)]
Thermal(grey) == <<Clamp8((grey - 96) * 3), Clamp8(255 - Abs(grey - 128) * 2),
                   Clamp8((128 - grey) * 2)>>
Outlined(c, flags, gradient) ==
  LET edge == Clamp8(gradient * 2)
  IN CASE {"EDGE", "INVERT"} \subseteq flags -> Grey(255 - edge)
       [] "EDGE" \in flags /\ "INVERT" \notin flags -> Each(c, LAMBDA v : Clamp8(v - edge))
       [] "INVERT" \in flags /\ "EDGE" \notin flags -> Each(c, LAMBDA v : 255 - v)
       [] OTHER -> c
Black == Grey(0)
Magenta == <<255, 45, 220>>
Cyan == <<30, 235, 245>>
White == Grey(255)
Cga(c, grey) ==
  IF grey < 55 THEN Black
  ELSE CASE c[1] > c[3] /\ c[2] <= c[1] -> Magenta
         [] c[1] <= c[3] /\ c[2] > c[1] -> Cyan
         [] OTHER -> White

Remapped(c, p, s) ==
  LET grey == luma(s.in)
      mono == IF "MONO" \in p.flags THEN Mono(c, p) ELSE c
      thermal == IF "THERMAL" \in p.flags THEN Thermal(grey) ELSE mono
      outlined == Outlined(thermal, p.flags, s.gradient)
  IN IF "CGA" \in p.flags THEN Cga(outlined, grey) ELSE outlined

bayer == <<0, 8, 2, 10, 12, 4, 14, 6, 3, 11, 1, 9, 15, 7, 13, 5>>
Cell(p, least) ==
  LET pixel == IF "PIXELATE" \in p.flags THEN Clamp(p.pixelSize, 2, 255) ELSE 1
  IN Clamp(pixel, least, 255)
Dithered(c, xy) == Each(c, LAMBDA v : v + (bayer[(xy[2] % 4) * 4 + (xy[1] % 4) + 1] - 8) * 4)
Halftone(c, grey, cell, xy) ==
  LET off(v) == (v % cell) * 2 - cell
      radius == Quot((255 - grey) * cell, 255)
  IN IF off(xy[1]) * off(xy[1]) + off(xy[2]) * off(xy[2]) < radius * radius THEN Grey(18)
     ELSE <<Clamp8(c[1] + 70), Clamp8(c[2] + 68), Clamp8(c[3] + 60)>>
Ascii(c, grey, cell, xy) ==
  IF xy[1] % cell = (grey \div 32) % cell \/ xy[2] % cell = cell - 1 THEN c
  ELSE Each(c, LAMBDA v : Quot(v * 28, 100))
Textured(c, p, s, xy) ==
  LET grey == luma(s.in)
      dithered == IF "DITHER" \in p.flags THEN Dithered(c, xy) ELSE c
      dotted == IF "HALFTONE" \in p.flags THEN Halftone(dithered, grey, Cell(p, 3), xy) ELSE dithered
  IN IF "ASCII" \in p.flags THEN Ascii(dotted, grey, Cell(p, 4), xy) ELSE dotted
Posterized(c, p) ==
  IF p.posterize \in 2..15
  THEN Each(c, LAMBDA v : (((Clamp8(v) * (p.posterize - 1)) \div 255) * 255) \div (p.posterize - 1))
  ELSE c
Toned_texturedLast(c, p, s, xy) == Textured(Posterized(c, p), p, s, xy)   \* mutant: swapped
Toned(c, p, s, xy) == Posterized(Textured(c, p, s, xy), p)

\* The picture before the previous frame, bloom and grain.
Developed(p, amount, s, xy) == Toned(Remapped(Graded(s.in, p, amount), p, s), p, s, xy)

Share(p, amount) == IF "TEMPORAL" \in p.flags THEN Quot(p.temporal * amount, 100) ELSE 0
Lift(p, amount, s) ==
  IF "BLOOM" \in p.flags /\ luma(s.in) > 185 THEN Quot((luma(s.in) - 185) * amount, 250) ELSE 0
Noise(p, amount, n) == Quot(n * p.noise * amount, 12800)

processFrame(p, amount, s, xy, previous, n) ==
  LET mix == IF previous = NoHistory THEN 0 ELSE Share(p, amount)
      developed == Developed(p, amount, s, xy)
      mixed(i) == IF mix = 0 THEN developed[i]
                  ELSE Quot(developed[i] * (100 - mix) + previous[i] * mix, 100)
  IN [i \in Channels |-> Clamp8(mixed(i) + Lift(p, amount, s) + Noise(p, amount, n))]

(* What requestPhoto adds to the copy that is saved. *)
kFrameWidth == 80
kFrameHeight == 60
Shade(xy) ==
  LET dx == xy[1] * 2 - kFrameWidth
      dy == xy[2] * 2 - kFrameHeight
  IN Clamp(110 - Quot((dx * dx + dy * dy) * 35,
                      kFrameWidth * kFrameWidth + kFrameHeight * kFrameHeight), 65, 100)
applyCaptureTexture(c, p, xy) ==
  LET scanned == IF "SCANLINES" \in p.flags /\ xy[2] % 2 = 1
                 THEN Each(c, LAMBDA v : Quot(v * 78, 100)) ELSE c
      masked == IF "MASK" \in p.flags
                THEN [i \in Channels |-> IF xy[1] % 3 = i - 1 THEN scanned[i]
                                                              ELSE Quot(scanned[i] * 84, 100)]
                ELSE scanned
      shaded == IF "VIGNETTE" \in p.flags THEN Each(masked, LAMBDA v : Quot(v * Shade(xy), 100))
                ELSE masked
  IN Each(shaded, Clamp8)

-----------------------------------------------------------------------------
Process(s, previous) ==
  /\ subject' = s
  /\ filtered' = processFrame(Adjusted(look', adjust'), intensity', s, at', previous, grain')

FilterInit ==
  /\ look \in Looks /\ intensity \in Intensities /\ at \in Places[look] /\ adjust \in Adjustments
  /\ subject \in Subjects[look] /\ grain \in Grains
  /\ filtered = processFrame(Adjusted(look, adjust), intensity, subject, at, NoHistory, grain)

\* run(): a frame of the camera, mixed with the one before.
CameraFrame ==
  /\ UNCHANGED <<look, adjust, intensity, at, grain>>
  /\ \E s \in Subjects[look] : Process(s, filtered)

\* run(): the same frame once more after the quick controls changed, from no history.
Restyle ==
  /\ UNCHANGED <<look, intensity, at, grain>>
  /\ adjust' \in Adjustments \ {adjust} /\ Process(subject, NoHistory)

FilterNext == CameraFrame \/ Restyle
FilterSpec == FilterInit /\ [][FilterNext]_filterVars

-----------------------------------------------------------------------------
(***************************************************************************)
(* What the code keeps                                                     *)
(***************************************************************************)
\* A channel fits its byte after every combination of passes, adjustments and
\* feedback: several passes leave the range and only the last step is clamped.
FilterTypeOK ==
  /\ look \in Looks /\ intensity \in Intensities /\ at \in Places[look] /\ adjust \in Adjustments
  /\ grain \in Grains /\ subject \in Subjects[look] /\ filtered \in Colour

Preset == Adjusted(look, adjust)
Echo == 5   \* frames: 100 / (100 - 78), the longest memory any preset can be adjusted to

\* A still subject: trails decay.  What is further from the picture than the
\* grain, the bloom and one step of rounding can hold it there comes nearer
\* with every frame, and no frame swings past the picture.  (previous_ is the
\* filtered frame, so that every earlier frame is in it; the truncating
\* division must not freeze or amplify it at any Motion a user can choose.)
TrailDecays(before, after, s) ==
  LET developed == Developed(Preset, intensity, s, at)
      lift == Lift(Preset, intensity, s)
      most == Noise(Preset, intensity, 128)
  IN \A i \in Channels :
       /\ before[i] - developed[i] > Echo * (lift + most + 1) => after[i] < before[i]
       /\ developed[i] - before[i] > Echo * (most + 1) => after[i] > before[i] \/ after[i] = 255
       /\ before[i] >= developed[i] => after[i] >= Clamp8(developed[i] + lift - most)
       /\ before[i] <= developed[i] => after[i] <= Clamp8(developed[i] + lift + most)

\* A preset of n tones per channel shows n tones, whatever dither, dots,
\* characters and tint do before, unless grain, bloom or the previous frame
\* is part of the look ("One-Bit Desktop" is one bit).
TonesAreCounted ==
  Preset.flags \intersect {"TEMPORAL", "BLOOM"} = {} /\ Preset.noise = 0 =>
    \A i \in Channels : \E k \in 0..(Preset.posterize - 1) :
      filtered[i] = (k * 255) \div (Preset.posterize - 1)

\* The photo is the frame that was shown, printed on its material: at every
\* corner, edge and middle of the picture the texture adds nothing and takes at
\* most half of a channel, but for what its three roundings take (three of 255).
PhotoIsShadedFrame ==
  \A x \in {0, 1, 2, 40, 79}, y \in {0, 1, 30, 59}, i \in Channels :
    LET saved == applyCaptureTexture(filtered, Preset, <<x, y>>)[i]
    IN saved <= filtered[i] /\ 2 * (saved + 3) >= filtered[i]
=============================================================================
