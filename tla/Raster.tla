------------------------------ MODULE Raster -------------------------------
(***************************************************************************)
(* Where pixels are read and written: the copy of the finished picture     *)
(* into the locked buffer of the window (blitRgb565CenterCrop, used by     *)
(* blitLatest, and the older blitRgb565), row by row, and the sample that  *)
(* processFrame takes for a pixel under jitter, tear and pixelation.       *)
(* The conversion of colours to the buffer's format is left out.           *)
(***************************************************************************)
EXTENDS Integers

CONSTANTS
  Geometries,  \* [sw, sh, dw, dh, stride, format, crop] of a copy
  Formats,     \* that the copies support
  Stale        \* what a buffer holds before it is written

Sizes == Nat \ {0}
ASSUME RasterAssumption ==
  Geometries \subseteq [sw : Sizes, sh : Sizes, dw : Sizes, dh : Sizes, stride : Sizes,
                        format : STRING, crop : BOOLEAN]

VARIABLES
  g,        \* the copy under way
  row,      \* rows copied so far
  pixels   \* the buffer: at each index the source index whose colour it has, or Stale
copyVars == <<g, row, pixels>>

-----------------------------------------------------------------------------
Accepts(h) == h.stride >= h.dw /\ h.format \in Formats

AtLeastOne(n) == IF n < 1 THEN 1 ELSE n
Whole(h) == [left |-> 0, top |-> 0, width |-> h.sw, height |-> h.sh]
\* The part of the source that has the shape of the destination.
CenterCrop_unhalved(h) ==   \* mutant: the margin is put on one side
  LET height == AtLeastOne((h.sw * h.dh) \div h.dw)
  IN IF h.dw * h.sh > h.dh * h.sw
     THEN [Whole(h) EXCEPT !.height = height, !.top = (h.sh - height) + 1]
     ELSE Whole(h)
CenterCrop(h) ==
  CASE h.dw * h.sh > h.dh * h.sw ->
         LET height == AtLeastOne((h.sw * h.dh) \div h.dw)
         IN [Whole(h) EXCEPT !.height = height, !.top = (h.sh - height) \div 2]
    [] h.dw * h.sh < h.dh * h.sw ->
         LET width == AtLeastOne((h.sh * h.dw) \div h.dh)
         IN [Whole(h) EXCEPT !.width = width, !.left = (h.sw - width) \div 2]
    [] OTHER -> Whole(h)
Crop(h) == IF h.crop THEN CenterCrop(h) ELSE Whole(h)

Scaled(i, from, to) == (i * from) \div to
SourceX(h, x) == Crop(h).left + Scaled(x, Crop(h).width, h.dw)
SourceY(h, y) == Crop(h).top + Scaled(y, Crop(h).height, h.dh)
Source(h, x, y) == SourceY(h, y) * h.sw + SourceX(h, x)

RowStart_packed(h, y) == y * h.dw   \* mutant: rows without padding
RowStart(h, y) == y * h.stride
Buffer(h) == 0..(h.stride * h.dh - 1)
Empty(h) == [i \in Buffer(h) |-> Stale]

(* processFrame: the column (or row) that a pixel takes its colour from. *)
Held(i, n) == IF i < 0 THEN 0 ELSE IF i >= n THEN n - 1 ELSE i
Sampled(i, shift, n, pixel) ==
  LET held == Held(i + shift, n) IN IF pixel > 1 THEN held - (held % pixel) ELSE held

-----------------------------------------------------------------------------
CopyInit == g \in Geometries /\ row = 0 /\ pixels = Empty(g)

CopyRow ==
  /\ Accepts(g) /\ row < g.dh
  /\ row' = row + 1
  /\ pixels' = [i \in Buffer(g) |->
                   IF i \in RowStart(g, row)..(RowStart(g, row) + g.dw - 1)
                   THEN Source(g, i - RowStart(g, row), row) ELSE pixels[i]]
  /\ UNCHANGED g

\* The next post gets a buffer again, of the same window.
NextPost ==
  /\ ~Accepts(g) \/ row = g.dh
  /\ row' = 0 /\ pixels' = Empty(g)
  /\ UNCHANGED g

CopyNext == CopyRow \/ NextPost
CopySpec == CopyInit /\ [][CopyNext]_copyVars

-----------------------------------------------------------------------------
(***************************************************************************)
(* What the code keeps                                                     *)
(***************************************************************************)
\* Nothing outside the source is read, for any sizes: cropping rounds down
\* and is held at one pixel, centring halves what is left.
CopyTypeOK ==
  /\ g \in Geometries /\ row \in 0..g.dh
  /\ pixels \in [Buffer(g) -> (0..(g.sw * g.sh - 1)) \union {Stale}]

\* Rows begin at the stride: the picture is whole down to the row reached, and
\* padding and the rows below are untouched.
RowsAreWhole ==
  \A i \in Buffer(g) :
    LET x == i % g.stride
        y == i \div g.stride
    IN pixels[i] = IF x < g.dw /\ y < row THEN Source(g, x, y) ELSE Stale

\* README.md: "center-crop scaled". Each pixel of a cropped row shows a source
\* pixel within two of the one that a centred, undistorted picture filling the
\* buffer has there, although crop, margin and sample are each rounded down.
Near(c, ideal, unit) == 2 * c * unit \in (ideal - 4 * unit)..(ideal + 4 * unit)
IsCentered ==
  g.crop /\ row > 0 =>
    \A x \in 0..(g.dw - 1) :
      LET s == pixels[RowStart(g, row - 1) + x]
          y == row - 1
          wide == g.dw * g.sh >= g.dh * g.sw   \* the width decides the scale
          scale == IF wide THEN g.sw ELSE g.sh
          unit == IF wide THEN g.dw ELSE g.dh
      IN /\ Near(s % g.sw, g.sw * unit + (2 * x - g.dw) * scale, unit)
         /\ Near(s \div g.sw, g.sh * unit + (2 * y - g.dh) * scale, unit)
=============================================================================
