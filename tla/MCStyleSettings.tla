-------------------------- MODULE MCStyleSettings --------------------------
(* Four styles, the third of another category than its neighbours, a recent *)
(* list of three, and one adjustment beside intensity with one step to each *)
(* end: the list overflows, a style moves up from its middle and its end,   *)
(* a category comes twice (as Film does) and every value meets its bounds.  *)
EXTENDS StyleSettings
MCIds == [p \in Presets |-> <<"a", "b", "c", "d">>[p + 1]]
MCCategory == [p \in Presets |-> IF p = 2 THEN "y" ELSE "x"]
MCLowest == [c \in Cursors |-> IF c = 0 THEN 0 ELSE -2]
MCHighest == [c \in Cursors |-> IF c = 0 THEN 5 ELSE 2]
MCStep == [c \in Cursors |-> IF c = 0 THEN 5 ELSE 2]
=============================================================================
