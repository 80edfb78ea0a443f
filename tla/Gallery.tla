------------------------------ MODULE Gallery ------------------------------
(***************************************************************************)
(* What the photo store promises whoever opens the card, whatever happens  *)
(* to the program: a bounded gallery, oldest photo first, that changes by  *)
(* one whole photo at a time.  A photo that left it never comes back.      *)
(***************************************************************************)
EXTENDS Naturals, Sequences

CONSTANTS Photos, MaxEntries

VARIABLES
  gallery,  \* the photos that would be found
  newest    \* the last photo that was ever added

vars == <<gallery, newest>>

Init == gallery = <<>> /\ newest = 0

\* A full gallery gives up its oldest photo.
Room == IF Len(gallery) = MaxEntries THEN Tail(gallery) ELSE gallery

Add ==
  \E photo \in Photos :
    /\ photo > newest
    /\ gallery' = Append(Room, photo)
    /\ newest' = photo

Remove ==
  \E i \in 1..Len(gallery) :
    /\ gallery' = SubSeq(gallery, 1, i - 1) \o SubSeq(gallery, i + 1, Len(gallery))
    /\ UNCHANGED newest

Next == Add \/ Remove

Spec == Init /\ [][Next]_vars

============================================================================
