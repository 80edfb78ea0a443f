---------------------------- MODULE MCPhotoStore ----------------------------
(* Four saves and an edit in a store of two: each save past the second      *)
(* evicts, and a rebuild has more complete sets than it keeps.  Photos 2    *)
(* and 3 carry the same time.                                               *)
EXTENDS PhotoStore
MCMTime == [p \in 1..MaxPhotos |-> IF p = 3 THEN 2 ELSE p]
=============================================================================
