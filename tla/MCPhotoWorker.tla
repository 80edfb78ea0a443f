--------------------------- MODULE MCPhotoWorker ---------------------------
(***************************************************************************)
(* One stored photo in a store of two: the first save fills it, the second *)
(* evicts, and the gallery has a next photo to browse to.  Two saves make  *)
(* one overlap the posting of the other.                                   *)
(***************************************************************************)
EXTENDS PhotoWorker
=============================================================================
