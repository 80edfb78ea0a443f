----------------------------- MODULE MCDisplay -----------------------------
(***************************************************************************)
(* Four buffers: three decode failures in a row before or after a first    *)
(* filtered frame, a leaked buffer or a foreign one among others.  Two     *)
(* native workers: the second starts while a buffer of the first is held.  *)
(***************************************************************************)
EXTENDS Display
=============================================================================
