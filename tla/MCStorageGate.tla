--------------------------- MODULE MCStorageGate ---------------------------
(* Two attempts let a failure be retried and be final; in the second        *)
(* session the worker of the first can still be at the files.               *)
EXTENDS StorageGate
=============================================================================
