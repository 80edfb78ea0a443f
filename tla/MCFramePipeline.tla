-------------------------- MODULE MCFramePipeline --------------------------
(* Two looks are enough to mix histories and to mislabel a photo; three     *)
(* offered frames allow a processed one, one in work and one dropped.      *)
EXTENDS FramePipeline
=============================================================================
