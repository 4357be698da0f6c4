--------------------------- MODULE MCFramePipeline ---------------------------
(* TLC instances of FramePipeline.                                         *)
EXTENDS FramePipeline, TLC

Symmetry == Permutations(Workers)
=============================================================================
