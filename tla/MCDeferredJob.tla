---------------------------- MODULE MCDeferredJob ----------------------------
(* DeferredJob with interchangeable workers, for safety runs. *)
EXTENDS DeferredJob, TLC

Interchangeable == Permutations(Workers)
=============================================================================
