---------------------------- MODULE MCPayPipeline ---------------------------
(* Two batches and three events for module PayPipeline; no symmetry, since   *)
(* the run also checks liveness.                                            *)
EXTENDS PayPipeline
=============================================================================
