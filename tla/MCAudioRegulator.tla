-------------------------- MODULE MCAudioRegulator --------------------------
(* AudioRegulator with a ring of four samples, frames that are small, that  *)
(* fill it and that exceed it, and requests of one and of two chunks.       *)
EXTENDS AudioRegulator
=============================================================================
