--------------------------- MODULE MCVideoPipeline ---------------------------
(* VideoPipeline with enough packets for two sessions, two configurations   *)
(* and frames that wait behind each other.                                  *)
EXTENDS VideoPipeline
=============================================================================
