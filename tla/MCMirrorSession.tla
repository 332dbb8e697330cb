-------------------------- MODULE MCMirrorSession --------------------------
(* MirrorSession on a few coroutines, for TLC.                              *)
EXTENDS MirrorSession, TLC

CoroutineSymmetry == Permutations(Starts) \cup Permutations(Stops) \cup Permutations(Reports)
=============================================================================
