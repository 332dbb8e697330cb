----------------------------- MODULE MCRecorder -----------------------------
(* Recorder with two time stamps that the file's unit of time confuses.     *)
EXTENDS Recorder
=============================================================================
