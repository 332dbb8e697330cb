------------------------------ MODULE MCServer ------------------------------
(* Server with two ports and two attempts, for TLC.                         *)
EXTENDS Server

NoVideo == {{"audio", "control"}}
=============================================================================
