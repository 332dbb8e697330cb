---------------------------- MODULE MCController ----------------------------
(* Controller on a few messages, for TLC.                                   *)
EXTENDS Controller
=============================================================================
