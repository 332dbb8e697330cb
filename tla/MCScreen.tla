------------------------------ MODULE MCScreen ------------------------------
(* Frames of two sizes on a small display.                                  *)
EXTENDS Screen

MCSizes == {<<4, 8>>, <<12, 8>>}
MCFirstSizes == {<<4, 8>>}
MCDisplay == <<16, 16>>
MCUserSizes == {<<11, 16>>}

=============================================================================
