------------------------------ MODULE MCAoaHid ------------------------------
(* AoaHid with one keyboard and one gamepad slot, for TLC.                  *)
EXTENDS AoaHid
=============================================================================
