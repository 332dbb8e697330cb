---------------------------- MODULE ControlPort ----------------------------
(***************************************************************************)
(* What sc_controller promises the code that pushes control messages       *)
(* (controller.h): the messages it accepted reach the socket in the order  *)
(* they were accepted, each once, and only before the port is closed; and  *)
(* of the display sizes requested, which are numbered in the order of the  *)
(* requests, the ones sent are ever newer ("a new request overwrites any   *)
(* previous one").                                                         *)
(***************************************************************************)
EXTENDS Naturals, Sequences

CONSTANT Msgs

VARIABLES
    accepted,       \* the messages accepted so far
    wire,           \* the messages written to the socket
    requested,      \* the number of display sizes requested
    display,        \* the last display size written to the socket
    closed          \* nothing will be written any more

vars == <<accepted, wire, requested, display, closed>>

Init ==
    /\ accepted = <<>> /\ wire = <<>>
    /\ requested = 0 /\ display = 0
    /\ closed = FALSE

Accept(m) ==
    /\ accepted' = Append(accepted, m)
    /\ UNCHANGED <<wire, requested, display, closed>>

Request ==
    /\ requested' = requested + 1
    /\ UNCHANGED <<accepted, wire, display, closed>>

Send ==
    /\ ~closed /\ Len(wire) < Len(accepted)
    /\ wire' = Append(wire, accepted[Len(wire) + 1])
    /\ UNCHANGED <<accepted, requested, display, closed>>

SendSize ==
    /\ ~closed
    /\ display' \in (display + 1) .. requested
    /\ UNCHANGED <<accepted, wire, requested, closed>>

Close ==
    /\ ~closed /\ closed' = TRUE
    /\ UNCHANGED <<accepted, wire, requested, display>>

Next == (\E m \in Msgs : Accept(m)) \/ Request \/ Send \/ SendSize \/ Close

Spec == Init /\ [][Next]_vars
=============================================================================
