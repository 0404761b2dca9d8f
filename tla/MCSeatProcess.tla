---------------------------- MODULE MCSeatProcess -----------------------------
(* A small instance of SeatProcess.                                        *)
EXTENDS SeatProcess

CONSTANT r1
=============================================================================
