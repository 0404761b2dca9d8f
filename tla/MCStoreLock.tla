----------------------------- MODULE MCStoreLock ----------------------------
(* A small instance of StoreLock.                                          *)
EXTENDS StoreLock

CONSTANTS p1, p2, i1, i2, i3

=============================================================================
