--------------------------- MODULE MCSeatRefresh ----------------------------
(* A small instance of SeatRefresh.                                        *)
EXTENDS SeatRefresh

CONSTANTS p1, p2

=============================================================================
