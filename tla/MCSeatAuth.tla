----------------------------- MODULE MCSeatAuth -----------------------------
(* A small instance of SeatAuth.                                           *)
EXTENDS SeatAuth, TLC

CONSTANTS work, home, acc1, acc2, r1

Symmetry == Permutations(Labels) \union Permutations(Accounts)

=============================================================================
