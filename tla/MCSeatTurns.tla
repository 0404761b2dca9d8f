---------------------------- MODULE MCSeatTurns -----------------------------
(* A small instance of SeatTurns.                                          *)
EXTENDS SeatTurns, TLC

CONSTANTS anthropic, codex, k1, k2

MCOrder == <<anthropic, codex>>
Symmetry == Permutations(Keys)

=============================================================================
