-------------------------- MODULE MCSeatCommands ----------------------------
(* Small instances of SeatCommands.                                        *)
EXTENDS SeatCommands, TLC

CONSTANTS work, home, team, bad, default, s1, s2, t1, t2, t3, t4

Symmetry == Permutations({work, home, team}) \union Permutations(Tokens)

=============================================================================
