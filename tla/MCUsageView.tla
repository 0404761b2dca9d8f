----------------------------- MODULE MCUsageView ------------------------------
(* A small instance of UsageView: two profiles and Pi's own login.         *)
EXTENDS UsageView, TLC

CONSTANTS work, home, g1, g2

MCOrder == <<work, home>>
MCLogins == work :> g1 @@ home :> g2
=============================================================================
