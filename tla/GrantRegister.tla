--------------------------- MODULE GrantRegister ----------------------------
(***************************************************************************)
(* What the locked refresh promises of the credential under one label: it  *)
(* is a register that a rotation replaces in one step, from the credential *)
(* it was made of, however many processes refresh it and whoever of them   *)
(* dies on the way.  A grant dies only by a loss: of the answer, of the    *)
(* process that got it, or of the right to store it.                       *)
(***************************************************************************)
CONSTANTS Tokens, None

VARIABLES
    cred,   \* the stored credential
    live,   \* tokens the provider honours, or whose replacement is on its way
    lost    \* tokens whose replacement never reached the register

vars == <<cred, live, lost>>

Fresh(t) == [token |-> t, fresh |-> TRUE]

Init == /\ \E t \in Tokens : cred = [token |-> t, fresh |-> FALSE] /\ live = {t}
        /\ lost = {}

\* The provider issues a token.
Issue(t) == /\ t \notin live \union lost
            /\ live' = live \union {t}
            /\ UNCHANGED <<cred, lost>>

\* A rotation: the register's own token is spent, and its replacement is there.
Rotate(t) == /\ cred # None /\ cred.token \in live
             /\ t \in live /\ t # cred.token
             /\ cred' = Fresh(t)
             /\ live' = live \ {cred.token}
             /\ UNCHANGED lost

Lose(t) == /\ t \in live
           /\ live' = live \ {t}
           /\ lost' = lost \union {t}
           /\ UNCHANGED cred

\* A login puts another grant there; rm takes it away; time passes.
Replace(t) == /\ t \notin live \union lost
              /\ live' = live \union {t}
              /\ cred' = Fresh(t)
              /\ UNCHANGED lost

Remove == cred # None /\ cred' = None /\ UNCHANGED <<live, lost>>

Expire == /\ cred # None /\ cred' = [cred EXCEPT !.fresh = FALSE]
          /\ UNCHANGED <<live, lost>>

Next == \/ \E t \in Tokens : Issue(t) \/ Rotate(t) \/ Lose(t) \/ Replace(t)
        \/ Remove \/ Expire

Spec == Init /\ [][Next]_vars

=============================================================================
