---------------------------- MODULE SeatRefresh -----------------------------
(***************************************************************************)
(* ensureFreshProfile: the locked single-flight refresh of one stored      *)
(* profile by several processes, against a provider whose refresh tokens   *)
(* work once.  The store lock is abstract here (StoreLock has its          *)
(* protocol): it excludes, and it is taken over from a process that died,  *)
(* or that was merely suspended for longer than the stale threshold, whose *)
(* later commit the fence refuses.                                         *)
(* The lock is held across the network call, so everything that can happen *)
(* to a request happens inside it: the answer, its loss, a timeout racing  *)
(* a late answer, the death of the process.                                *)
(***************************************************************************)
EXTENDS Naturals, FiniteSets

CONSTANTS
    Procs,         \* processes that may refresh the profile
    MaxToken,      \* bound: refresh tokens the provider issues
    Suspendable,   \* those that may stand still past the stale threshold
    None,
    Abandoned      \* the lock of a dead process

ASSUME RefreshAssumption ==
    /\ MaxToken \in Nat \ {0}
    /\ Suspendable \subseteq Procs
    /\ None \notin Procs \union 1..MaxToken
    /\ Abandoned \notin Procs /\ None # Abandoned

VARIABLES
    stored,   \* the credential under the label: its token, and if it is fresh
    lock,     \* the process in a locked section
    suspended,\* processes that stood still past the threshold in this section
    pc,       \* where each call of ensureFreshProfile stands
    fast,     \* the token its unlocked read saw
    sent,     \* the token its request carries
    reply,    \* what the provider answered to that request
    valid,    \* the provider: refresh tokens that still work
    issued,   \* the provider: how many tokens it has issued
    strays,   \* tokens in requests whose sender no longer listens
    lost      \* history: tokens whose replacement never reached the store

vars == <<stored, lock, suspended, pc, fast, sent, reply, valid, issued, strays, lost>>
server == <<valid, issued, strays>>
call == <<pc, fast, sent, reply>>

-----------------------------------------------------------------------------

Tokens == 1..MaxToken
Invalid == 0                     \* the reply invalid_grant
Silence == MaxToken + 1          \* no reply yet

Credentials == [token : Tokens, fresh : BOOLEAN]
Pcs == {"idle", "queue", "sending", "commit", "dead"}

TypeOK == /\ stored \in Credentials \union {None}
          /\ lock \in Procs \union {None, Abandoned}
          /\ suspended \subseteq Suspendable
          /\ pc \in [Procs -> Pcs]
          /\ fast \in [Procs -> Tokens \union {None}]
          /\ sent \in [Procs -> Tokens \union {None}]
          /\ reply \in [Procs -> 0..Silence]
          /\ valid \subseteq Tokens
          /\ issued \in Tokens
          /\ strays \subseteq Tokens
          /\ lost \subseteq Tokens

Init == /\ stored = [token |-> 1, fresh |-> FALSE]
        /\ lock = None
        /\ suspended = {}
        /\ pc = [p \in Procs |-> "idle"]
        /\ fast = [p \in Procs |-> None]
        /\ sent = [p \in Procs |-> None]
        /\ reply = [p \in Procs |-> Silence]
        /\ valid = {1}
        /\ issued = 1
        /\ strays = {}
        /\ lost = {}

\* Bug: a section does not exclude another.
NoExclusion(p) == TRUE

\* p gets the lock: it is free, its holder is dead, or it is taken over.
MayLock(p) == lock \in {None, Abandoned} \union suspended

Unlocked(p) == IF lock = p THEN None ELSE lock

\* The call is over, with a credential or an error; a holder lets go.
Finish(p) == /\ pc' = [pc EXCEPT ![p] = "idle"]
             /\ fast' = [fast EXCEPT ![p] = None]
             /\ sent' = [sent EXCEPT ![p] = None]
             /\ reply' = [reply EXCEPT ![p] = Silence]
             /\ lock' = Unlocked(p)
             /\ suspended' = suspended \ {p}

-----------------------------------------------------------------------------
(* The call.                                                               *)

\* The unlocked fast path: it returns a fresh credential, or ProfileNotFound,
\* at once; that leaves no trace, so only the expired case is a step.
FastRead(p) ==
    /\ pc[p] = "idle"
    /\ stored # None
    /\ ~ stored.fresh
    /\ pc' = [pc EXCEPT ![p] = "queue"]
    /\ fast' = [fast EXCEPT ![p] = stored.token]
    /\ UNCHANGED <<stored, lock, suspended, sent, reply, server, lost>>

\* Bug: the credential of the unlocked read is sent, not the re-read one.
SeenBefore(p) == fast[p]

TokenToSend(p) == stored.token

\* The locked re-read: send only what is still there and still expired.
LockAndReread(p) ==
    /\ pc[p] = "queue"
    /\ MayLock(p)
    /\ IF stored # None /\ ~ stored.fresh
       THEN /\ lock' = p
            /\ pc' = [pc EXCEPT ![p] = "sending"]
            /\ sent' = [sent EXCEPT ![p] = TokenToSend(p)]
            /\ UNCHANGED <<fast, reply>>
       ELSE /\ lock' = None
            /\ pc' = [pc EXCEPT ![p] = "idle"]
            /\ fast' = [fast EXCEPT ![p] = None]
            /\ UNCHANGED <<sent, reply>>
    /\ UNCHANGED <<stored, suspended, server, lost>>

\* ELOCKED after the last retry.
GiveUp(p) ==
    /\ pc[p] = "queue"
    /\ Finish(p)
    /\ UNCHANGED <<stored, server, lost>>

\* Bug: an error reply is taken for a credential.
NoError(p) == FALSE

InvalidGrant(p) == reply[p] = Invalid

\* The answer reaches the callback: a rotated token, or invalid_grant, which
\* ends the call and leaves the credential where it is.
Receive(p) ==
    /\ pc[p] = "sending"
    /\ reply[p] # Silence
    /\ IF InvalidGrant(p)
       THEN Finish(p)
       ELSE pc' = [pc EXCEPT ![p] = "commit"] /\ UNCHANGED <<fast, sent, reply, lock, suspended>>
    /\ UNCHANGED <<stored, server, lost>>

\* Bug: nothing bounds the wait for the provider.
NeverTimesOut(p) == FALSE

TimesOut(p) == pc[p] = "sending"

\* The timer aborts the request, or the network fails it.  The request may
\* still reach the provider, and an answer that was under way is lost.
LoseResponse(p) ==
    /\ strays' = IF reply[p] = Silence THEN strays \union {sent[p]} ELSE strays
    /\ lost' = IF reply[p] \in Tokens THEN lost \union {sent[p]} ELSE lost

Timeout(p) ==
    /\ TimesOut(p)
    /\ LoseResponse(p)
    /\ Finish(p)
    /\ UNCHANGED <<stored, valid, issued>>

\* Bug: the commit is not fenced.
Unfenced(p) == TRUE

FencePasses(p) == lock = p

\* Bug: the credential that was sent is written back.
SentAgain(p) == sent[p]

Rotated(p) == reply[p]

Commit(p) ==
    /\ pc[p] = "commit"
    /\ IF FencePasses(p)
       THEN /\ stored' = [token |-> Rotated(p), fresh |-> TRUE]
            /\ UNCHANGED lost
       ELSE /\ lost' = lost \union {sent[p]}
            /\ UNCHANGED stored
    /\ Finish(p)
    /\ UNCHANGED server

\* Killed, the process leaves its lock to go stale; told to exit, it removes it.
Die(p) ==
    /\ pc[p] # "dead"
    /\ IF pc[p] = "sending" THEN LoseResponse(p)
       ELSE /\ lost' = IF pc[p] = "commit" THEN lost \union {sent[p]} ELSE lost
            /\ UNCHANGED strays
    /\ pc' = [pc EXCEPT ![p] = "dead"]
    /\ fast' = [fast EXCEPT ![p] = None]
    /\ sent' = [sent EXCEPT ![p] = None]
    /\ reply' = [reply EXCEPT ![p] = Silence]
    /\ lock' \in IF lock = p THEN {None, Abandoned} ELSE {lock}
    /\ suspended' = suspended \ {p}
    /\ UNCHANGED <<stored, valid, issued>>

\* The process stands still, and its lock is not touched, for 30 s.
Suspend(p) ==
    /\ p \in Suspendable
    /\ lock = p
    /\ suspended' = suspended \union {p}
    /\ UNCHANGED <<stored, lock, call, server, lost>>

Restart(p) ==
    /\ pc[p] = "dead"
    /\ pc' = [pc EXCEPT ![p] = "idle"]
    /\ UNCHANGED <<stored, lock, suspended, fast, sent, reply, server, lost>>

-----------------------------------------------------------------------------
(* The provider.                                                           *)

\* A valid token is spent and replaced; any other is invalid_grant.
Answer(p) ==
    /\ pc[p] = "sending"
    /\ reply[p] = Silence
    /\ IF sent[p] \in valid
       THEN /\ issued < MaxToken
            /\ issued' = issued + 1
            /\ valid' = (valid \ {sent[p]}) \union {issued'}
            /\ reply' = [reply EXCEPT ![p] = issued']
       ELSE /\ reply' = [reply EXCEPT ![p] = Invalid]
            /\ UNCHANGED <<valid, issued>>
    /\ UNCHANGED <<stored, lock, suspended, pc, fast, sent, strays, lost>>

\* A request nobody waits for is dropped, or spends its token for nothing.
Stray(t) ==
    /\ t \in strays
    /\ strays' = strays \ {t}
    /\ \/ UNCHANGED <<valid, lost>>
       \/ /\ t \in valid
          /\ valid' = valid \ {t}
          /\ lost' = lost \union {t}
    /\ UNCHANGED <<stored, lock, suspended, call, issued>>

-----------------------------------------------------------------------------
(* What else happens to the profile.                                       *)

Expire == /\ stored # None
          /\ stored.fresh
          /\ stored' = [stored EXCEPT !.fresh = FALSE]
          /\ UNCHANGED <<lock, suspended, call, server, lost>>

\* Another command's locked mutation, taking the lock over where it may.
Replace == /\ \A p \in Procs : MayLock(p)
           /\ issued < MaxToken
           /\ issued' = issued + 1
           /\ valid' = valid \union {issued'}
           /\ stored' = [token |-> issued', fresh |-> TRUE]
           /\ lock' = None
           /\ UNCHANGED <<suspended, call, strays, lost>>

Remove == /\ \A p \in Procs : MayLock(p)
          /\ stored # None
          /\ stored' = None
          /\ lock' = None
          /\ UNCHANGED <<suspended, call, server, lost>>

-----------------------------------------------------------------------------

Step(p) == LockAndReread(p) \/ GiveUp(p) \/ Receive(p) \/ Timeout(p) \/ Commit(p)

Next == \/ \E p \in Procs : FastRead(p) \/ Step(p) \/ Suspend(p) \/ Die(p) \/ Restart(p)
                           \/ Answer(p)
        \/ \E t \in Tokens : Stray(t)
        \/ Expire \/ Replace \/ Remove

Spec == Init /\ [][Next]_vars

\* Retries of the lock and the wait for the provider are bounded, so a running
\* call always has a step to take; the provider owes nobody an answer.
FairSpec == Spec /\ \A p \in Procs : WF_vars(Step(p))

-----------------------------------------------------------------------------
(* Properties.                                                             *)

\* A replacement of what p sent is under way to the store.
Replaced(p) == pc[p] \in {"sending", "commit"} /\ reply[p] \in Tokens
LiveTokens == valid \union {sent[p] : p \in {q \in Procs : Replaced(q)}}

Flying(p, t) == pc[p] = "sending" /\ sent[p] = t

\* No two processes refresh the same grant at the same time, unless one of them
\* stood still for longer than a lock is honoured: this is what holding the
\* lock across the network call is for.
SingleFlight ==
    \A p, q \in Procs, t \in Tokens :
        Flying(p, t) /\ Flying(q, t) /\ p # q => suspended \cap {p, q} # {}

\* The token in the store works, unless the replacement is on its way into the
\* store or was lost with a response, a process, or a refused commit: no
\* interleaving of refreshes kills a grant by itself.
StoredTokenWorks ==
    stored # None => stored.token \in LiveTokens \union lost

\* The provider answers invalid_grant only to a token whose replacement was
\* lost, or to the request of a suspended process and the one that took its
\* lock: otherwise refreshes of one grant never make it look dead.
InvalidGrantMeansLoss ==
    \A p \in Procs : InvalidGrant(p) => sent[p] \in lost \/ suspended # {}

\* The processes together implement one register: a rotation is committed only
\* over the credential it came from, neither a login nor another refresh that got
\* in between is overwritten, and a token stops working only by a rotation that
\* was committed or by a loss.
G == INSTANCE GrantRegister WITH cred <- stored, live <- LiveTokens

RotatesAtomically == G!Spec

\* Every call ends, whatever the provider does and whoever dies.
CallsEnd == \A p \in Procs : pc[p] \notin {"idle", "dead"} ~> pc[p] \in {"idle", "dead"}

=============================================================================
