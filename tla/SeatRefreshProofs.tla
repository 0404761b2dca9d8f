------------------------- MODULE SeatRefreshProofs --------------------------
(***************************************************************************)
(* For any number of processes, of tokens, and of processes that stand     *)
(* still past the stale threshold: refreshes of one grant are single       *)
(* flight, invalid_grant always means a loss, and together they implement  *)
(* one register of the credential.                                         *)
(***************************************************************************)
EXTENDS SeatRefresh, TLAPS

\* A call that has nothing on the network holds nothing; one that has, holds the
\* lock or stood still while it did.
Phases ==
    \A p \in Procs :
       /\ pc[p] \in {"idle", "queue", "dead"} =>
             sent[p] = None /\ reply[p] = Silence /\ lock # p /\ p \notin suspended
       /\ pc[p] \in {"sending", "commit"} => sent[p] \in Tokens /\ (lock = p \/ p \in suspended)
       /\ pc[p] = "commit" => reply[p] \in Tokens

\* Nobody writes the credential under its holder, which re-read it under the lock.
HolderReread ==
    \A p \in Procs : lock = p => stored # None /\ stored = [token |-> sent[p], fresh |-> FALSE]

\* Every token anywhere has been issued.
AllIssued == /\ stored # None => stored.token <= issued
             /\ \A p \in Procs : sent[p] \in Tokens => sent[p] <= issued
             /\ \A p \in Procs : reply[p] \in Tokens => reply[p] <= issued
             /\ \A t \in valid \union strays \union lost : t <= issued

\* A token that was replaced works no more, and was replaced once.
SpentOnce ==
    \A p \in Procs : Replaced(p) =>
       /\ sent[p] \notin valid
       /\ \A q \in Procs \ {p} : Replaced(q) => sent[q] # sent[p]

\* A replacement is known to nobody but the process that is to store it.
ReplacementsFresh ==
    \A p \in Procs : Replaced(p) =>
       /\ reply[p] \in valid
       /\ reply[p] \notin strays
       /\ stored # None => stored.token # reply[p]
       /\ \A q \in Procs : sent[q] # reply[p]
       /\ \A q \in Procs \ {p} : reply[q] # reply[p]

\* Why a token was refused: its replacement was lost, or another process has it.
RefusalsExplained ==
    \A p \in Procs : InvalidGrant(p) =>
       \/ sent[p] \in lost
       \/ p \in suspended
       \/ \E q \in Procs : Replaced(q) /\ sent[q] = sent[p] /\ lock = p

IInv == /\ TypeOK
        /\ Phases
        /\ HolderReread
        /\ AllIssued
        /\ SpentOnce
        /\ ReplacementsFresh
        /\ StoredTokenWorks
        /\ RefusalsExplained

-----------------------------------------------------------------------------

USE RefreshAssumption

\* The data are expanded in what follows, up to the answers of the provider.
USE DEF server, call, Tokens, Invalid, Silence, Credentials, Pcs,
        Replaced, LiveTokens, InvalidGrant

LEMMA InitIInv == Init => IInv
<1> SUFFICES ASSUME Init PROVE IInv
  OBVIOUS
<1>1. TypeOK BY DEF Init, TypeOK
<1>2. Phases BY DEF Init, Phases
<1>3. HolderReread BY DEF Init, HolderReread
<1>4. AllIssued BY DEF Init, AllIssued
<1>5. SpentOnce BY DEF Init, SpentOnce
<1>6. ReplacementsFresh BY DEF Init, ReplacementsFresh
<1>7. StoredTokenWorks BY DEF Init, StoredTokenWorks
<1>8. RefusalsExplained BY DEF Init, RefusalsExplained
<1> QED BY <1>1, <1>2, <1>3, <1>4, <1>5, <1>6, <1>7, <1>8 DEF IInv

-----------------------------------------------------------------------------
(* Every step keeps the invariant: one lemma per action, with one step per  *)
(* conjunct of IInv.  First the actions of one call, then those of the      *)
(* provider and of other commands.                                          *)

LEMMA FastReadStep ==
    ASSUME IInv, NEW p \in Procs, FastRead(p)
    PROVE  IInv'
<1>1. TypeOK'
  BY DEF IInv, TypeOK, FastRead
<1>2. Phases'
  BY DEF IInv, Phases, FastRead
<1>3. HolderReread'
  BY DEF IInv, HolderReread, FastRead
<1>4. AllIssued'
  BY DEF IInv, AllIssued, FastRead
<1>5. SpentOnce'
  BY DEF IInv, SpentOnce, FastRead
<1>6. ReplacementsFresh'
  BY DEF IInv, ReplacementsFresh, FastRead
<1>7. StoredTokenWorks'
  BY DEF IInv, StoredTokenWorks, FastRead
<1>8. RefusalsExplained'
  BY DEF IInv, RefusalsExplained, FastRead
<1> QED BY <1>1, <1>2, <1>3, <1>4, <1>5, <1>6, <1>7, <1>8 DEF IInv

LEMMA LockAndRereadStep ==
    ASSUME IInv, NEW p \in Procs, LockAndReread(p)
    PROVE  IInv'
<1>1. TypeOK'
  BY DEF IInv, TypeOK, LockAndReread, MayLock, TokenToSend
<1>2. Phases'
  BY DEF IInv, TypeOK, Phases, LockAndReread, MayLock, TokenToSend
<1>3. HolderReread'
  BY DEF IInv, TypeOK, HolderReread, LockAndReread, MayLock, TokenToSend
<1>4. AllIssued'
  BY DEF IInv, TypeOK, AllIssued, LockAndReread, MayLock, TokenToSend
<1>5. SpentOnce'
  BY DEF IInv, TypeOK, Phases, SpentOnce, LockAndReread
<1>6. ReplacementsFresh'
  BY DEF IInv, TypeOK, Phases, ReplacementsFresh, LockAndReread, MayLock, TokenToSend
<1>7. StoredTokenWorks'
  BY DEF IInv, TypeOK, StoredTokenWorks, LockAndReread
<1>8. RefusalsExplained'
  BY DEF IInv, TypeOK, Phases, RefusalsExplained, LockAndReread, MayLock, TokenToSend
<1> QED BY <1>1, <1>2, <1>3, <1>4, <1>5, <1>6, <1>7, <1>8 DEF IInv

LEMMA GiveUpStep ==
    ASSUME IInv, NEW p \in Procs, GiveUp(p)
    PROVE  IInv'
<1>1. TypeOK'
  BY DEF IInv, TypeOK, GiveUp, Finish, Unlocked
<1>2. Phases'
  BY DEF IInv, Phases, GiveUp, Finish, Unlocked
<1>3. HolderReread'
  BY DEF IInv, HolderReread, GiveUp, Finish, Unlocked
<1>4. AllIssued'
  BY DEF IInv, AllIssued, GiveUp, Finish
<1>5. SpentOnce'
  BY DEF IInv, SpentOnce, GiveUp, Finish
<1>6. ReplacementsFresh'
  BY DEF IInv, ReplacementsFresh, GiveUp, Finish
<1>7. StoredTokenWorks'
  BY DEF IInv, StoredTokenWorks, GiveUp, Finish
<1>8. RefusalsExplained'
  BY DEF IInv, Phases, RefusalsExplained, GiveUp, Finish, Unlocked
<1> QED BY <1>1, <1>2, <1>3, <1>4, <1>5, <1>6, <1>7, <1>8 DEF IInv

LEMMA ReceiveStep ==
    ASSUME IInv, NEW p \in Procs, Receive(p)
    PROVE  IInv'
<1>1. TypeOK'
  BY DEF IInv, TypeOK, Receive, Finish, Unlocked
<1>2. Phases'
  BY DEF IInv, TypeOK, Phases, Receive, Finish, Unlocked
<1>3. HolderReread'
  BY DEF IInv, TypeOK, HolderReread, Receive, Finish, Unlocked
<1>4. AllIssued'
  BY DEF IInv, TypeOK, AllIssued, Receive, Finish
<1>5. SpentOnce'
  BY DEF IInv, TypeOK, SpentOnce, Receive, Finish
<1>6. ReplacementsFresh'
  BY DEF IInv, TypeOK, ReplacementsFresh, Receive, Finish
<1>7. StoredTokenWorks'
  BY DEF IInv, TypeOK, StoredTokenWorks, Receive, Finish
<1>8. RefusalsExplained'
  BY DEF IInv, TypeOK, RefusalsExplained, Receive, Finish, Unlocked
<1> QED BY <1>1, <1>2, <1>3, <1>4, <1>5, <1>6, <1>7, <1>8 DEF IInv

LEMMA TimeoutStep ==
    ASSUME IInv, NEW p \in Procs, Timeout(p)
    PROVE  IInv'
<1>1. TypeOK'
  <2>1. sent[p] \in Tokens
    BY DEF IInv, Phases, Timeout, TimesOut
  <2>2. strays' \subseteq Tokens /\ lost' \subseteq Tokens
    BY <2>1 DEF IInv, TypeOK, Timeout, LoseResponse
  <2>3. /\ pc' \in [Procs -> Pcs] /\ fast' \in [Procs -> Tokens \union {None}]
        /\ sent' \in [Procs -> Tokens \union {None}] /\ reply' \in [Procs -> 0..Silence]
        /\ lock' \in Procs \union {None, Abandoned} /\ suspended' \subseteq Suspendable
    BY DEF IInv, Timeout, TypeOK, Finish, Unlocked
  <2> QED BY <2>2, <2>3 DEF IInv, TypeOK, Timeout
<1>2. Phases'
  BY DEF IInv, TypeOK, Phases, Timeout, Finish, Unlocked
<1>3. HolderReread'
  BY DEF IInv, HolderReread, Timeout, Finish, Unlocked
<1>4. AllIssued'
  BY DEF IInv, Phases, AllIssued, Timeout, TimesOut, LoseResponse, Finish
<1>5. SpentOnce'
  BY DEF IInv, TypeOK, SpentOnce, Timeout, Finish
<1>6. ReplacementsFresh'
  BY DEF IInv, ReplacementsFresh, Timeout, TimesOut, LoseResponse, Finish
<1>7. StoredTokenWorks'
  BY DEF IInv, StoredTokenWorks, Timeout, TimesOut, LoseResponse, Finish
<1>8. RefusalsExplained'
  BY DEF IInv, TypeOK, RefusalsExplained, Timeout, TimesOut, LoseResponse, Finish, Unlocked
<1> QED BY <1>1, <1>2, <1>3, <1>4, <1>5, <1>6, <1>7, <1>8 DEF IInv

LEMMA CommitStep ==
    ASSUME IInv, NEW p \in Procs, Commit(p)
    PROVE  IInv'
<1>1. TypeOK'
  <2>1. sent[p] \in Tokens /\ reply[p] \in Tokens
    BY DEF IInv, Phases, Commit
  <2>2. stored' \in Credentials \union {None}
    <3>1. [token |-> reply[p], fresh |-> TRUE] \in Credentials
      BY <2>1
    <3> QED BY <3>1 DEF IInv, TypeOK, Commit, Rotated
  <2>4. lost' \subseteq Tokens
    BY <2>1 DEF IInv, TypeOK, Commit
  <2>3. /\ pc' \in [Procs -> Pcs] /\ fast' \in [Procs -> Tokens \union {None}]
        /\ sent' \in [Procs -> Tokens \union {None}] /\ reply' \in [Procs -> 0..Silence]
        /\ lock' \in Procs \union {None, Abandoned} /\ suspended' \subseteq Suspendable
    BY DEF IInv, Commit, TypeOK, Finish, Unlocked
  <2> QED BY <2>2, <2>3, <2>4 DEF IInv, TypeOK, Commit
<1>2. Phases'
  BY DEF IInv, TypeOK, Phases, Commit, FencePasses, Rotated, Finish, Unlocked
<1>3. HolderReread'
  BY DEF IInv, HolderReread, Commit, FencePasses, Rotated, Finish, Unlocked
<1>4. AllIssued'
  BY DEF IInv, Phases, AllIssued, Commit, FencePasses, Rotated, Finish
<1>5. SpentOnce'
  BY DEF IInv, TypeOK, SpentOnce, Commit, FencePasses, Rotated, Finish
<1>6. ReplacementsFresh'
  BY DEF IInv, TypeOK, ReplacementsFresh, Commit, FencePasses, Rotated, Finish
<1>7. StoredTokenWorks'
  BY DEF IInv, Phases, StoredTokenWorks, ReplacementsFresh, Commit, FencePasses, Rotated, Finish
<1>8. RefusalsExplained'
  BY DEF IInv, Phases, RefusalsExplained, Commit, FencePasses, Rotated, Finish, Unlocked
<1> QED BY <1>1, <1>2, <1>3, <1>4, <1>5, <1>6, <1>7, <1>8 DEF IInv

LEMMA DieStep ==
    ASSUME IInv, NEW p \in Procs, Die(p)
    PROVE  IInv'
<1>1. TypeOK'
  <2>1. pc[p] \in {"sending", "commit"} => sent[p] \in Tokens
    BY DEF IInv, Phases
  <2>2. strays' \subseteq Tokens /\ lost' \subseteq Tokens
    BY <2>1 DEF IInv, TypeOK, Die, LoseResponse
  <2>3. /\ pc' \in [Procs -> Pcs] /\ fast' \in [Procs -> Tokens \union {None}]
        /\ sent' \in [Procs -> Tokens \union {None}] /\ reply' \in [Procs -> 0..Silence]
        /\ lock' \in Procs \union {None, Abandoned} /\ suspended' \subseteq Suspendable
    BY DEF IInv, Die, TypeOK
  <2> QED BY <2>2, <2>3 DEF IInv, TypeOK, Die
<1>2. Phases'
  BY DEF IInv, TypeOK, Phases, Die
<1>3. HolderReread'
  BY DEF IInv, HolderReread, Die
<1>4. AllIssued'
  BY DEF IInv, Phases, AllIssued, Die, LoseResponse
<1>5. SpentOnce'
  BY DEF IInv, TypeOK, SpentOnce, Die
<1>6. ReplacementsFresh'
  BY DEF IInv, ReplacementsFresh, Die, LoseResponse
<1>7. StoredTokenWorks'
  BY DEF IInv, StoredTokenWorks, Die, LoseResponse
<1>8. RefusalsExplained'
  BY DEF IInv, TypeOK, RefusalsExplained, Die, LoseResponse
<1> QED BY <1>1, <1>2, <1>3, <1>4, <1>5, <1>6, <1>7, <1>8 DEF IInv

LEMMA SuspendStep ==
    ASSUME IInv, NEW p \in Procs, Suspend(p)
    PROVE  IInv'
<1>1. TypeOK'
  BY DEF IInv, TypeOK, Suspend
<1>2. Phases'
  BY DEF IInv, Phases, Suspend
<1>3. HolderReread'
  BY DEF IInv, HolderReread, Suspend
<1>4. AllIssued'
  BY DEF IInv, AllIssued, Suspend
<1>5. SpentOnce'
  BY DEF IInv, SpentOnce, Suspend
<1>6. ReplacementsFresh'
  BY DEF IInv, ReplacementsFresh, Suspend
<1>7. StoredTokenWorks'
  BY DEF IInv, StoredTokenWorks, Suspend
<1>8. RefusalsExplained'
  BY DEF IInv, RefusalsExplained, Suspend
<1> QED BY <1>1, <1>2, <1>3, <1>4, <1>5, <1>6, <1>7, <1>8 DEF IInv

LEMMA RestartStep ==
    ASSUME IInv, NEW p \in Procs, Restart(p)
    PROVE  IInv'
<1>1. TypeOK'
  BY DEF IInv, TypeOK, Restart
<1>2. Phases'
  BY DEF IInv, Phases, Restart
<1>3. HolderReread'
  BY DEF IInv, HolderReread, Restart
<1>4. AllIssued'
  BY DEF IInv, AllIssued, Restart
<1>5. SpentOnce'
  BY DEF IInv, SpentOnce, Restart
<1>6. ReplacementsFresh'
  BY DEF IInv, ReplacementsFresh, Restart
<1>7. StoredTokenWorks'
  BY DEF IInv, StoredTokenWorks, Restart
<1>8. RefusalsExplained'
  BY DEF IInv, RefusalsExplained, Restart
<1> QED BY <1>1, <1>2, <1>3, <1>4, <1>5, <1>6, <1>7, <1>8 DEF IInv

HIDE DEF server, call, Tokens, Invalid, Silence, Credentials, Pcs,
         Replaced, LiveTokens, InvalidGrant

\* The provider replaces the token it is sent if it still works.
LEMMA AnswerStep ==
    ASSUME IInv, NEW p \in Procs, Answer(p)
    PROVE  IInv'
<1>1. Replaced(p) = FALSE /\ sent[p] \in Tokens
  BY DEF IInv, Phases, Answer, Replaced, Tokens, Silence
<1>2. CASE sent[p] \in valid
  <2>0. /\ issued' = issued + 1 /\ issued' \in Tokens
        /\ valid' = (valid \ {sent[p]}) \union {issued + 1}
        /\ reply' = [reply EXCEPT ![p] = issued + 1]
        /\ UNCHANGED <<stored, lock, suspended, pc, fast, sent, strays, lost>>
        /\ pc[p] = "sending" /\ reply[p] = Silence
    BY <1>2 DEF IInv, TypeOK, Answer, Tokens
  <2>1. TypeOK'
    <3>1. issued + 1 \in 0..Silence /\ issued + 1 \in Tokens
      BY <2>0 DEF IInv, Tokens, Silence
    <3>2. reply' \in [Procs -> 0..Silence] /\ valid' \subseteq Tokens
      BY <2>0, <3>1 DEF IInv, TypeOK
    <3> QED BY <2>0, <3>2 DEF IInv, TypeOK
  <2>2. Phases'
    BY <1>1, <1>2, <2>0 DEF IInv, Phases, Tokens, Invalid, Silence
  <2>3. HolderReread'
    BY <1>1, <1>2, <2>0 DEF IInv, HolderReread, Tokens, Invalid, Silence
  <2>4. AllIssued'
    <3>1. \A t \in valid' \union strays' \union lost' : t <= issued'
      BY <2>0 DEF IInv, TypeOK, AllIssued, Tokens
    <3>2. \A q \in Procs : reply'[q] \in Tokens => reply'[q] <= issued'
      BY <2>0 DEF IInv, TypeOK, AllIssued, Tokens, Silence
    <3>3. stored' # None => stored'.token <= issued'
      BY <2>0 DEF IInv, TypeOK, AllIssued, Tokens, Credentials
    <3>4. \A q \in Procs : sent'[q] \in Tokens => sent'[q] <= issued'
      BY <2>0 DEF IInv, TypeOK, AllIssued, Tokens
    <3> QED BY <3>1, <3>2, <3>3, <3>4 DEF AllIssued
  <2>5. SpentOnce'
    BY <1>1, <1>2, <2>0 DEF IInv, TypeOK, AllIssued, SpentOnce, Replaced, Tokens, Invalid,
                            Silence
  <2>6. ReplacementsFresh'
    BY <1>1, <1>2, <2>0 DEF IInv, TypeOK, AllIssued, ReplacementsFresh, Replaced, Tokens,
                            Invalid, Silence
  <2>7. StoredTokenWorks'
    BY <1>1, <1>2, <2>0 DEF IInv, TypeOK, StoredTokenWorks, LiveTokens, Replaced, Credentials,
                            Tokens, Invalid, Silence
  <2>8. RefusalsExplained'
    BY <1>1, <1>2, <2>0 DEF IInv, RefusalsExplained, LiveTokens, Replaced, InvalidGrant,
                            Tokens, Invalid, Silence
  <2> QED BY <2>1, <2>2, <2>3, <2>4, <2>5, <2>6, <2>7, <2>8 DEF IInv
<1>3. CASE sent[p] \notin valid
  <2>0. /\ reply' = [reply EXCEPT ![p] = Invalid]
        /\ UNCHANGED <<stored, lock, suspended, pc, fast, sent, valid, issued, strays, lost>>
        /\ pc[p] = "sending" /\ reply[p] = Silence
    BY <1>3 DEF Answer
  <2>1. TypeOK'
    BY <1>1, <1>3, <2>0 DEF IInv, TypeOK, Tokens, Invalid, Silence
  <2>2. Phases'
    BY <1>1, <1>3, <2>0 DEF IInv, Phases, Tokens, Invalid, Silence
  <2>3. HolderReread'
    BY <1>1, <1>3, <2>0 DEF IInv, HolderReread, Tokens, Invalid, Silence
  <2>4. AllIssued'
    BY <1>1, <1>3, <2>0 DEF IInv, AllIssued, Tokens, Invalid, Silence
  <2>5. SpentOnce'
    BY <1>1, <1>3, <2>0 DEF IInv, SpentOnce, Replaced, Tokens, Invalid, Silence
  <2>6. ReplacementsFresh'
    BY <1>1, <1>3, <2>0 DEF IInv, ReplacementsFresh, Replaced, Tokens, Invalid, Silence
  <2>7. StoredTokenWorks'
    BY <1>1, <1>3, <2>0 DEF IInv, StoredTokenWorks, LiveTokens, Replaced, Credentials, Tokens,
                            Invalid, Silence
  <2>8. RefusalsExplained'
    <3>1. \A q \in Procs \ {p} : reply'[q] = reply[q]
      BY <2>0 DEF IInv
    <3>2. \A q \in Procs : Replaced(q)' <=> Replaced(q)
      BY <1>1, <2>0, <3>1 DEF IInv, Replaced, Tokens, Invalid, Silence
    <3>3. sent[p] \in lost \/ p \in suspended \/ \E q \in Procs : Replaced(q) /\ sent[q] = sent[p] /\ lock = p
      <4>1. CASE lock = p
        <5>1. stored # None /\ stored.token = sent[p]
          BY <4>1 DEF IInv, HolderReread
        <5> QED BY <1>3, <4>1, <5>1 DEF IInv, StoredTokenWorks, LiveTokens
      <4> QED BY <2>0, <4>1 DEF IInv, Phases
    <3> QED BY <2>0, <3>1, <3>2, <3>3 DEF IInv, RefusalsExplained, InvalidGrant
  <2> QED BY <2>1, <2>2, <2>3, <2>4, <2>5, <2>6, <2>7, <2>8 DEF IInv
<1> QED BY <1>2, <1>3

USE DEF server, call, Tokens, Invalid, Silence, Credentials, Pcs,
        Replaced, LiveTokens, InvalidGrant

LEMMA StrayStep ==
    ASSUME IInv, NEW t \in Tokens, Stray(t)
    PROVE  IInv'
<1>1. TypeOK'
  BY DEF IInv, TypeOK, Stray
<1>2. Phases'
  BY DEF IInv, Phases, Stray
<1>3. HolderReread'
  BY DEF IInv, HolderReread, Stray
<1>4. AllIssued'
  BY DEF IInv, AllIssued, Stray
<1>5. SpentOnce'
  BY DEF IInv, SpentOnce, Stray
<1>6. ReplacementsFresh'
  BY DEF IInv, ReplacementsFresh, Stray
<1>7. StoredTokenWorks'
  BY DEF IInv, StoredTokenWorks, Stray
<1>8. RefusalsExplained'
  BY DEF IInv, RefusalsExplained, Stray
<1> QED BY <1>1, <1>2, <1>3, <1>4, <1>5, <1>6, <1>7, <1>8 DEF IInv

LEMMA ExpireStep ==
    ASSUME IInv, Expire
    PROVE  IInv'
<1>1. TypeOK'
  BY DEF IInv, TypeOK, Expire
<1>2. Phases'
  BY DEF IInv, Phases, Expire
<1>3. HolderReread'
  BY DEF IInv, HolderReread, Expire
<1>4. AllIssued'
  BY DEF IInv, AllIssued, Expire
<1>5. SpentOnce'
  BY DEF IInv, SpentOnce, Expire
<1>6. ReplacementsFresh'
  BY DEF IInv, ReplacementsFresh, Expire
<1>7. StoredTokenWorks'
  BY DEF IInv, StoredTokenWorks, Expire
<1>8. RefusalsExplained'
  BY DEF IInv, RefusalsExplained, Expire
<1> QED BY <1>1, <1>2, <1>3, <1>4, <1>5, <1>6, <1>7, <1>8 DEF IInv

LEMMA ReplaceStep ==
    ASSUME IInv, Replace
    PROVE  IInv'
<1>1. TypeOK'
  BY DEF IInv, TypeOK, Replace
<1>2. Phases'
  BY DEF IInv, Phases, Replace, MayLock
<1>3. HolderReread'
  BY DEF IInv, HolderReread, Replace
<1>4. AllIssued'
  BY DEF IInv, TypeOK, AllIssued, Replace
<1>5. SpentOnce'
  BY DEF IInv, TypeOK, AllIssued, SpentOnce, Replace
<1>6. ReplacementsFresh'
  BY DEF IInv, TypeOK, AllIssued, ReplacementsFresh, Replace
<1>7. StoredTokenWorks'
  BY DEF IInv, StoredTokenWorks, Replace
<1>8. RefusalsExplained'
  BY DEF IInv, RefusalsExplained, Replace, MayLock
<1> QED BY <1>1, <1>2, <1>3, <1>4, <1>5, <1>6, <1>7, <1>8 DEF IInv

LEMMA RemoveStep ==
    ASSUME IInv, Remove
    PROVE  IInv'
<1>1. TypeOK'
  BY DEF IInv, TypeOK, Remove
<1>2. Phases'
  BY DEF IInv, Phases, Remove, MayLock
<1>3. HolderReread'
  BY DEF IInv, HolderReread, Remove
<1>4. AllIssued'
  BY DEF IInv, AllIssued, Remove
<1>5. SpentOnce'
  BY DEF IInv, SpentOnce, Remove
<1>6. ReplacementsFresh'
  BY DEF IInv, ReplacementsFresh, Remove
<1>7. StoredTokenWorks'
  BY DEF IInv, StoredTokenWorks, Remove
<1>8. RefusalsExplained'
  BY DEF IInv, RefusalsExplained, Remove, MayLock
<1> QED BY <1>1, <1>2, <1>3, <1>4, <1>5, <1>6, <1>7, <1>8 DEF IInv

HIDE DEF server, call, Tokens, Invalid, Silence, Credentials, Pcs,
         Replaced, LiveTokens, InvalidGrant

LEMMA StutterStep ==
    ASSUME IInv, UNCHANGED vars
    PROVE  IInv'
BY DEF IInv, TypeOK, Phases, HolderReread, AllIssued, SpentOnce, ReplacementsFresh,
       StoredTokenWorks,
       RefusalsExplained, Replaced, LiveTokens, InvalidGrant, vars

\* The invariant is inductive.
LEMMA Inductive ==
    ASSUME IInv, [Next]_vars
    PROVE  IInv'
<1>1. ASSUME NEW p \in Procs, FastRead(p) PROVE IInv'
  BY <1>1, FastReadStep
<1>2. ASSUME NEW p \in Procs, LockAndReread(p) PROVE IInv'
  BY <1>2, LockAndRereadStep
<1>3. ASSUME NEW p \in Procs, GiveUp(p) PROVE IInv'
  BY <1>3, GiveUpStep
<1>4. ASSUME NEW p \in Procs, Receive(p) PROVE IInv'
  BY <1>4, ReceiveStep
<1>5. ASSUME NEW p \in Procs, Timeout(p) PROVE IInv'
  BY <1>5, TimeoutStep
<1>6. ASSUME NEW p \in Procs, Commit(p) PROVE IInv'
  BY <1>6, CommitStep
<1>7. ASSUME NEW p \in Procs, Suspend(p) PROVE IInv'
  BY <1>7, SuspendStep
<1>8. ASSUME NEW p \in Procs, Die(p) PROVE IInv'
  BY <1>8, DieStep
<1>9. ASSUME NEW p \in Procs, Restart(p) PROVE IInv'
  BY <1>9, RestartStep
<1>10. ASSUME NEW p \in Procs, Answer(p) PROVE IInv'
  BY <1>10, AnswerStep
<1>11. ASSUME NEW t \in Tokens, Stray(t) PROVE IInv'
  BY <1>11, StrayStep
<1>12. CASE Expire
  BY <1>12, ExpireStep
<1>13. CASE Replace
  BY <1>13, ReplaceStep
<1>14. CASE Remove
  BY <1>14, RemoveStep
<1> QED BY <1>1, <1>2, <1>3, <1>4, <1>5, <1>6, <1>7, <1>8, <1>9, <1>10, <1>11, <1>12, <1>13,
           <1>14, StutterStep DEF Next, Step

LEMMA Always == Spec => []IInv
BY InitIInv, Inductive, PTL DEF Spec

-----------------------------------------------------------------------------

\* The variables of a call and of the provider stay well typed.
THEOREM RefreshTypeCorrect == Spec => []TypeOK
<1>1. IInv => TypeOK
  BY DEF IInv
<1> QED BY <1>1, Always, PTL

\* Of two requests that carry the same token one belongs to a process that stood
\* still past the stale threshold.
THEOREM AlwaysSingleFlight == Spec => []SingleFlight
<1>1. IInv => SingleFlight
  BY DEF IInv, Phases, SingleFlight, Flying
<1> QED BY <1>1, Always, PTL

\* The stored token works unless its replacement was lost or is on its way.
THEOREM StoredTokenAlwaysWorks == Spec => []StoredTokenWorks
<1>1. IInv => StoredTokenWorks
  BY DEF IInv
<1> QED BY <1>1, Always, PTL

\* A refresh that nothing was lost of, and during which nobody stood still, is not
\* refused.
THEOREM RefusalMeansLoss == Spec => []InvalidGrantMeansLoss
<1>1. ASSUME IInv PROVE InvalidGrantMeansLoss
  <2>1. SUFFICES ASSUME NEW p \in Procs, InvalidGrant(p), sent[p] \notin lost, suspended = {} PROVE FALSE
    BY DEF InvalidGrantMeansLoss
  <2>2. PICK q \in Procs : Replaced(q) /\ sent[q] = sent[p] /\ lock = p
    BY <1>1, <2>1 DEF IInv, RefusalsExplained
  <2>3. p # q
    BY <2>1, <2>2 DEF Replaced, InvalidGrant, Tokens, Invalid
  <2> QED BY <1>1, <2>1, <2>2, <2>3 DEF IInv, Phases, Replaced
<1> QED BY <1>1, Always, PTL

-----------------------------------------------------------------------------
(* The refinement: each step is a step of the register, or leaves it alone. *)

LEMMA FastReadMaps ==
    ASSUME IInv, NEW p \in Procs, FastRead(p)
    PROVE  [G!Next]_G!vars
<1>1. UNCHANGED <<stored, valid, lost>>
  BY DEF FastRead, server
<1>2. \A q \in Procs : (Replaced(q)' <=> Replaced(q)) /\ (Replaced(q) => sent'[q] = sent[q])
  BY DEF IInv, FastRead, server, Replaced, Tokens, Silence
<1>3. LiveTokens' = LiveTokens
  BY <1>1, <1>2 DEF LiveTokens
<1> QED BY <1>1, <1>3 DEF G!vars

LEMMA LockAndRereadMaps ==
    ASSUME IInv, NEW p \in Procs, LockAndReread(p)
    PROVE  [G!Next]_G!vars
<1>1. UNCHANGED <<stored, valid, lost>>
  BY DEF LockAndReread, server
<1>2. \A q \in Procs : (Replaced(q)' <=> Replaced(q)) /\ (Replaced(q) => sent'[q] = sent[q])
  BY DEF IInv, TypeOK, Phases, LockAndReread, server, Replaced, Tokens, Silence
<1>3. LiveTokens' = LiveTokens
  BY <1>1, <1>2 DEF LiveTokens
<1> QED BY <1>1, <1>3 DEF G!vars

LEMMA GiveUpMaps ==
    ASSUME IInv, NEW p \in Procs, GiveUp(p)
    PROVE  [G!Next]_G!vars
<1>1. UNCHANGED <<stored, valid, lost>>
  BY DEF GiveUp, server
<1>2. \A q \in Procs : (Replaced(q)' <=> Replaced(q)) /\ (Replaced(q) => sent'[q] = sent[q])
  BY DEF IInv, GiveUp, server, Replaced, Finish, Tokens, Silence
<1>3. LiveTokens' = LiveTokens
  BY <1>1, <1>2 DEF LiveTokens
<1> QED BY <1>1, <1>3 DEF G!vars

LEMMA ReceiveMaps ==
    ASSUME IInv, NEW p \in Procs, Receive(p)
    PROVE  [G!Next]_G!vars
<1>1. UNCHANGED <<stored, valid, lost>>
  BY DEF Receive, server
<1>2. \A q \in Procs : (Replaced(q)' <=> Replaced(q)) /\ (Replaced(q) => sent'[q] = sent[q])
  BY DEF IInv, TypeOK, Receive, Finish, InvalidGrant, Invalid, Replaced, Tokens, Silence
<1>3. LiveTokens' = LiveTokens
  BY <1>1, <1>2 DEF LiveTokens
<1> QED BY <1>1, <1>3 DEF G!vars

\* A call that gives up on its answer may lose what the provider replaced.
LEMMA TimeoutMaps ==
    ASSUME IInv, NEW p \in Procs, Timeout(p)
    PROVE  [G!Next]_G!vars
<1>1. \A q \in Procs \ {p} : (Replaced(q)' <=> Replaced(q)) /\ sent'[q] = sent[q]
  BY DEF IInv, Timeout, Finish, Replaced
<1>2. ~ Replaced(p)' /\ UNCHANGED <<stored, valid>>
  BY DEF IInv, TypeOK, Timeout, Finish, Replaced
<1>3. CASE Replaced(p)
  <2>1. lost' = lost \union {sent[p]} /\ sent[p] \in Tokens /\ sent[p] \in LiveTokens
    BY <1>3 DEF IInv, Phases, Timeout, TimesOut, LoseResponse, Replaced, LiveTokens
  <2>2. LiveTokens' = LiveTokens \ {sent[p]}
    BY <1>1, <1>2, <1>3 DEF IInv, SpentOnce, LiveTokens
  <2> QED BY <1>2, <2>1, <2>2 DEF G!Next, G!Lose
<1>4. CASE ~ Replaced(p)
  <2>1. lost' = lost
    BY <1>4 DEF IInv, Timeout, TimesOut, LoseResponse, Replaced
  <2>2. LiveTokens' = LiveTokens
    BY <1>1, <1>2, <1>4 DEF LiveTokens
  <2> QED BY <1>2, <2>1, <2>2 DEF G!vars
<1> QED BY <1>3, <1>4

\* A commit rotates the register; one that the fence stops loses its token.
LEMMA CommitMaps ==
    ASSUME IInv, NEW p \in Procs, Commit(p)
    PROVE  [G!Next]_G!vars
<1>1. \A q \in Procs \ {p} : (Replaced(q)' <=> Replaced(q)) /\ sent'[q] = sent[q]
  BY DEF IInv, Commit, Finish, Replaced
<1>2. Replaced(p) /\ ~ Replaced(p)' /\ valid' = valid /\ sent[p] \in Tokens /\ reply[p] \in Tokens
  BY DEF IInv, TypeOK, Phases, Commit, Finish, Replaced, server
<1>3. LiveTokens' = LiveTokens \ {sent[p]} /\ sent[p] \in LiveTokens
  BY <1>1, <1>2 DEF IInv, SpentOnce, LiveTokens
<1>4. CASE FencePasses(p)
  <2>1. stored # None /\ stored.token = sent[p]
    BY <1>4 DEF IInv, HolderReread, FencePasses
  <2>2. stored' = [token |-> reply[p], fresh |-> TRUE] /\ lost' = lost
    BY <1>4 DEF Commit, Rotated
  <2>3. reply[p] \in LiveTokens /\ reply[p] # sent[p]
    BY <1>2 DEF IInv, ReplacementsFresh, LiveTokens
  <2>4. G!Rotate(reply[p])
    BY <1>3, <2>1, <2>2, <2>3 DEF G!Rotate, G!Fresh
  <2> QED BY <1>2, <2>4 DEF G!Next
<1>5. CASE ~ FencePasses(p)
  <2>1. lost' = lost \union {sent[p]} /\ stored' = stored
    BY <1>5 DEF Commit
  <2> QED BY <1>2, <1>3, <2>1 DEF G!Next, G!Lose
<1> QED BY <1>4, <1>5

LEMMA SuspendMaps ==
    ASSUME IInv, NEW p \in Procs, Suspend(p)
    PROVE  [G!Next]_G!vars
<1>1. UNCHANGED <<stored, valid, lost>>
  BY DEF Suspend, server
<1>2. \A q \in Procs : (Replaced(q)' <=> Replaced(q)) /\ (Replaced(q) => sent'[q] = sent[q])
  BY DEF IInv, Suspend, server, call, Replaced, Tokens, Silence
<1>3. LiveTokens' = LiveTokens
  BY <1>1, <1>2 DEF LiveTokens
<1> QED BY <1>1, <1>3 DEF G!vars

LEMMA DieMaps ==
    ASSUME IInv, NEW p \in Procs, Die(p)
    PROVE  [G!Next]_G!vars
<1>1. \A q \in Procs \ {p} : (Replaced(q)' <=> Replaced(q)) /\ sent'[q] = sent[q]
  BY DEF IInv, Die, Replaced
<1>2. ~ Replaced(p)' /\ UNCHANGED <<stored, valid>>
  BY DEF IInv, TypeOK, Die, Replaced
<1>3. CASE Replaced(p)
  <2>1. lost' = lost \union {sent[p]} /\ sent[p] \in Tokens /\ sent[p] \in LiveTokens
    BY <1>3 DEF IInv, Phases, Die, TimesOut, LoseResponse, Replaced, LiveTokens
  <2>2. LiveTokens' = LiveTokens \ {sent[p]}
    BY <1>1, <1>2, <1>3 DEF IInv, SpentOnce, LiveTokens
  <2> QED BY <1>2, <2>1, <2>2 DEF G!Next, G!Lose
<1>4. CASE ~ Replaced(p)
  <2>1. lost' = lost
    BY <1>4 DEF IInv, Phases, Die, TimesOut, LoseResponse, Replaced
  <2>2. LiveTokens' = LiveTokens
    BY <1>1, <1>2, <1>4 DEF LiveTokens
  <2> QED BY <1>2, <2>1, <2>2 DEF G!vars
<1> QED BY <1>3, <1>4

LEMMA RestartMaps ==
    ASSUME IInv, NEW p \in Procs, Restart(p)
    PROVE  [G!Next]_G!vars
<1>1. UNCHANGED <<stored, valid, lost>>
  BY DEF Restart, server
<1>2. \A q \in Procs : (Replaced(q)' <=> Replaced(q)) /\ (Replaced(q) => sent'[q] = sent[q])
  BY DEF IInv, Restart, server, Replaced, Tokens, Silence
<1>3. LiveTokens' = LiveTokens
  BY <1>1, <1>2 DEF LiveTokens
<1> QED BY <1>1, <1>3 DEF G!vars

\* A replacement issued is a live token of the register from now on.
LEMMA AnswerMaps ==
    ASSUME IInv, NEW p \in Procs, Answer(p)
    PROVE  [G!Next]_G!vars
<1>1. \A q \in Procs \ {p} : Replaced(q)' <=> Replaced(q)
  BY DEF IInv, TypeOK, Answer, Replaced
<1>2. ~ Replaced(p) /\ UNCHANGED <<stored, sent, lost>> /\ sent[p] \in Tokens
  BY DEF IInv, Phases, Answer, Replaced, Tokens, Silence
<1>3. CASE sent[p] \in valid
  <2>1. issued + 1 \in Tokens /\ valid' = (valid \ {sent[p]}) \union {issued + 1} /\ Replaced(p)'
    BY <1>3 DEF IInv, TypeOK, Answer, Replaced, Tokens
  <2>2. LiveTokens' = LiveTokens \union {issued + 1}
    BY <1>1, <1>2, <1>3, <2>1 DEF LiveTokens
  <2>3. \A t \in valid \union lost : t # issued + 1
    BY DEF IInv, TypeOK, AllIssued, Tokens
  <2>4. \A q \in Procs : Replaced(q) => sent[q] # issued + 1
    BY DEF IInv, TypeOK, Phases, AllIssued, Replaced, Tokens
  <2>5. issued + 1 \notin LiveTokens \union lost
    BY <2>3, <2>4 DEF LiveTokens
  <2> QED BY <1>2, <2>1, <2>2, <2>5 DEF G!Next, G!Issue
<1>4. CASE sent[p] \notin valid
  <2>1. ~ Replaced(p)' /\ valid' = valid
    BY <1>4 DEF IInv, TypeOK, Answer, Replaced, Tokens, Invalid
  <2>2. LiveTokens' = LiveTokens
    BY <1>1, <1>2, <2>1 DEF LiveTokens
  <2> QED BY <1>2, <2>2 DEF G!vars
<1> QED BY <1>3, <1>4

LEMMA StrayMaps ==
    ASSUME IInv, NEW t \in Tokens, Stray(t)
    PROVE  [G!Next]_G!vars
<1>1. UNCHANGED <<stored, sent>> /\ \A q \in Procs : Replaced(q)' <=> Replaced(q)
  BY DEF Stray, call, Replaced
<1>2. CASE UNCHANGED <<valid, lost>>
  <2>1. LiveTokens' = LiveTokens
    BY <1>1, <1>2 DEF LiveTokens
  <2> QED BY <1>1, <1>2, <2>1 DEF G!vars
<1>3. CASE t \in valid /\ valid' = valid \ {t} /\ lost' = lost \union {t}
  <2>1. LiveTokens' = LiveTokens \ {t} /\ t \in LiveTokens
    BY <1>1, <1>3 DEF IInv, SpentOnce, LiveTokens
  <2> QED BY <1>1, <1>3, <2>1 DEF G!Next, G!Lose
<1> QED BY <1>2, <1>3 DEF Stray

LEMMA ExpireMaps ==
    ASSUME IInv, Expire
    PROVE  [G!Next]_G!vars
<1>1. LiveTokens' = LiveTokens /\ lost' = lost
  BY DEF Expire, LiveTokens, Replaced, call, server
<1> QED BY <1>1 DEF Expire, G!Next, G!Expire

LEMMA ReplaceMaps ==
    ASSUME IInv, Replace
    PROVE  [G!Next]_G!vars
<1>1. issued + 1 \in Tokens /\ valid' = valid \union {issued + 1} /\ stored' = G!Fresh(issued + 1) /\ lost' = lost
  BY DEF IInv, TypeOK, Replace, Tokens, G!Fresh
<1>2. LiveTokens' = LiveTokens \union {issued + 1}
  BY <1>1 DEF Replace, call, LiveTokens, Replaced
<1>3. \A t \in valid \union lost : t # issued + 1
  BY DEF IInv, TypeOK, AllIssued, Tokens
<1>4. \A q \in Procs : Replaced(q) => sent[q] # issued + 1
  BY DEF IInv, TypeOK, Phases, AllIssued, Replaced, Tokens
<1>5. issued + 1 \notin LiveTokens \union lost
  BY <1>3, <1>4 DEF LiveTokens
<1> QED BY <1>1, <1>2, <1>5 DEF G!Next, G!Replace

LEMMA RemoveMaps ==
    ASSUME IInv, Remove
    PROVE  [G!Next]_G!vars
<1>1. LiveTokens' = LiveTokens /\ lost' = lost
  BY DEF Remove, LiveTokens, Replaced, call, server
<1> QED BY <1>1 DEF Remove, G!Next, G!Remove

LEMMA StepMaps ==
    ASSUME IInv, [Next]_vars
    PROVE  [G!Next]_G!vars
<1>1. ASSUME NEW p \in Procs, FastRead(p) PROVE [G!Next]_G!vars
  BY <1>1, FastReadMaps
<1>2. ASSUME NEW p \in Procs, LockAndReread(p) PROVE [G!Next]_G!vars
  BY <1>2, LockAndRereadMaps
<1>3. ASSUME NEW p \in Procs, GiveUp(p) PROVE [G!Next]_G!vars
  BY <1>3, GiveUpMaps
<1>4. ASSUME NEW p \in Procs, Receive(p) PROVE [G!Next]_G!vars
  BY <1>4, ReceiveMaps
<1>5. ASSUME NEW p \in Procs, Timeout(p) PROVE [G!Next]_G!vars
  BY <1>5, TimeoutMaps
<1>6. ASSUME NEW p \in Procs, Commit(p) PROVE [G!Next]_G!vars
  BY <1>6, CommitMaps
<1>7. ASSUME NEW p \in Procs, Suspend(p) PROVE [G!Next]_G!vars
  BY <1>7, SuspendMaps
<1>8. ASSUME NEW p \in Procs, Die(p) PROVE [G!Next]_G!vars
  BY <1>8, DieMaps
<1>9. ASSUME NEW p \in Procs, Restart(p) PROVE [G!Next]_G!vars
  BY <1>9, RestartMaps
<1>10. ASSUME NEW p \in Procs, Answer(p) PROVE [G!Next]_G!vars
  BY <1>10, AnswerMaps
<1>11. ASSUME NEW t \in Tokens, Stray(t) PROVE [G!Next]_G!vars
  BY <1>11, StrayMaps
<1>12. CASE Expire
  BY <1>12, ExpireMaps
<1>13. CASE Replace
  BY <1>13, ReplaceMaps
<1>14. CASE Remove
  BY <1>14, RemoveMaps
<1>15. CASE UNCHANGED vars
  BY <1>15 DEF vars, G!vars, LiveTokens, Replaced
<1> QED BY <1>1, <1>2, <1>3, <1>4, <1>5, <1>6, <1>7, <1>8, <1>9, <1>10, <1>11, <1>12, <1>13,
           <1>14, <1>15 DEF Next, Step

LEMMA InitMaps == Init => G!Init
<1> SUFFICES ASSUME Init PROVE G!Init
  OBVIOUS
<1>1. 1 \in Tokens /\ LiveTokens = {1}
  BY DEF Init, Tokens, LiveTokens, Replaced
<1> QED BY <1>1 DEF Init, G!Init

\* However many processes refresh it, and whoever of them dies, stands still or is
\* replaced by a login, the stored credential is a register that rotates in one
\* step, from the token it was made of.
THEOREM RefreshImplementsRegister == Spec => RotatesAtomically
BY InitMaps, StepMaps, Always, PTL DEF Spec, G!Spec, RotatesAtomically

=============================================================================
