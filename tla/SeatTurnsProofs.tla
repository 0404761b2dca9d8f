-------------------------- MODULE SeatTurnsProofs ---------------------------
(***************************************************************************)
(* For any providers in any order, any keys, and any number of sentinels   *)
(* under way: a turn that was let live rides its own sync, and only a      *)
(* failure of its own provider aborts it.                                  *)
(***************************************************************************)
EXTENDS SeatTurns, TLAPS

Well == {"applied", "builtin", "blocked"}

\* The loop has settled the providers before `at` and none from there on; while
\* the turn is alive, it has settled them well.
LoopInOrder ==
    phase = "sync" =>
      \A i \in DOMAIN Order :
         /\ i < at => status[Order[i]] # "none"
         /\ i < at /\ active # Nobody /\ ~ aborted => status[Order[i]] \in Well
         /\ i >= at => status[Order[i]] = "none"

\* A request is sent only when every provider has settled well.
RequestAfterLoop ==
    phase = "request" => \A p \in Providers : status[p] \in Well

\* A key in Pi's runtime is known to be the coordinator's own, or about to be,
\* so that nothing else than its removal lets Pi's own login through; or the
\* history has it down as one that nobody answers for.
Owned ==
    \A p \in Providers :
       overlay[p] \in Keys => overlayActive[p] \/ p \in orphaned \/ (At("verify") /\ Current = p)

\* Between a call to Pi and what follows it.
BetweenCalls ==
    /\ At("removed") => overlay[Current] \notin Keys
    /\ At("read back") /\ sound => overlay[Current] = Sentinel

Vouching == \A p \in Providers : status[p] \in Well => overlay[p] \in Vouched(p)

BegunAlive == phase = "begun" => ~ aborted

FewPoisons == \A p \in Providers : poison[p] + unmarked[p] <= MaxPoison

IInv == /\ TypeOK
        /\ LoopInOrder
        /\ RequestAfterLoop
        /\ Owned
        /\ BetweenCalls
        /\ Vouching
        /\ BegunAlive
        /\ FewPoisons
        /\ OnlyItsOwnFailureAborts

-----------------------------------------------------------------------------

LEMMA OrderFacts == /\ Len(Order) \in Nat
                    /\ 1 \in DOMAIN Order
                    /\ \A i \in DOMAIN Order :
                          /\ i \in Nat /\ 1 <= i /\ i <= Len(Order)
                          /\ i < Len(Order) => i + 1 \in DOMAIN Order
                          /\ Order[i] \in Providers
BY TurnsAssumption

LEMMA ConstantsApart == None \notin Keys /\ Sentinel \notin Keys /\ None # Sentinel /\ MaxPoison \in Nat
BY TurnsAssumption

\* Counting one provider's sentinels up or down leaves the others' alone.
LEMMA Counting ==
    ASSUME NEW f \in [Providers -> 0..MaxPoison], NEW p \in Providers, NEW n \in 0..MaxPoison
    PROVE  /\ [f EXCEPT ![p] = n] \in [Providers -> 0..MaxPoison]
           /\ [f EXCEPT ![p] = n][p] = n
           /\ \A q \in Providers \ {p} : [f EXCEPT ![p] = n][q] = f[q]
OBVIOUS

LEMMA PoisonCounts ==
    ASSUME TypeOK, FewPoisons, NEW p \in Providers
    PROVE  /\ poison[p] \in Nat /\ unmarked[p] \in Nat /\ poison[p] + unmarked[p] <= MaxPoison
           /\ poison[p] > 0 => poison[p] - 1 \in 0..MaxPoison
           /\ unmarked[p] > 0 => unmarked[p] - 1 \in 0..MaxPoison
           /\ poison[p] + unmarked[p] < MaxPoison => poison[p] + 1 \in 0..MaxPoison
           /\ poison[p] > 0 => unmarked[p] + 1 \in 0..MaxPoison
<1>1. poison[p] \in 0..MaxPoison /\ unmarked[p] \in 0..MaxPoison
      /\ poison[p] + unmarked[p] <= MaxPoison
  BY DEF TypeOK, FewPoisons
<1> QED BY <1>1, ConstantsApart

LEMMA CurrentProvider ==
    ASSUME TypeOK
    PROVE  /\ Current \in Providers
           /\ at \in DOMAIN Order /\ at \in Nat /\ at <= Len(Order)
           /\ at < Len(Order) => at + 1 \in DOMAIN Order
BY OrderFacts DEF TypeOK, Current

LEMMA CurrentUnsettled ==
    ASSUME TypeOK, LoopInOrder, phase = "sync"
    PROVE  status[Current] = "none"
BY CurrentProvider DEF LoopInOrder, Current

LEMMA InitIInv == Init => IInv
<1> SUFFICES ASSUME Init PROVE IInv
  OBVIOUS
<1>1. TypeOK
  <2>1. 1 \in DOMAIN Order /\ 0 \in 0..MaxPoison /\ None \in Models
    BY OrderFacts, TurnsAssumption DEF Models
  <2> QED BY <2>1 DEF Init, TypeOK, Phases, Steps, Statuses
<1>2. FewPoisons
  <2>1. 0 + 0 <= MaxPoison
    BY TurnsAssumption
  <2> QED BY <2>1 DEF Init, FewPoisons
<1>3. Owned /\ Vouching /\ OnlyItsOwnFailureAborts
  BY TurnsAssumption DEF Init, Owned, Vouching, Well, OnlyItsOwnFailureAborts
<1>4. LoopInOrder /\ RequestAfterLoop /\ BetweenCalls /\ BegunAlive
  BY DEF Init, LoopInOrder, RequestAfterLoop, BetweenCalls, BegunAlive, At
<1> QED BY <1>1, <1>2, <1>3, <1>4 DEF IInv

-----------------------------------------------------------------------------
(* The loop over the providers.                                            *)

\* What a step of the loop leaves alone, and what it may do to its provider.
OwnBusiness == /\ \A p \in Providers \ {Current} : /\ key'[p] = key[p]
                                                   /\ overlay'[p] = overlay[p]
                                                   /\ overlayActive'[p] = overlayActive[p]
                                                   /\ p \in orphaned' <=> p \in orphaned
               /\ orphaned' \subseteq Providers
               /\ key' \in [Providers -> Keys \union {None}]
               /\ overlay' \in [Providers -> Keys \union {Sentinel, None}]
               /\ overlayActive' \in [Providers -> BOOLEAN]
               /\ poison' \in [Providers -> 0..MaxPoison]
               /\ FewPoisons'
               /\ UNCHANGED <<given, model, unmarked>>

\* The loop goes on with the same provider.
LEMMA ContinueStep ==
    ASSUME IInv, phase = "sync", OwnBusiness, NEW s \in Steps, Continue(s),
           overlay'[Current] \in Keys =>
              overlayActive'[Current] \/ Current \in orphaned' \/ s = "verify",
           s = "removed" => overlay'[Current] \notin Keys,
           s = "read back" /\ sound => overlay'[Current] = Sentinel
    PROVE  IInv'
<1> USE DEF IInv
<1>1. Current \in Providers /\ Current' = Current /\ phase' = "sync" /\ step' = s
  BY CurrentProvider DEF Continue, turn, Current
<1>2. status[Current] = "none"
  BY CurrentUnsettled
<1>3. TypeOK'
  BY DEF TypeOK, OwnBusiness, Continue, turn, given
<1>4. LoopInOrder' /\ RequestAfterLoop'
  BY DEF LoopInOrder, RequestAfterLoop, Continue, turn
<1>5. Owned'
  BY <1>1 DEF Owned, OwnBusiness, At
<1>6. BetweenCalls'
  BY <1>1 DEF BetweenCalls, OwnBusiness, At, given
<1>7. Vouching'
  <2>1. SUFFICES ASSUME NEW p \in Providers, status[p] \in Well
                 PROVE  overlay'[p] \in Vouched(p)'
    BY DEF Vouching, Continue
  <2>2. p # Current
    BY <1>2, <2>1 DEF Well
  <2> QED BY <2>1, <2>2 DEF Vouching, Vouched, OwnBusiness, Continue
<1>8. BegunAlive' /\ OnlyItsOwnFailureAborts' /\ FewPoisons'
  BY DEF BegunAlive, OnlyItsOwnFailureAborts, OwnBusiness, Continue, turn, given
<1> QED BY <1>3, <1>4, <1>5, <1>6, <1>7, <1>8

\* The loop settles its provider: well, with what the overlay then holds, or
\* with an abort that counts.
LEMMA SettleStep ==
    ASSUME IInv, phase = "sync", OwnBusiness,
           NEW s \in Statuses, NEW abort \in BOOLEAN, Settle(s, abort),
           (s \in Well /\ ~ abort) \/ (s = "aborted" /\ abort),
           overlay'[Current] \in Keys => overlayActive'[Current] \/ Current \in orphaned',
           s = "applied" => overlay'[Current] = key'[Current],
           s = "builtin" => overlay'[Current] \notin Keys \/ Current \in orphaned',
           s = "blocked" => overlay'[Current] = Sentinel,
           abort /\ sound => active \in {Everyone, Current, Nobody}
    PROVE  IInv'
<1> USE DEF IInv
<1>1. /\ Current \in Providers /\ status[Current] = "none"
      /\ status' = [status EXCEPT ![Current] = s] /\ status'[Current] = s
      /\ active' = active /\ target' = target
      /\ aborted' = (aborted \/ (abort /\ active # Nobody))
      /\ (~ aborted' => ~ aborted /\ (active # Nobody => ~ abort))
      /\ step' = "resolve"
  BY CurrentProvider, CurrentUnsettled DEF TypeOK, Settle
<1>2. \/ at < Len(Order) /\ at' = at + 1 /\ phase' = "sync"
      \/ /\ at = Len(Order) /\ at' = 1
         /\ \/ phase' = "request" /\ active # Nobody /\ ~ aborted'
            \/ phase' = "idle"
  BY CurrentProvider, OrderFacts DEF Settle
<1>3. TypeOK'
  BY <1>1, <1>2, CurrentProvider, OrderFacts DEF TypeOK, OwnBusiness, given, Phases, Steps
<1>4. \A i \in DOMAIN Order :
         /\ i < at => status'[Order[i]] = status[Order[i]]
         /\ i > at => status'[Order[i]] = status[Order[i]]
         /\ i = at => status'[Order[i]] = s
  <2>1. \A i \in DOMAIN Order : i # at => Order[i] # Current
    BY CurrentProvider, TurnsAssumption DEF Current
  <2>2. \A p \in Providers : p # Current => status'[p] = status[p]
    BY <1>1 DEF TypeOK
  <2>3. \A i \in DOMAIN Order : i # at => status'[Order[i]] = status[Order[i]]
    BY <2>1, <2>2, OrderFacts
  <2> QED BY <1>1, <2>3, CurrentProvider, OrderFacts DEF Current
<1>5. \A i \in DOMAIN Order :
         /\ i <= at => status'[Order[i]] # "none"
         /\ i <= at /\ active # Nobody /\ ~ aborted' => status'[Order[i]] \in Well
         /\ i > at => status'[Order[i]] = "none"
  <2>1. SUFFICES ASSUME NEW i \in DOMAIN Order
                 PROVE  /\ i <= at => status'[Order[i]] # "none"
                        /\ i <= at /\ active # Nobody /\ ~ aborted' => status'[Order[i]] \in Well
                        /\ i > at => status'[Order[i]] = "none"
    OBVIOUS
  <2>2. i \in Nat /\ at \in Nat
    BY CurrentProvider, OrderFacts
  <2>3. CASE i < at
    BY <1>1, <1>4, <2>2, <2>3 DEF LoopInOrder
  <2>4. CASE i = at
    BY <1>1, <1>4, <2>2, <2>4 DEF Well
  <2>5. CASE i > at
    BY <1>4, <2>2, <2>5 DEF LoopInOrder
  <2> QED BY <2>2, <2>3, <2>4, <2>5
<1>6. LoopInOrder'
  BY <1>1, <1>2, <1>5, CurrentProvider, OrderFacts DEF LoopInOrder
<1>7. RequestAfterLoop'
  <2>1. SUFFICES ASSUME phase' = "request", NEW p \in Providers
                 PROVE  status'[p] \in Well
    BY DEF RequestAfterLoop
  <2>2. PICK i \in DOMAIN Order : Order[i] = p
    BY TurnsAssumption
  <2>3. i <= at /\ active # Nobody /\ ~ aborted'
    BY <1>2, <2>1, <2>2, OrderFacts
  <2> QED BY <1>5, <2>2, <2>3
<1>8. Owned' /\ BetweenCalls'
  <2>1. \A p \in Providers : overlay'[p] \in Keys => overlayActive'[p] \/ p \in orphaned'
    BY DEF Owned, OwnBusiness
  <2> QED BY <1>1, <2>1 DEF Owned, BetweenCalls, At
<1>9. Vouching'
  <2>1. SUFFICES ASSUME NEW p \in Providers, status'[p] \in Well
                 PROVE  overlay'[p] \in Vouched(p)'
    BY DEF Vouching
  <2>2. CASE p = Current
    BY <1>1, <2>1, <2>2 DEF Vouched, Well, TypeOK, OwnBusiness
  <2>3. CASE p # Current
    BY <1>1, <2>1, <2>3 DEF Vouched, Vouching, OwnBusiness, TypeOK
  <2> QED BY <2>2, <2>3
<1>10. OnlyItsOwnFailureAborts'
  <2>1. SUFFICES ASSUME startup = "ready", sound, aborted', active # Everyone
                 PROVE  active \in Providers /\ status'[active] = "aborted"
    BY <1>1 DEF OnlyItsOwnFailureAborts, OwnBusiness, given
  <2>2. CASE aborted
    BY <1>1, <2>1, <2>2 DEF OnlyItsOwnFailureAborts, TypeOK
  <2>3. CASE ~ aborted
    BY <1>1, <2>1, <2>3
  <2> QED BY <2>2, <2>3
<1>11. BegunAlive' /\ FewPoisons'
  BY <1>2 DEF BegunAlive, OwnBusiness
<1> QED BY <1>3, <1>6, <1>7, <1>8, <1>9, <1>10, <1>11

-----------------------------------------------------------------------------
(* One step per action of the loop.                                        *)

\* A step that leaves everything of the other providers alone.
LEMMA OnlyCurrent ==
    ASSUME IInv, UNCHANGED <<given, model, unmarked>>,
           key' = key \/ \E k \in Keys \union {None} : key' = [key EXCEPT ![Current] = k],
           \/ overlay' = overlay
           \/ \E k \in Keys \union {Sentinel, None} : overlay' = [overlay EXCEPT ![Current] = k],
           \/ overlayActive' = overlayActive
           \/ \E b \in BOOLEAN : overlayActive' = [overlayActive EXCEPT ![Current] = b],
           \/ poison' = poison
           \/ /\ poison[Current] + unmarked[Current] < MaxPoison
              /\ poison' = [poison EXCEPT ![Current] = @ + 1],
           orphaned' \in {orphaned, orphaned \union {Current}, orphaned \ {Current}}
    PROVE  OwnBusiness
<1> USE DEF IInv
<1>1. Current \in Providers
  BY CurrentProvider
<1>2. /\ key' \in [Providers -> Keys \union {None}]
      /\ \A p \in Providers \ {Current} : key'[p] = key[p]
  BY <1>1 DEF TypeOK
<1>3. /\ overlay' \in [Providers -> Keys \union {Sentinel, None}]
      /\ \A p \in Providers \ {Current} : overlay'[p] = overlay[p]
  BY <1>1 DEF TypeOK
<1>4. /\ overlayActive' \in [Providers -> BOOLEAN]
      /\ \A p \in Providers \ {Current} : overlayActive'[p] = overlayActive[p]
  BY <1>1 DEF TypeOK
<1>5. /\ poison' \in [Providers -> 0..MaxPoison]
      /\ FewPoisons'
  <2>1. CASE poison' = poison
    BY <2>1 DEF TypeOK, FewPoisons
  <2>2. CASE /\ poison[Current] + unmarked[Current] < MaxPoison
             /\ poison' = [poison EXCEPT ![Current] = @ + 1]
    <3>1. /\ poison' \in [Providers -> 0..MaxPoison]
          /\ poison'[Current] = poison[Current] + 1
          /\ \A p \in Providers \ {Current} : poison'[p] = poison[p]
      <4>1. poison[Current] + 1 \in 0..MaxPoison /\ poison \in [Providers -> 0..MaxPoison]
        BY <1>1, <2>2, PoisonCounts DEF TypeOK
      <4>2. poison' = [poison EXCEPT ![Current] = poison[Current] + 1]
        BY <2>2
      <4> QED BY <1>1, <4>1, <4>2, Counting
    <3>2. unmarked' = unmarked
      OBVIOUS
    <3>3. poison'[Current] + unmarked'[Current] <= MaxPoison
      BY <1>1, <2>2, <3>1, <3>2, PoisonCounts, ConstantsApart
    <3> QED BY <3>1, <3>2, <3>3 DEF FewPoisons
  <2> QED BY <2>1, <2>2
<1>6. orphaned' \subseteq Providers /\ \A p \in Providers \ {Current} : p \in orphaned' <=> p \in orphaned
  BY <1>1 DEF TypeOK
<1> QED BY <1>2, <1>3, <1>4, <1>5, <1>6 DEF OwnBusiness

\* FailClosed keeps the invariant wherever the key is accounted for.
LEMMA FailStep ==
    ASSUME IInv, phase = "sync", FailClosed, UNCHANGED <<given, model, unmarked>>,
           overlay' = overlay \/ \E k \in Keys \union {None} : overlay' = [overlay EXCEPT ![Current] = k],
           orphaned' \in {orphaned, orphaned \union {Current}, orphaned \ {Current}},
           key' = key \/ \E k \in Keys \union {None} : key' = [key EXCEPT ![Current] = k],
           \/ overlayActive' = overlayActive
           \/ \E b \in BOOLEAN : overlayActive' = [overlayActive EXCEPT ![Current] = b],
           overlay'[Current] \in Keys => overlayActive'[Current] \/ Current \in orphaned'
    PROVE  IInv'
<1>1. OwnBusiness
  BY OnlyCurrent DEF FailClosed
<1>2. CASE Fatal
  <2>1. Settle("aborted", TRUE) /\ active \in {Everyone, Current}
    BY <1>2 DEF FailClosed, Fatal
  <2> QED BY <1>1, <2>1, SettleStep DEF Statuses
<1>3. CASE ~ Fatal
  <2>1. Continue("sentinel")
    BY <1>3 DEF FailClosed
  <2> QED BY <1>1, <2>1, ContinueStep DEF Steps
<1> QED BY <1>2, <1>3

\* The overlay of the provider at hand is accounted for at every step but one.
LEMMA CurrentOwned ==
    ASSUME IInv, phase = "sync", step # "verify", overlay[Current] \in Keys
    PROVE  overlayActive[Current] \/ Current \in orphaned
BY CurrentProvider DEF IInv, Owned, At

LEMMA ResolveStep == ASSUME IInv, Resolve PROVE IInv'
<1> USE DEF At
<1>1. phase = "sync" /\ step = "resolve" /\ Current \in Providers
  BY CurrentProvider DEF Resolve, IInv
<1>2. ASSUME NEW k \in Keys, key' = [key EXCEPT ![Current] = k], Continue("set"), UNCHANGED poison
      PROVE  IInv'
  <2>1. OwnBusiness
    BY <1>2, OnlyCurrent DEF Resolve
  <2> QED BY <1>1, <1>2, <2>1, ContinueStep, CurrentOwned DEF Resolve, Steps
<1>3. CASE /\ key' = [key EXCEPT ![Current] = None]
           /\ IF overlayActive[Current] THEN Continue("remove") ELSE Settle("builtin", FALSE)
           /\ UNCHANGED poison
  <2>1. OwnBusiness
    BY <1>3, OnlyCurrent DEF Resolve
  <2>2. CASE overlayActive[Current]
    BY <1>1, <1>3, <2>1, <2>2, ContinueStep DEF Resolve, Steps
  <2>3. CASE ~ overlayActive[Current]
    <3>1. overlay[Current] \notin Keys \/ Current \in orphaned
      BY <1>1, <2>3, CurrentOwned
    <3> QED BY <1>1, <1>3, <2>1, <2>3, <3>1, SettleStep DEF Resolve, Statuses, Well
  <2> QED BY <2>2, <2>3
<1>4. CASE key' = [key EXCEPT ![Current] = None] /\ FailClosed
  BY <1>1, <1>4, FailStep, CurrentOwned DEF Resolve
<1> QED BY <1>2, <1>3, <1>4 DEF Resolve

\* What Pi holds after it was given a key.
LEMMA GivenKey ==
    ASSUME IInv, NEW p \in Providers, NEW k, overlay' \in Given(p, k)
    PROVE  /\ overlay' = overlay \/ overlay' = [overlay EXCEPT ![p] = k]
           /\ sound => overlay'[p] = k
BY DEF Given, IInv, TypeOK

LEMMA SetStep == ASSUME IInv, Set PROVE IInv'
<1> USE DEF At
<1>1. phase = "sync" /\ step = "set" /\ Current \in Providers
  BY CurrentProvider DEF Set, IInv
<1>2. CASE overlay' \in Given(Current, key[Current]) /\ Continue("verify") /\ UNCHANGED <<poison, orphaned>>
  <2>1. key[Current] \in Keys \union {Sentinel, None}
    BY <1>1 DEF IInv, TypeOK
  <2>2. OwnBusiness
    BY <1>1, <1>2, <2>1, GivenKey, OnlyCurrent DEF Set
  <2> QED BY <1>1, <1>2, <2>2, ContinueStep DEF Set, Steps
<1>3. CASE FailClosed /\ UNCHANGED <<overlay, orphaned>>
  BY <1>1, <1>3, FailStep, CurrentOwned DEF Set
<1>4. CASE /\ overlay' = [overlay EXCEPT ![Current] = key[Current]]
           /\ orphaned' = IF overlayActive[Current] THEN orphaned ELSE orphaned \union {Current}
           /\ FailClosed
  <2>1. key[Current] \in Keys \union {None}
    BY <1>1 DEF IInv, TypeOK
  <2>2. overlayActive'[Current] \/ Current \in orphaned'
    BY <1>1, <1>4 DEF Set
  <2> QED BY <1>1, <1>4, <2>1, <2>2, FailStep DEF Set
<1> QED BY <1>2, <1>3, <1>4 DEF Set

LEMMA VerifyStep == ASSUME IInv, Verify PROVE IInv'
<1> USE DEF At
<1>1. /\ phase = "sync" /\ step = "verify" /\ Current \in Providers
      /\ overlayActive' = [overlayActive EXCEPT ![Current] = TRUE] /\ overlayActive'[Current]
  BY CurrentProvider DEF Verify, IInv, TypeOK
<1>2. CASE Retained(key[Current])
  <2>1. OwnBusiness
    BY <1>1, <1>2, OnlyCurrent DEF Verify, Answered
  <2> QED BY <1>1, <1>2, <2>1, SettleStep DEF Verify, Retained, Statuses, Well
<1>3. CASE ~ Retained(key[Current])
  BY <1>1, <1>3, FailStep DEF Verify, Answered
<1> QED BY <1>2, <1>3

LEMMA RemoveStep == ASSUME IInv, Remove PROVE IInv'
<1> USE DEF At
<1>1. phase = "sync" /\ step = "remove" /\ Current \in Providers
  BY CurrentProvider DEF Remove, IInv
<1>2. CASE overlay' = [overlay EXCEPT ![Current] = None] /\ Continue("removed") /\ UNCHANGED poison
  <2>1. OwnBusiness
    <3>1. \E k \in Keys \union {Sentinel, None} : overlay' = [overlay EXCEPT ![Current] = k]
      BY <1>2
    <3> QED BY <1>2, <3>1, OnlyCurrent DEF Remove
  <2>2. overlay'[Current] = None /\ None \notin Keys
    BY <1>1, <1>2, ConstantsApart DEF IInv, TypeOK
  <2> QED BY <1>1, <1>2, <2>1, <2>2, ContinueStep DEF Remove, Steps
<1>3. CASE FailClosed /\ UNCHANGED overlay
  BY <1>1, <1>3, FailStep, CurrentOwned DEF Remove
<1> QED BY <1>2, <1>3 DEF Remove

LEMMA RemovedStep == ASSUME IInv, Removed PROVE IInv'
<1>1. phase = "sync" /\ overlay[Current] \notin Keys
  BY DEF Removed, At, IInv, BetweenCalls
<1>2. OwnBusiness
  BY OnlyCurrent DEF Removed, Answered
<1> QED BY <1>1, <1>2, SettleStep DEF Removed, Statuses, Well

LEMMA SetSentinelStep == ASSUME IInv, SetSentinel PROVE IInv'
<1> USE DEF At
<1>1. phase = "sync" /\ step = "sentinel" /\ Current \in Providers
  BY CurrentProvider DEF SetSentinel, IInv
<1>2. CASE overlay' \in Given(Current, Sentinel) /\ Continue("read back")
  <2>1. /\ overlay' = overlay \/ overlay' = [overlay EXCEPT ![Current] = Sentinel]
        /\ sound => overlay'[Current] = Sentinel
    BY <1>1, <1>2, GivenKey
  <2>2. OwnBusiness
    BY <2>1, OnlyCurrent DEF SetSentinel
  <2>3. overlay'[Current] \in Keys => overlayActive'[Current] \/ Current \in orphaned'
    BY <1>1, <2>1, CurrentOwned, ConstantsApart DEF SetSentinel, IInv, TypeOK
  <2> QED BY <1>1, <1>2, <2>1, <2>2, <2>3, ContinueStep DEF Steps
<1>3. CASE ~ sound /\ Escalate /\ UNCHANGED overlay
  <2>1. OwnBusiness
    BY <1>3, OnlyCurrent DEF SetSentinel
  <2> QED BY <1>1, <1>3, <2>1, SettleStep, CurrentOwned DEF SetSentinel, Escalate, Statuses
<1> QED BY <1>2, <1>3 DEF SetSentinel

LEMMA ReadBackStep == ASSUME IInv, ReadBack PROVE IInv'
<1> USE DEF At
<1>1. /\ phase = "sync" /\ step = "read back" /\ Current \in Providers
      /\ overlayActive'[Current]
  BY CurrentProvider DEF ReadBack, IInv, TypeOK
<1>2. OwnBusiness
  BY OnlyCurrent DEF ReadBack, Answered
<1>3. CASE Retained(Sentinel)
  BY <1>1, <1>2, <1>3, SettleStep DEF ReadBack, Retained, Statuses, Well
<1>4. CASE ~ Retained(Sentinel)
  <2>1. ~ sound
    BY <1>1, <1>4 DEF IInv, BetweenCalls, Retained
  <2> QED BY <1>1, <1>2, <1>4, <2>1, SettleStep DEF ReadBack, Escalate, Statuses
<1> QED BY <1>3, <1>4

-----------------------------------------------------------------------------
(* One step per event of the session, and per sentinel.                    *)

\* Outside of the loop, when nothing has been promised of the statuses but what
\* the last sync left, only the phase and the policy change.
LEMMA EventStep ==
    ASSUME IInv, TypeOK', UNCHANGED <<sound, sync, key, runtime>>, phase # "sync",
           \/ phase' # "sync" /\ status' = status
           \/ phase' = "sync" /\ status' = [p \in Providers |-> "none"],
           phase' = "request" => phase = "request",
           phase' = "begun" => ~ aborted',
           startup' = "ready" /\ aborted' => aborted /\ active' = active /\ status' = status /\ startup = startup'
    PROVE  IInv'
<1> USE DEF IInv
<1>1. at = 1 /\ step = "resolve"
  BY DEF TypeOK
<1>2. LoopInOrder'
  BY <1>1, OrderFacts DEF LoopInOrder, sync
<1>3. RequestAfterLoop' /\ BegunAlive' /\ OnlyItsOwnFailureAborts'
  BY DEF RequestAfterLoop, BegunAlive, OnlyItsOwnFailureAborts
<1>4. Owned' /\ BetweenCalls' /\ FewPoisons'
  BY <1>1 DEF Owned, BetweenCalls, FewPoisons, At, sync, runtime
<1>5. Vouching'
  BY DEF Vouching, Vouched, Well, runtime
<1> QED BY <1>2, <1>3, <1>4, <1>5

LEMMA SessionStep == ASSUME IInv, Session PROVE IInv'
<1> USE DEF IInv
<1>1. TypeOK'
  BY DEF Session, SessionStart, TurnBegin, TurnStart, Request, SyncAll, ActiveProvider,
         TypeOK, Models, Phases, Statuses, given, turn, sync, results, runtime
<1>2. CASE SessionStart
  BY <1>1, <1>2, EventStep DEF SessionStart, SyncAll, given, sync, results, runtime
<1>3. CASE TurnBegin
  BY <1>1, <1>3, EventStep DEF TurnBegin, given, sync, results, runtime
<1>4. CASE TurnStart
  BY <1>1, <1>4, EventStep DEF TurnStart, SyncAll, BegunAlive, given, sync, results, runtime
<1>5. CASE Request
  BY <1>1, <1>5, EventStep DEF Request, given, sync, results, runtime
<1> QED BY <1>2, <1>3, <1>4, <1>5 DEF Session

\* The rest of the world changes nothing that the invariant mentions.
LEMMA IdleStep ==
    ASSUME IInv, model' \in Models, UNCHANGED <<given, turn, sync, results, runtime>>
    PROVE  IInv'
<1> USE DEF IInv, given, turn, sync, results, runtime
<1>1. TypeOK' /\ LoopInOrder' /\ RequestAfterLoop' /\ FewPoisons'
  BY DEF TypeOK, LoopInOrder, RequestAfterLoop, FewPoisons
<1>2. Owned' /\ BetweenCalls' /\ BegunAlive'
  BY DEF Owned, BetweenCalls, BegunAlive, At, Current
<1>3. Vouching' /\ OnlyItsOwnFailureAborts'
  BY DEF Vouching, Vouched, OnlyItsOwnFailureAborts
<1> QED BY <1>1, <1>2, <1>3

\* A sentinel that lands, or is accounted for, changes no key.
LEMMA SentinelStep ==
    ASSUME IInv, TypeOK', FewPoisons', NEW p \in Providers,
           UNCHANGED <<given, model, turn, sync, results, orphaned>>,
           overlay' = overlay \/ overlay' = [overlay EXCEPT ![p] = Sentinel],
           overlayActive' = overlayActive \/ overlayActive' = [overlayActive EXCEPT ![p] = TRUE]
    PROVE  IInv'
<1> USE DEF IInv, given, turn, sync, results
<1>1. \A q \in Providers : overlay'[q] = overlay[q] \/ overlay'[q] = Sentinel
  BY DEF TypeOK
<1>2. \A q \in Providers : overlayActive[q] => overlayActive'[q]
  BY DEF TypeOK
<1>3. LoopInOrder' /\ RequestAfterLoop' /\ BegunAlive' /\ OnlyItsOwnFailureAborts'
  BY DEF LoopInOrder, RequestAfterLoop, BegunAlive, OnlyItsOwnFailureAborts
<1>4. Owned' /\ BetweenCalls'
  <2>1. Current' = Current /\ Current \in Providers
    BY CurrentProvider DEF Current
  <2> QED BY <1>1, <1>2, <2>1, ConstantsApart DEF Owned, BetweenCalls, At
<1>5. Vouching'
  BY <1>1 DEF Vouching, Vouched
<1> QED BY <1>3, <1>4, <1>5

LEMMA LandStep == ASSUME IInv, NEW p \in Providers, Land(p) PROVE IInv'
<1> USE DEF IInv
<1>1. overlay' = overlay \/ overlay' = [overlay EXCEPT ![p] = Sentinel]
  BY GivenKey DEF Land
<1>2. /\ poison' \in [Providers -> 0..MaxPoison] /\ poison'[p] = poison[p] - 1
      /\ \A q \in Providers \ {p} : poison'[q] = poison[q]
  BY PoisonCounts, Counting DEF Land, TypeOK
<1>3. /\ unmarked' \in [Providers -> 0..MaxPoison] /\ unmarked'[p] \in {unmarked[p], unmarked[p] + 1}
      /\ \A q \in Providers \ {p} : unmarked'[q] = unmarked[q]
  <2>1. CASE unmarked' = unmarked
    BY <2>1 DEF TypeOK
  <2>2. CASE unmarked' = [unmarked EXCEPT ![p] = @ + 1]
    BY <2>2, PoisonCounts, Counting DEF Land, TypeOK
  <2> QED BY <2>1, <2>2 DEF Land
<1>4. FewPoisons'
  <2>1. poison'[p] + unmarked'[p] <= MaxPoison
    BY <1>2, <1>3, PoisonCounts, ConstantsApart
  <2> QED BY <1>2, <1>3, <2>1 DEF FewPoisons
<1>5. TypeOK'
  BY <1>1, <1>2, <1>3 DEF Land, TypeOK, given, turn, sync, results
<1> QED BY <1>1, <1>4, <1>5, SentinelStep DEF Land

LEMMA MarkStep == ASSUME IInv, NEW p \in Providers, Mark(p) PROVE IInv'
<1> USE DEF IInv
<1>1. /\ unmarked' \in [Providers -> 0..MaxPoison] /\ unmarked'[p] = unmarked[p] - 1
      /\ \A q \in Providers \ {p} : unmarked'[q] = unmarked[q]
  BY PoisonCounts, Counting DEF Mark, TypeOK
<1>2. FewPoisons'
  <2>1. poison'[p] + unmarked'[p] <= MaxPoison
    BY <1>1, PoisonCounts, ConstantsApart DEF Mark
  <2> QED BY <1>1, <2>1 DEF FewPoisons, Mark
<1>3. TypeOK'
  BY <1>1 DEF Mark, TypeOK, given, turn, sync, results
<1> QED BY <1>2, <1>3, SentinelStep DEF Mark

LEMMA StepIInv == IInv /\ [Next]_vars => IInv'
<1> SUFFICES ASSUME IInv, [Next]_vars PROVE IInv'
  OBVIOUS
<1>1. ASSUME NEW m \in Models, SwitchModel(m) PROVE IInv'
  BY <1>1, IdleStep DEF SwitchModel
<1>2. CASE Session
  BY <1>2, SessionStep
<1>3. CASE SyncProvider
  BY <1>3, ResolveStep, SetStep, VerifyStep, RemoveStep, RemovedStep, SetSentinelStep,
     ReadBackStep DEF SyncProvider
<1>4. ASSUME NEW p \in Providers, Land(p) \/ Mark(p) PROVE IInv'
  BY <1>4, LandStep, MarkStep
<1>5. CASE UNCHANGED vars
  BY <1>5, IdleStep DEF vars, IInv, TypeOK
<1> QED BY <1>1, <1>2, <1>3, <1>4, <1>5 DEF Next

-----------------------------------------------------------------------------
(* The theorems.                                                           *)

THEOREM Invariance == Spec => []IInv
BY InitIInv, StepIInv, PTL DEF Spec

\* Every reachable state of a session's turns is typed.
THEOREM TurnsTypeCorrect == Spec => []TypeOK
BY Invariance, PTL DEF IInv

\* No turn and no command between turns rides a key that its sync did not verify.
THEOREM CallsAlwaysVouched == Spec => []CallsRideTheLastSync
<1>1. IInv => CallsRideTheLastSync
  <2> SUFFICES ASSUME IInv PROVE CallsRideTheLastSync
    OBVIOUS
  <2>1. phase = "request" /\ target \in Providers => overlay[target] \in Vouched(target)
    BY DEF IInv, RequestAfterLoop, Vouching
  <2>2. \A p \in Providers : status[p] \notin {"none", "aborted"} => overlay[p] \in Vouched(p)
    BY DEF IInv, Vouching, Well, TypeOK, Statuses
  <2> QED BY <2>1, <2>2 DEF CallsRideTheLastSync
<1> QED BY <1>1, Invariance, PTL

\* With a Pi that keeps its word, only a turn's own provider costs the turn.
THEOREM AbortsAreOwn == Spec => []OnlyItsOwnFailureAborts
BY Invariance, PTL DEF IInv

=============================================================================
