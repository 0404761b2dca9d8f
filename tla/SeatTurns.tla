----------------------------- MODULE SeatTurns ------------------------------
(***************************************************************************)
(* A session's turns over all its providers: session_start and turn_start  *)
(* synchronise one provider after the other, and only a failure of the     *)
(* provider that the turn runs on may abort it.  Which one that is, the    *)
(* handler takes from the session's current model; the turn's request goes *)
(* to the model that was current when the turn began, and anything may     *)
(* switch models in between.                                               *)
(*                                                                         *)
(* What the store makes of a provider (a key, Pi's own login, a failure)   *)
(* is chosen anew at every sync: SeatAuth has the inside of it, for one    *)
(* provider.  Pi is external: it stores a key, or refuses it, or says that *)
(* it stored it and did not.                                               *)
(***************************************************************************)
EXTENDS Naturals, Sequences

CONSTANTS
    Providers,   \* the providers that seat knows
    Order,       \* PROVIDER_IDS
    Keys,        \* request keys that the store's credentials yield
    Other,       \* the provider of a model that is none of seat's business
    Sentinel,    \* SEAT_SENTINEL_API_KEY
    None,
    MaxPoison    \* bound: sentinels under way for one provider

Everyone == "everyone"      \* the policy when the active model is unknown
Nobody == "nobody"          \* ... and when there is no turn to abort

ASSUME TurnsAssumption ==
    /\ Order \in Seq(Providers) /\ Order # <<>>
    /\ \A p \in Providers : \E i \in DOMAIN Order : Order[i] = p
    /\ \A i, j \in DOMAIN Order : Order[i] = Order[j] => i = j
    /\ Sentinel \notin Keys /\ None \notin Keys \union {Sentinel} \union Providers
    /\ Other \notin Providers \union {None}
    /\ Everyone \notin Providers \union {Other} /\ Nobody \notin Providers \union {Other}
    /\ MaxPoison \in Nat

VARIABLES
    startup,        \* how the extension came up, for the whole session
    sound,          \* Pi's runtime keeps its word, for the whole session
    model,          \* the provider of ctx.model, None if there is no telling
    phase,          \* what the session is doing
    target,         \* the provider that the turn's request goes to
    active,         \* the policy of the sync: whose failure is fatal
    at, step,       \* which provider it is at, and where
    key,            \* what each provider's last sync resolved it to
    status,         \* and how that sync ended
    aborted,        \* ctx.abort() was called in this turn
    overlay,        \* the runtime key that Pi holds for each provider
    overlayActive,  \* the coordinator believes that it is its own
    poison,         \* un-awaited sentinels that are not yet there ...
    unmarked,       \* ... and those that are, unknown to the coordinator
    orphaned        \* history: providers whose key nobody answers for

given == <<startup, sound>>
turn == <<phase, target, active, aborted>>
sync == <<at, step>>
results == <<key, status>>
runtime == <<overlay, overlayActive, poison, unmarked, orphaned>>
vars == <<given, model, turn, sync, results, runtime>>

-----------------------------------------------------------------------------

Models == Providers \union {Other, None}
Phases == {"off", "idle", "begun", "sync", "request"}
Steps == {"resolve", "set", "verify", "remove", "removed", "sentinel", "read back"}
Statuses == {"none", "applied", "builtin", "blocked", "aborted"}

TypeOK == /\ startup \in {"ready", "error", "no overlay"}
          /\ sound \in BOOLEAN
          /\ model \in Models
          /\ phase \in Phases
          /\ target \in Models
          /\ active \in Providers \union {Other, Everyone, Nobody}
          /\ at \in DOMAIN Order
          /\ step \in Steps
          /\ key \in [Providers -> Keys \union {None}]
          /\ status \in [Providers -> Statuses]
          /\ aborted \in BOOLEAN
          /\ overlay \in [Providers -> Keys \union {Sentinel, None}]
          /\ overlayActive \in [Providers -> BOOLEAN]
          /\ poison \in [Providers -> 0..MaxPoison]
          /\ unmarked \in [Providers -> 0..MaxPoison]
          /\ orphaned \subseteq Providers
          /\ phase # "sync" => at = 1 /\ step = "resolve"

Init == /\ startup \in {"ready", "error", "no overlay"}
        /\ sound \in BOOLEAN
        /\ model \in Models
        /\ phase = "off"
        /\ target = None
        /\ active = Nobody
        /\ at = 1 /\ step = "resolve"
        /\ key = [p \in Providers |-> None]
        /\ status = [p \in Providers |-> "none"]
        /\ aborted = FALSE
        /\ overlay = [p \in Providers |-> None]
        /\ overlayActive = [p \in Providers |-> FALSE]
        /\ poison = [p \in Providers |-> 0]
        /\ unmarked = [p \in Providers |-> 0]
        /\ orphaned = {}

-----------------------------------------------------------------------------
(* The events of a session.                                                *)

\* A user, an RPC client or another extension, at any time.
SwitchModel(m) ==
    /\ model' = m
    /\ UNCHANGED <<given, turn, sync, results, runtime>>

SyncAll(policy) ==
    /\ phase' = "sync"
    /\ active' = policy
    /\ status' = [p \in Providers |-> "none"]
    /\ UNCHANGED <<sync, key>>

\* session_start applies the overlays before there is a turn to abort, unless
\* the extension did not come up; the first turn reports that.
SessionStart ==
    /\ phase \in {"off", "idle"}
    /\ target' = None
    /\ aborted' = FALSE
    /\ IF startup = "ready" THEN SyncAll(Nobody)
       ELSE phase' = "idle" /\ UNCHANGED <<active, sync, results>>
    /\ UNCHANGED <<given, model, runtime>>

\* Pi: a turn begins, with the model that is current by now.
TurnBegin ==
    /\ phase = "idle"
    /\ model # None
    /\ phase' = "begun"
    /\ target' = model
    /\ aborted' = FALSE
    /\ UNCHANGED <<given, model, active, sync, results, runtime>>

\* Bug: a model that cannot be told is a provider like any other.
ModelAsItIs == model

ActiveProvider == IF model = None THEN Everyone ELSE model

\* turn_start.
TurnStart ==
    /\ phase = "begun"
    /\ IF startup = "ready"
       THEN SyncAll(ActiveProvider) /\ UNCHANGED aborted
       ELSE /\ aborted' = TRUE
            /\ phase' = "idle"
            /\ UNCHANGED <<active, sync, results>>
    /\ UNCHANGED <<given, model, target, runtime>>

\* Pi: the request of a turn that was let live has gone out.
Request ==
    /\ phase = "request"
    /\ phase' = "idle"
    /\ UNCHANGED <<given, model, target, active, aborted, sync, results, runtime>>

-----------------------------------------------------------------------------
(* syncProvider, for the provider the loop is at.                          *)

\* What Pi may hold for p once it has returned from being given k.
Given(p, k) == {[overlay EXCEPT ![p] = k]} \union (IF sound THEN {} ELSE {overlay})

At(s) == phase = "sync" /\ step = s
Current == Order[at]

Continue(s) == step' = s /\ UNCHANGED <<at, turn, status>>

Settle(s, abort) ==
    /\ status' = [status EXCEPT ![Current] = s]
    /\ step' = "resolve"
    /\ aborted' = (aborted \/ (abort /\ active # Nobody))
    /\ IF at < Len(Order)
       THEN at' = at + 1 /\ UNCHANGED phase
       ELSE /\ at' = 1
            /\ phase' = IF active # Nobody /\ ~ aborted' THEN "request" ELSE "idle"
    /\ UNCHANGED <<target, active>>

\* Bug: any failure is fatal.
AnyFailure == active # Nobody

Fatal == active \in {Everyone, Current}

\* The abort comes first, and leaves the sentinel to itself; or nothing is
\* decided before the sentinel is.
FailClosed ==
    IF Fatal
    THEN /\ poison[Current] + unmarked[Current] < MaxPoison
         /\ poison' = [poison EXCEPT ![Current] = @ + 1]
         /\ Settle("aborted", TRUE)
    ELSE Continue("sentinel") /\ UNCHANGED poison

\* The history forgets a key once the coordinator answers for the overlay.
Answered == orphaned' = orphaned \ {Current}

\* What the store makes of the provider.
Resolve ==
    /\ At("resolve")
    /\ \/ \E k \in Keys : /\ key' = [key EXCEPT ![Current] = k]
                          /\ Continue("set")
                          /\ UNCHANGED poison
       \/ /\ key' = [key EXCEPT ![Current] = None]
          /\ IF overlayActive[Current] THEN Continue("remove") ELSE Settle("builtin", FALSE)
          /\ UNCHANGED poison
       \/ /\ key' = [key EXCEPT ![Current] = None]
          /\ FailClosed
    /\ UNCHANGED <<given, model, overlay, overlayActive, unmarked, orphaned>>

\* The sockets of the former identity are closed, which may fail, and the key is
\* handed to Pi, which may refuse it; or Pi stores it and seat's availability check
\* fails behind it, for want of the store.
Set ==
    /\ At("set")
    /\ \/ /\ overlay' \in Given(Current, key[Current])
          /\ Continue("verify")
          /\ UNCHANGED <<poison, orphaned>>
       \/ FailClosed /\ UNCHANGED <<overlay, orphaned>>
       \/ /\ overlay' = [overlay EXCEPT ![Current] = key[Current]]
          /\ orphaned' = IF overlayActive[Current] THEN orphaned ELSE orphaned \union {Current}
          /\ FailClosed
    /\ UNCHANGED <<given, model, key, overlayActive, unmarked>>

Retained(k) == overlay[Current] = k

Verify ==
    /\ At("verify")
    /\ overlayActive' = [overlayActive EXCEPT ![Current] = TRUE]
    /\ Answered
    /\ IF Retained(key[Current]) THEN Settle("applied", FALSE) /\ UNCHANGED poison
       ELSE FailClosed
    /\ UNCHANGED <<given, model, key, overlay, unmarked>>

\* An overlay of ours is removed when nothing is selected any more.
Remove ==
    /\ At("remove")
    /\ \/ /\ overlay' = [overlay EXCEPT ![Current] = None]
          /\ Continue("removed")
          /\ UNCHANGED poison
       \/ FailClosed /\ UNCHANGED overlay
    /\ UNCHANGED <<given, model, key, overlayActive, unmarked, orphaned>>

Removed ==
    /\ At("removed")
    /\ overlayActive' = [overlayActive EXCEPT ![Current] = FALSE]
    /\ Answered
    /\ Settle("builtin", FALSE)
    /\ UNCHANGED <<given, model, key, overlay, poison, unmarked>>

\* Bug: a turn that is not on this provider goes on whatever becomes of the
\* sentinel.
LetLive == Settle("blocked", FALSE)

Escalate == Settle("aborted", TRUE)

\* The sentinel of a failure that was not fatal: awaited, and read back.
SetSentinel ==
    /\ At("sentinel")
    /\ \/ /\ overlay' \in Given(Current, Sentinel)
          /\ Continue("read back")
       \/ ~ sound /\ Escalate /\ UNCHANGED overlay
    /\ UNCHANGED <<given, model, key, overlayActive, poison, unmarked, orphaned>>

ReadBack ==
    /\ At("read back")
    /\ overlayActive' = [overlayActive EXCEPT ![Current] = TRUE]
    /\ Answered
    /\ IF Retained(Sentinel) THEN Settle("blocked", FALSE) ELSE Escalate
    /\ UNCHANGED <<given, model, key, overlay, poison, unmarked>>

-----------------------------------------------------------------------------
(* The sentinel of an aborted turn, whenever it gets there.                *)

Land(p) ==
    /\ poison[p] > 0
    /\ poison' = [poison EXCEPT ![p] = @ - 1]
    /\ \/ ~ sound /\ UNCHANGED <<overlay, unmarked>>
       \/ /\ overlay' \in Given(p, Sentinel)
          /\ unmarked' = [unmarked EXCEPT ![p] = @ + 1]
    /\ UNCHANGED <<given, model, turn, sync, results, overlayActive, orphaned>>

Mark(p) ==
    /\ unmarked[p] > 0
    /\ unmarked' = [unmarked EXCEPT ![p] = @ - 1]
    /\ overlayActive' = [overlayActive EXCEPT ![p] = TRUE]
    /\ UNCHANGED <<given, model, turn, sync, results, overlay, poison, orphaned>>

-----------------------------------------------------------------------------

Session == SessionStart \/ TurnBegin \/ TurnStart \/ Request
SyncProvider == Resolve \/ Set \/ Verify \/ Remove \/ Removed \/ SetSentinel \/ ReadBack

Next == \/ \E m \in Models : SwitchModel(m)
        \/ Session
        \/ SyncProvider
        \/ \E p \in Providers : Land(p) \/ Mark(p)

Spec == Init /\ [][Next]_vars

-----------------------------------------------------------------------------
(* Properties.                                                             *)

\* What a call to provider p may ride after its sync: what the sync settled on,
\* or the sentinel, which authenticates nothing; or, with nothing selected, a key
\* that nobody answers for.
Vouched(p) == {Sentinel} \union (IF status[p] = "applied" THEN {key[p]} ELSE {})
                        \union (IF status[p] = "builtin" THEN {None} ELSE {})
                        \union (IF status[p] = "builtin" /\ p \in orphaned THEN Keys ELSE {})

\* A turn that was let live sends its request with the key that this turn's own
\* sync verified for that provider, with Pi's own login if nothing is selected,
\* or with the sentinel; never with what an earlier turn left behind, even if the
\* model was switched while turn_start ran (T046).  A command that calls a model
\* between turns rides what the last sync verified, if that did not fail.  The one
\* key left behind that such a call may ride is of a Set whose availability check
\* failed while the coordinator had no overlay: it does not know of that key, and
\* when nothing is selected any more it does not remove it.
CallsRideTheLastSync ==
    /\ phase = "request" /\ target \in Providers => overlay[target] \in Vouched(target)
    /\ phase = "idle" =>
         \A p \in Providers : status[p] \notin {"none", "aborted"} => overlay[p] \in Vouched(p)

\* In a session that came up, and with a Pi that keeps its word, a turn is only
\* ever aborted for a failure of the provider it runs on, or because nobody can
\* tell which that is; a dead profile elsewhere never costs a turn (AC-031).
OnlyItsOwnFailureAborts ==
    startup = "ready" /\ sound /\ aborted =>
        \/ active = Everyone
        \/ active \in Providers /\ status[active] = "aborted"

=============================================================================
