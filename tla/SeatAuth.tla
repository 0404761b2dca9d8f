------------------------------ MODULE SeatAuth ------------------------------
(***************************************************************************)
(* SeatRuntimeAuthCoordinator for the Codex provider in one pi session:    *)
(* the sync that session_start and every turn_start run (selection, locked *)
(* refresh, overlay, verification, or fail-closed poisoning), the requests *)
(* that subagent children resolve through the registered provider at the   *)
(* same time, and the schedule on which all store work of the process      *)
(* queues.  Other sessions change the store whenever they like.            *)
(*                                                                         *)
(* Pi's runtime is external: it may reject a key, or forget it, and it     *)
(* checks availability (a task on the schedule, which fails when the store *)
(* cannot be read) before setRuntimeApiKey returns.  A Pi that lets nobody *)
(* read a key back is trusted to keep it.  The locked refresh is one step  *)
(* here; SeatRefresh has its inside.                                       *)
(***************************************************************************)
EXTENDS Naturals, Sequences

CONSTANTS
    Labels,      \* profiles that may exist
    Accounts,    \* accounts a login may be for
    Requests,    \* subagent children, each with a session of its own
    MaxGrant,    \* bound: refresh tokens ever stored
    Faults,      \* what may go wrong while a key is given to Pi
    ReadBack,    \* Pi lets the coordinator read the key back
    Turn,        \* the sync handler, as a user of the schedule
    Check,       \* Pi's availability check, as another
    Sentinel,    \* SEAT_SENTINEL_API_KEY
    Builtin,     \* the identity of Pi's own login
    None

ASSUME AuthAssumption ==
    /\ MaxGrant \in Nat \ {0}
    /\ Faults \subseteq {"reject", "forget", "check"}
    /\ ReadBack \in BOOLEAN
    /\ ReadBack \/ "forget" \notin Faults
    /\ Turn \notin Requests /\ Check \notin Requests \union {Turn}
    /\ None \notin Labels \union {Sentinel, Builtin}
    /\ None \notin [label : Labels, account : Accounts] \union [label : Labels, id : 1..MaxGrant]

VARIABLES
    pin,            \* the label PI_SEAT was resolved to, for the whole session
    default,        \* the store: the selected label
    grants,         \* the store: the grant under each label
    issued,         \* how many refresh tokens there have been
    queue,          \* the store schedule, its head running
    pc,             \* where the sync and each request stand
    view,           \* the seat each of them has read, then what it resolved to
    overlay,        \* the runtime key Pi holds for the provider
    overlayActive,  \* the coordinator believes it owns the overlay
    poison,         \* an un-awaited sentinel is under way
    blocked,        \* the label and token of the fail-closed block
    applied,        \* appliedIdentity
    sockets,        \* identities of the live Codex sockets opened in calm
    refusal,        \* history: the last refused token, with its label, until
                    \* another grant is seen under that label
    orphaned        \* history: the overlay is one nobody accounts for

store == <<default, grants, issued>>
memory == <<overlayActive, blocked, applied>>
history == <<refusal, orphaned>>
vars == <<pin, store, queue, pc, view, overlay, poison, memory, sockets, history>>

-----------------------------------------------------------------------------

Ids == 1..MaxGrant
Grants == [id : Ids, account : Accounts, state : {"fresh", "expired", "dead"}]
Keys == Ids                          \* the request key derived from a grant

Settled == {"idle", "applied", "builtin", "blocked", "aborted"}
TurnPcs == Settled \union {"queued", "refreshing", "close", "release", "set", "check", "verify", "sentinel"}
RequestPcs == {"idle", "queued", "refreshing"}

Entries == [label : Labels, id : 0..MaxGrant]     \* what the entry read saw
Seats == [label : Labels, id : Ids, account : Accounts]
Identities == [label : Labels, account : Accounts] \union {Builtin}

TypeOK == /\ pin \in Labels \union {None}
          /\ default \in Labels \union {None}
          /\ grants \in [Labels -> Grants \union {None}]
          /\ issued \in 0..MaxGrant
          /\ queue \in Seq(Requests \union {Turn, Check})
          /\ \A i, j \in DOMAIN queue : queue[i] = queue[j] => i = j
          /\ pc \in [Requests \union {Turn} -> TurnPcs \union RequestPcs]
          /\ view \in [Requests \union {Turn} -> Seats \union Entries \union {Builtin, None}]
          /\ overlay \in Keys \union {Sentinel, None}
          /\ overlayActive \in BOOLEAN
          /\ poison \in BOOLEAN
          /\ blocked \in [label : Labels, id : Ids] \union {None}
          /\ applied \in Identities \union {None}
          /\ sockets \subseteq Identities
          /\ refusal \in [label : Labels, id : Ids] \union {None}
          /\ orphaned \in BOOLEAN

Init == /\ default = None
        /\ pin \in Labels \union {None}
        /\ \E a \in Accounts :
             grants = [l \in Labels |-> IF l = pin THEN [id |-> 1, account |-> a, state |-> "fresh"] ELSE None]
        /\ issued = IF pin = None THEN 0 ELSE 1
        /\ queue = <<>>
        /\ pc = [x \in Requests \union {Turn} |-> "idle"]
        /\ view = [x \in Requests \union {Turn} |-> None]
        /\ overlay = None
        /\ overlayActive = FALSE
        /\ poison = FALSE
        /\ blocked = None
        /\ applied = None
        /\ sockets = {}
        /\ refusal = None
        /\ orphaned = FALSE

\* A definition whose comment starts with "Bug:" is not part of the
\* specification: it is what the definition below it would be if the code had
\* that bug, used to confirm that a property notices it.

Goto(x, there) == pc' = [pc EXCEPT ![x] = there]
Running(x) == queue # <<>> /\ Head(queue) = x

\* Bug: the overlay is applied inside the task that resolved it.
HeldWhileApplying(x) == IF x = Turn THEN queue ELSE Tail(queue)

\* What is left of the schedule when the store work of x is done.
AfterTask(x) == Tail(queue)

Seat(l, g) == [label |-> l, id |-> g.id, account |-> g.account]
Identity(v) == IF v = Builtin THEN Builtin ELSE [label |-> v.label, account |-> v.account]

\* The sync failed.  A turn on this provider is aborted at once and the sentinel
\* left to itself; otherwise (session_start, a turn on another provider) the
\* sentinel decides.
FailClosed == /\ view' = [view EXCEPT ![Turn] = None]
              /\ \/ Goto(Turn, "aborted") /\ poison' = TRUE
                 \/ Goto(Turn, "sentinel") /\ UNCHANGED poison

\* The store work of x ends with an error ...
Fail(x) == /\ queue' = AfterTask(x)
           /\ IF x = Turn THEN FailClosed
              ELSE /\ Goto(x, "idle")
                   /\ view' = [view EXCEPT ![x] = None]
                   /\ UNCHANGED poison
           /\ UNCHANGED sockets

\* ... or with what it resolved: the sync goes on to apply it, a request rides
\* it, over a socket that is calm if no switch is under way.
Calm(seat) == pc[Turn] \in Settled /\ applied = Identity(seat)

Resolve(x, seat) ==
    /\ queue' = AfterTask(x)
    /\ IF x = Turn
       THEN /\ Goto(x, IF seat = Builtin THEN "release" ELSE "close")
            /\ view' = [view EXCEPT ![x] = seat]
            /\ UNCHANGED sockets
       ELSE /\ Goto(x, "idle")
            /\ view' = [view EXCEPT ![x] = None]
            /\ sockets' \in {sockets} \union (IF Calm(seat) THEN {sockets \union {Identity(seat)}} ELSE {})
    /\ UNCHANGED poison

-----------------------------------------------------------------------------
(* Queueing store work.                                                    *)

\* Bug: the handler is entered again while it runs.
AtAnyTime(x) == TRUE

MayBegin(x) == pc[x] \in Settled

Enqueue(x) == /\ MayBegin(x)
              /\ queue' = Append(queue, x)
              /\ Goto(x, "queued")
              /\ view' = [view EXCEPT ![x] = None]

\* Pi awaits its handlers, so there is one sync at a time.
SyncBegin ==
    /\ Enqueue(Turn)
    /\ UNCHANGED <<pin, store, overlay, poison, memory, sockets, history>>

RequestBegin(r) ==
    /\ Enqueue(r)
    /\ UNCHANGED <<pin, store, overlay, poison, memory, sockets, history>>

-----------------------------------------------------------------------------
(* resolveSeat, for the sync and for requests alike.                       *)

\* resolveSelection: the pin, else the default, else Pi's own login.
Selected == IF pin # None THEN pin ELSE default

\* The token the entry read finds there; a pinned profile may be gone.
SelectedId == IF grants[Selected] = None THEN 0 ELSE grants[Selected].id

IsBlocked == /\ blocked # None
             /\ blocked.label = Selected
             /\ blocked.id = SelectedId

\* A block of the selected label that no longer fits is dropped.
Unblock == /\ blocked' = IF blocked # None /\ blocked.label = Selected THEN None ELSE blocked
           /\ refusal' = IF /\ refusal # None
                            /\ refusal.label = Selected /\ refusal.id # SelectedId
                         THEN None ELSE refusal

\* The entry read: the store is unreadable, nothing is selected, the selected
\* grant is blocked, or the refresh goes ahead with it.
Start(x) ==
    /\ Running(x)
    /\ pc[x] = "queued"
    /\ \/ Fail(x) /\ UNCHANGED <<blocked, refusal>>
       \/ Selected = None /\ Resolve(x, Builtin) /\ UNCHANGED <<blocked, refusal>>
       \/ /\ Selected # None
          /\ ~ IsBlocked
          /\ Unblock
          /\ Goto(x, "refreshing")
          /\ view' = [view EXCEPT ![x] = [label |-> Selected, id |-> SelectedId]]
          /\ UNCHANGED <<queue, poison, sockets>>
    /\ UNCHANGED <<pin, store, overlay, overlayActive, applied, orphaned>>

\* ensureFreshProfile, on the grant its own reads find by then.
Refreshing(x) == Running(x) /\ pc[x] = "refreshing"
Current(x) == grants[view[x].label]
Stored(x, state) == Current(x) # None /\ Current(x).state = state
Put(x, g) == grants' = [grants EXCEPT ![view[x].label] = g]

\* A fresh credential, or a rotated one, unless toAuth makes nothing of it.
Refreshed(x) ==
    LET rotated == [Current(x) EXCEPT !.id = issued + 1, !.state = "fresh"]
    IN
    /\ Refreshing(x)
    /\ \/ /\ Stored(x, "fresh")
          /\ Resolve(x, Seat(view[x].label, Current(x)))
          /\ UNCHANGED <<grants, issued>>
       \/ /\ Stored(x, "expired") /\ issued < MaxGrant
          /\ issued' = issued + 1
          /\ Put(x, rotated)
          /\ Resolve(x, Seat(view[x].label, rotated)) \/ Fail(x)
    /\ UNCHANGED <<pin, default, overlay, memory, history>>

\* The profile is gone, the lock is not to be had, or the answer is lost and,
\* maybe, with it the grant.
NotRefreshed(x) ==
    /\ Refreshing(x)
    /\ Fail(x)
    /\ \/ UNCHANGED grants
       \/ Stored(x, "expired") /\ Put(x, [Current(x) EXCEPT !.state = "dead"])
    /\ UNCHANGED <<pin, default, issued, overlay, memory, history>>

\* Bug: the block binds to the entry read, not to the token that was sent.
EntryToken(x) == view[x].id

SentToken(x) == Current(x).id

\* invalid_grant: the provider is blocked for the token that was sent.
Refused(x) ==
    LET l == view[x].label IN
    /\ Refreshing(x)
    /\ Stored(x, "dead")
    /\ blocked' = [label |-> l, id |-> SentToken(x)]
    /\ refusal' = [label |-> l, id |-> Current(x).id]
    /\ Fail(x)
    /\ UNCHANGED <<pin, store, overlay, overlayActive, applied, orphaned>>

-----------------------------------------------------------------------------
(* Applying the overlay.                                                   *)

\* Bug: only the label counts as identity.
OtherLabel == IF applied \in {None, Builtin} THEN TRUE ELSE applied.label # view[Turn].label

OtherIdentity == applied # Identity(view[Turn])

\* Sockets of another identity are closed before its key is replaced.
Close ==
    /\ pc[Turn] = "close"
    /\ \/ /\ sockets' = IF OtherIdentity THEN {} ELSE sockets
          /\ Goto(Turn, "set")
          /\ UNCHANGED <<view, poison>>
       \/ OtherIdentity /\ FailClosed /\ UNCHANGED sockets
    /\ UNCHANGED <<pin, store, queue, overlay, memory, history>>

SetKey ==
    /\ pc[Turn] = "set"
    /\ \/ /\ overlay' \in {view[Turn].id} \union (IF "forget" \in Faults THEN {overlay} ELSE {})
          /\ queue' = Append(queue, Check)
          /\ Goto(Turn, "check")
          /\ UNCHANGED <<view, poison>>
       \/ "reject" \in Faults /\ FailClosed /\ UNCHANGED <<queue, overlay>>
    /\ UNCHANGED <<pin, store, memory, sockets, history>>

\* Pi asks the registered provider whether it owns the key, on the schedule.
Checked ==
    /\ Running(Check)
    /\ queue' = Tail(queue)
    /\ Goto(Turn, "verify")
    /\ overlayActive' = TRUE
    /\ orphaned' = FALSE
    /\ UNCHANGED <<pin, store, view, overlay, poison, blocked, applied, sockets, refusal>>

\* The check cannot read the store: setRuntimeApiKey rejects with the key in place,
\* and unless an earlier overlay was its own the coordinator does not know.
CheckFails ==
    /\ Running(Check)
    /\ "check" \in Faults
    /\ queue' = Tail(queue)
    /\ FailClosed
    /\ orphaned' = (orphaned \/ (~ overlayActive /\ overlay \in Keys))
    /\ UNCHANGED <<pin, store, overlay, memory, sockets, refusal>>

\* Bug: the key is not read back.
Unverified == TRUE

Retained == ReadBack => overlay = view[Turn].id

Verify ==
    /\ pc[Turn] = "verify"
    /\ IF Retained
       THEN /\ applied' = Identity(view[Turn])
            /\ Goto(Turn, "applied")
            /\ UNCHANGED <<view, poison>>
       ELSE FailClosed /\ UNCHANGED applied
    /\ UNCHANGED <<pin, store, queue, overlay, overlayActive, blocked, sockets, history>>

\* Nothing is selected: remove an overlay that is ours, and only that, after the
\* sockets that rode it.
SocketsAfterRelease == IF applied \in {None, Builtin} THEN sockets ELSE {}

Release ==
    /\ pc[Turn] = "release"
    /\ \/ /\ sockets' = IF overlayActive THEN SocketsAfterRelease ELSE sockets
          /\ overlay' = IF overlayActive THEN None ELSE overlay
          /\ orphaned' = (orphaned /\ ~ overlayActive)
          /\ overlayActive' = FALSE
          /\ applied' = Builtin
          /\ Goto(Turn, "builtin")
          /\ UNCHANGED <<view, poison>>
       \/ /\ overlayActive
          /\ \/ SocketsAfterRelease # sockets /\ UNCHANGED sockets
             \/ "reject" \in Faults /\ sockets' = SocketsAfterRelease
          /\ FailClosed
          /\ UNCHANGED <<overlay, overlayActive, applied, orphaned>>
    /\ UNCHANGED <<pin, store, queue, blocked, refusal>>

-----------------------------------------------------------------------------
(* The sentinel.                                                           *)

\* The sentinel takes effect, or Pi rejects or forgets it.
InstallSentinel(landed) ==
    /\ landed \/ {"reject", "forget"} \intersect Faults # {}
    /\ overlay' = IF landed THEN Sentinel ELSE overlay
    /\ overlayActive' \in IF landed THEN {TRUE} ELSE {overlayActive, TRUE}
    /\ orphaned' = (orphaned /\ ~ landed)

Unpoisoned == "aborted"

SetSentinel ==
    /\ pc[Turn] = "sentinel"
    /\ \/ InstallSentinel(TRUE) /\ Goto(Turn, "blocked")
       \/ InstallSentinel(FALSE) /\ Goto(Turn, Unpoisoned)
    /\ UNCHANGED <<pin, store, queue, view, poison, blocked, applied, sockets, refusal>>

\* The sentinel of an aborted turn, whenever it gets there.
Poison ==
    /\ poison
    /\ poison' = FALSE
    /\ \E landed \in BOOLEAN : InstallSentinel(landed)
    /\ UNCHANGED <<pin, store, queue, pc, view, blocked, applied, sockets, refusal>>

-----------------------------------------------------------------------------
(* A new instance of the extension.                                       *)

\* /reload: a new instance, with no memory, in front of the same runtime; what
\* was opened before it is not its calm.  PI_SEAT is resolved again: without its
\* profile that is a startup error, and no turn runs at all.
Reload ==
    /\ queue = <<>> /\ ~ poison
    /\ pin # None => grants[pin] # None
    /\ pc[Turn] \in Settled \ {"idle"} /\ \A r \in Requests : pc[r] = "idle"
    /\ Goto(Turn, "idle")
    /\ view' = [view EXCEPT ![Turn] = None]
    /\ overlayActive' = FALSE /\ blocked' = None /\ applied' = None
    /\ sockets' = {}
    /\ refusal' = None
    /\ orphaned' = (overlay # None)
    /\ UNCHANGED <<pin, store, queue, overlay, poison>>

-----------------------------------------------------------------------------
(* Other sessions, the clock and the provider.                             *)

session == <<pin, queue, pc, view, overlay, poison, memory, sockets, history>>

Login(l, a) == /\ issued < MaxGrant
               /\ issued' = issued + 1
               /\ grants' = [grants EXCEPT ![l] = [id |-> issued', account |-> a, state |-> "fresh"]]
               /\ UNCHANGED <<default, session>>

Use(l) == /\ grants[l] # None
          /\ default' = l
          /\ UNCHANGED <<grants, issued, session>>

ClearDefault == default' = None /\ UNCHANGED <<grants, issued, session>>

RenameTo(l, m) == /\ grants[l] # None /\ grants[m] = None
                  /\ grants' = [grants EXCEPT ![m] = grants[l], ![l] = None]
                  /\ default' = IF default = l THEN m ELSE default
                  /\ UNCHANGED <<issued, session>>

Remove(l) == /\ grants[l] # None
             /\ grants' = [grants EXCEPT ![l] = None]
             /\ default' = IF default = l THEN None ELSE default
             /\ UNCHANGED <<issued, session>>

Expire(l) == /\ grants[l] # None /\ grants[l].state = "fresh"
             /\ grants' = [grants EXCEPT ![l].state = "expired"]
             /\ UNCHANGED <<default, issued, session>>

\* The provider revokes a grant, or another process lost its rotation; nobody
\* can tell before it has expired.
Revoke(l) == /\ grants[l] # None /\ grants[l].state = "expired"
             /\ grants' = [grants EXCEPT ![l].state = "dead"]
             /\ UNCHANGED <<default, issued, session>>

-----------------------------------------------------------------------------

Task(x) == Start(x) \/ Refreshed(x) \/ NotRefreshed(x) \/ Refused(x)
Apply == Close \/ SetKey \/ Checked \/ CheckFails \/ Verify \/ Release \/ SetSentinel

Next == \/ SyncBegin
        \/ \E r \in Requests : RequestBegin(r)
        \/ \E x \in Requests \union {Turn} : Task(x)
        \/ Apply \/ Poison \/ Reload
        \/ \E l \in Labels : \/ \E a \in Accounts : Login(l, a)
                             \/ \E m \in Labels : RenameTo(l, m)
                             \/ Use(l) \/ Remove(l) \/ Expire(l) \/ Revoke(l)
        \/ ClearDefault

Spec == Init /\ [][Next]_vars

-----------------------------------------------------------------------------
(* Properties.                                                             *)

\* A turn that was let live never runs on another selection's key: the overlay
\* holds the key its own sync verified, or the sentinel, which authenticates
\* nothing.  The exception is a turn without a selection and an overlay nobody
\* accounts for: one that was there before a /reload, or one whose check failed
\* while the coordinator owned none.
LiveTurnRidesItsOwn ==
    /\ pc[Turn] = "applied" => overlay \in {view[Turn].id, Sentinel}
    /\ pc[Turn] = "builtin" => overlay \in {None, Sentinel} \/ orphaned
    /\ pc[Turn] = "blocked" => overlay = Sentinel

\* A refused refresh token is not sent again under its label, by any turn or
\* request, until another grant has been seen there or another label's grant
\* has been refused.
RefusalRemembered ==
    [][\A x \in Requests \union {Turn} :
          Refused(x) => refusal # [label |-> view[x].label, id |-> Current(x).id]]_vars

\* Once a sync has succeeded, a Codex socket of another identity is only there
\* because a request raced a switch: sockets opened in calm never survive one.
CalmSocketsFollow ==
    pc[Turn] \in {"applied", "builtin"} => sockets \subseteq {applied}

\* The head of the schedule is never waiting for anything but its own store work:
\* no task, directly or through Pi's availability check, waits for one that is
\* queued behind it.  With a first-in-first-out queue, everything then ends.
HeadMakesProgress ==
    queue # <<>> /\ Head(queue) # Check => pc[Head(queue)] \in {"queued", "refreshing"}

\* What the header of runtime-auth.ts says: an invalid_grant blocks the provider
\* until a replacement login rotates the stored credential, so a token is not
\* sent again after it was refused.
DeadGrantStaysBlocked ==
    [][\A x \in Requests \union {Turn} :
          Refused(x) => refusal = None \/ refusal.id # Current(x).id]_vars

\* What AC-006 says: with no default there is no seat override in the runtime.
BuiltinUntouched == pc[Turn] = "builtin" => overlay \notin Keys

=============================================================================
