----------------------------- MODULE SeatProcess ------------------------------
(***************************************************************************)
(* One Pi process with the seat extension: the instances of the extension  *)
(* that /reload puts one after the other, the provider each registers      *)
(* around the one Pi holds, the requests that child runtimes send through  *)
(* it, the session's own store work, and the schedule of each instance, on *)
(* one event loop that a synchronous wait for the store lock freezes.      *)
(*                                                                         *)
(* Pi's side of a request is external: a stored auth.json entry owns the   *)
(* provider, an expired one is refreshed first (under Pi's lock of         *)
(* auth.json, which no task of seat takes and which is left out), every    *)
(* request is handed an entry object of its own, and the latest            *)
(* registration of a provider id is the one Pi holds.  One provider is     *)
(* modelled: the other is a second copy of all but the schedules.          *)
(***************************************************************************)
EXTENDS Naturals, Sequences, FiniteSets, SequencesExt

CONSTANTS
    Requests,       \* child runtimes, one request at a time each
    Session,        \* the session's own store work: a sync, a command, the view's walk
    Load,           \* the store read of an extension that is being loaded
    MaxInstance,    \* bound: instances of the extension
    Foreign,        \* the native provider of another extension
    ForeignConfig,  \* a provider config of another extension
    None

Users == Requests \union {Session}
Instances == 1..MaxInstance
Others == {Foreign, ForeignConfig}

ASSUME ProcessAssumption ==
    /\ MaxInstance \in Nat \ {0}
    /\ Session \notin Requests /\ Load \notin Users
    /\ None \notin Users \union {Load} /\ None \notin Instances /\ None \notin BOOLEAN
    /\ Foreign # ForeignConfig /\ Others \intersect Instances = {}

VARIABLES
    owned,       \* the store selects a profile for the provider
    entry,       \* Pi's auth.json entry: due for a refresh, or not (or not there)
    instance,    \* the latest instance of the extension
    phase,       \* what has happened to it
    broken,      \* instances with a startup error: they refuse every request
    registered,  \* what Pi holds for the id, the outermost wrapper first, <<>> its own
    given,       \* instances whose wrapper child runtimes were given
    queue,       \* the schedule of each instance, its head running
    via,         \* the instance each running user goes through
    pc,          \* where each user stands, or how its last call ended
    got,         \* the entry Pi handed to the request
    skipped,     \* requests with an entry that seat told Pi not to refresh
    holder,      \* the user whose refresh holds the store lock
    frozen,      \* who waits for that lock synchronously
    steady       \* history: the ownership, if it has not changed during the request

store == <<owned, entry>>
registry == <<instance, phase, broken, registered, given>>
loop == <<holder, frozen>>
calls == <<queue, via, pc, got, skipped, steady>>
vars == <<store, registry, loop, calls>>

-----------------------------------------------------------------------------

Entries == {"fresh", "expired"}
Done == {"idle", "seat", "pi", "error"}
Tasks == {"owns", "asking", "acquiring", "refreshing"}

TypeOK == /\ owned \in BOOLEAN
          /\ entry \in Entries
          /\ instance \in Instances
          /\ phase \in {"loading", "loaded", "started", "down"}
          /\ broken \subseteq Instances
          /\ registered \in Seq(Instances \union Others)
          /\ given \subseteq Instances
          /\ queue \in [Instances -> Seq(Users)]
          /\ via \in [Users -> Instances \union {None}]
          /\ pc \in [Users -> Done \union Tasks \union {"piRefresh"}]
          /\ got \in [Requests -> Entries \union {None}]
          /\ skipped \subseteq {r \in Requests : pc[r] \in Tasks}
          /\ holder \in {u \in Users : pc[u] = "refreshing"} \union {None}
          /\ frozen \in {u \in Users : pc[u] \in {"owns", "asking"}} \union {Load, None}
          /\ steady \in [Requests -> BOOLEAN \union {None}]

Init == /\ owned \in BOOLEAN
        /\ entry \in Entries
        /\ instance = 1
        /\ phase = "loaded"
        /\ broken \in {{}, {1}}
        /\ registered \in {<<>>, <<Foreign>>, <<ForeignConfig>>}
        /\ given = {}
        /\ queue = [i \in Instances |-> <<>>]
        /\ via = [u \in Users |-> None]
        /\ pc = [u \in Users |-> "idle"]
        /\ got = [r \in Requests |-> None]
        /\ skipped = {}
        /\ holder = None
        /\ frozen = None
        /\ steady = [r \in Requests |-> None]

\* A definition whose comment starts with "Bug:" is not part of the
\* specification: it is what the definition below it would be if the code had
\* that bug, used to confirm that a property notices it.

Goto(u, there) == pc' = [pc EXCEPT ![u] = there]
Responsive == frozen = None

-----------------------------------------------------------------------------
(* The schedule and the event loop.                                        *)

\* Bug: a task is started when it is queued.
Started(u) == pc[u] \in Tasks

Running(u) == pc[u] \in Tasks /\ queue[via[u]] # <<>> /\ Head(queue[via[u]]) = u

\* An instance with a startup error refuses a request before it is a task.
Queued(u, i) == IF u # Session /\ i \in broken THEN queue
                ELSE [queue EXCEPT ![i] = Append(@, u)]

Without(tasks, u) == IF tasks # <<>> /\ Head(tasks) = u THEN Tail(tasks) ELSE tasks

\* Bug: a task that fails is not followed by the next one.
AfterSuccess(u, how) ==
    IF how = "error" THEN queue ELSE [queue EXCEPT ![via[u]] = Without(@, u)]

AfterTask(u, how) == [queue EXCEPT ![via[u]] = Without(@, u)]

\* Bug: toAuth asks for the mark of a skipped refresh and does not take it away.
StillMarked(u) == skipped

Unmarked(u) == skipped \ {u}

\* The task of u is over and, for a request, the request with it.
End(u, how) ==
    /\ queue' = AfterTask(u, how)
    /\ Goto(u, how)
    /\ skipped' = Unmarked(u)
    /\ via' = [via EXCEPT ![u] = None]
    /\ got' = [r \in Requests |-> IF r = u THEN None ELSE got[r]]
    /\ steady' = [r \in Requests |-> IF r = u THEN None ELSE steady[r]]

\* A store access begins with a synchronous wait for the lock: when a refresh of
\* this process holds it, the event loop is frozen, and the refresh with it.
Freeze(u) == /\ holder # None
             /\ frozen' = u
             /\ UNCHANGED <<store, registry, holder, calls>>

\* The waiter gives up after 5 s: its task fails, or the extension that is being
\* loaded starts with an error.
LockTimeout ==
    /\ frozen # None
    /\ frozen' = None
    /\ IF frozen = Load
       THEN /\ broken' = broken \union {instance}
            /\ phase' = "loaded"
            /\ UNCHANGED <<calls, instance, registered, given>>
       ELSE End(frozen, "error") /\ UNCHANGED registry
    /\ UNCHANGED <<store, holder>>

-----------------------------------------------------------------------------
(* A request: Pi's path through the wrapped oauth and apiKey hooks.        *)

\* A child keeps the wrapper its parent held when it was spawned.  Pi reads the
\* entry: an expired one is for the refresh hook; a fresh one goes to toAuth, none
\* at all to resolve, which both ask seat first.
Begin(r, i) ==
    /\ Responsive
    /\ pc[r] \in Done /\ i \in given
    /\ via' = [via EXCEPT ![r] = i]
    /\ got' = [got EXCEPT ![r] = entry]
    /\ steady' = [steady EXCEPT ![r] = owned]
    /\ Goto(r, IF entry = "expired" THEN "owns" ELSE "asking")
    /\ queue' = Queued(r, i)
    /\ UNCHANGED <<store, registry, loop, skipped>>

\* A startup error of the instance is the error of each of its requests.
Refuse(r) ==
    /\ Responsive
    /\ pc[r] \in {"owns", "asking"} /\ via[r] \in broken
    /\ End(r, "error")
    /\ UNCHANGED <<store, registry, loop>>

\* Bug: a store that cannot be read is one that selects nothing.
OwnsOrUnreadable == {owned, FALSE}

OwnsAnswers == {owned}

\* The refresh hook.  Owned: Pi leaves its entry alone, and seat is asked.
Owns(r) ==
    /\ Responsive
    /\ Running(r) /\ pc[r] = "owns" /\ via[r] \notin broken
    /\ \/ Freeze(r)
       \/ /\ holder = None /\ TRUE \in OwnsAnswers
          /\ Goto(r, "asking")
          /\ queue' = [queue EXCEPT ![via[r]] = Append(Without(@, r), r)]
          /\ skipped' = skipped \union {r}
          /\ UNCHANGED <<store, registry, loop, via, got, steady>>
       \/ /\ holder = None /\ FALSE \in OwnsAnswers
          /\ Goto(r, "piRefresh")
          /\ queue' = AfterTask(r, "pi")
          /\ UNCHANGED <<store, registry, loop, via, got, skipped, steady>>
       \/ /\ holder = None           \* the store cannot be read
          /\ End(r, "error")
          /\ UNCHANGED <<store, registry, loop>>

\* Pi refreshes its own grant, stores it and goes on with it, or fails.
PiRefreshEnds(r) ==
    /\ Responsive
    /\ pc[r] = "piRefresh"
    /\ \/ /\ entry' = "fresh"
          /\ got' = [got EXCEPT ![r] = "fresh"]
          /\ Goto(r, "asking")
          /\ queue' = Queued(r, via[r])
          /\ UNCHANGED <<owned, via, skipped, steady>>
       \/ End(r, "error") /\ UNCHANGED store
    /\ UNCHANGED <<registry, loop>>

\* Bug: an entry whose refresh was skipped is used like any other.
AlwaysDelegates(r) == "pi"

Delegated(r) == IF r \in skipped THEN "error" ELSE "pi"

\* toAuth and resolve: seat's credential when it owns the provider, the entry
\* Pi handed in when it does not.  A profile that is due goes to its refresh.
Ask(r) ==
    /\ Responsive
    /\ Running(r) /\ pc[r] = "asking" /\ via[r] \notin broken
    /\ \/ Freeze(r)
       \/ /\ holder = None
          /\ \E how \in {"error", IF owned THEN "seat" ELSE Delegated(r)} : End(r, how)
          /\ UNCHANGED <<store, registry, loop>>
       \/ /\ holder = None /\ owned
          /\ Goto(r, "acquiring")
          /\ UNCHANGED <<store, registry, loop, queue, via, got, skipped, steady>>

-----------------------------------------------------------------------------
(* The session's own store work, and the locked refresh.                   *)

\* A command, a sync or one step of the view's walk, as one task.
SessionBegin ==
    /\ Responsive
    /\ pc[Session] \in Done /\ phase \in {"loaded", "started"}
    /\ via' = [via EXCEPT ![Session] = instance]
    /\ queue' = Queued(Session, instance)
    /\ Goto(Session, "asking")
    /\ UNCHANGED <<store, registry, loop, got, skipped, steady>>

SessionTask ==
    /\ Responsive
    /\ Running(Session) /\ pc[Session] = "asking"
    /\ \/ Freeze(Session)
       \/ /\ holder = None
          /\ \E how \in {"idle", "error"} : End(Session, how)
          /\ UNCHANGED <<store, registry, loop>>
       \/ /\ holder = None
          /\ Goto(Session, "acquiring")
          /\ UNCHANGED <<store, registry, loop, queue, via, got, skipped, steady>>

\* The lock of the refresh is waited for without blocking, for ten retries.
Acquire(u) ==
    /\ Responsive
    /\ Running(u) /\ pc[u] = "acquiring"
    /\ \/ /\ holder = None
          /\ holder' = u
          /\ Goto(u, "refreshing")
          /\ UNCHANGED <<frozen, queue, via, got, skipped, steady>>
       \/ holder # None /\ End(u, "error") /\ UNCHANGED loop
    /\ UNCHANGED <<store, registry>>

\* The provider answers, refuses, or the call times out; the callback needs the
\* event loop.
RefreshEnds(u) ==
    /\ Responsive
    /\ Running(u) /\ pc[u] = "refreshing"
    /\ holder' = None
    /\ \E how \in {"seat", "error"} : End(u, how)
    /\ UNCHANGED <<store, registry, frozen>>

-----------------------------------------------------------------------------
(* The extension's life, and the provider it registers.                    *)

\* Bug: a wrapper left by an earlier instance is wrapped again.
Wrapped(held) == held

Base(held) == IF held # <<>> /\ Head(held) \in Instances THEN Tail(held) ELSE held

Installed(held) ==
    IF held # <<>> /\ Head(held) \in {instance, ForeignConfig} THEN held
    ELSE <<instance>> \o Base(held)

\* session_start: registered even under a startup error, and again on every start.
SessionStart ==
    /\ Responsive
    /\ phase \in {"loaded", "started"}
    /\ phase' = "started"
    /\ registered' = Installed(registered)
    /\ given' = given \union (ToSet(registered') \intersect Instances)
    /\ UNCHANGED <<store, loop, calls, instance, broken>>

Uninstalled(held) == IF held # <<>> /\ Head(held) = instance THEN Tail(held) ELSE held

\* session_shutdown hands the id back, unless somebody replaced the wrapper.
Shutdown ==
    /\ Responsive
    /\ phase = "started"
    /\ phase' = "down"
    /\ registered' = Uninstalled(registered)
    /\ UNCHANGED <<store, loop, calls, instance, broken, given>>

\* /reload loads the next instance, with a schedule of its own, after a shutdown
\* that may not have run.  Its first read of the store is on no schedule.
Reload ==
    /\ Responsive
    /\ phase \in {"started", "down"} /\ instance < MaxInstance
    /\ instance' = instance + 1
    /\ IF holder # None
       THEN frozen' = Load /\ phase' = "loading" /\ UNCHANGED broken
       ELSE /\ phase' = "loaded"
            /\ broken' \in {broken, broken \union {instance'}}
            /\ UNCHANGED frozen
    /\ UNCHANGED <<store, holder, calls, registered, given>>

-----------------------------------------------------------------------------
(* Everybody else.                                                         *)

\* Other sessions and the CLI select a profile or clear the selection.
Flip == /\ owned' = ~ owned
        /\ steady' = [r \in Requests |-> None]
        /\ UNCHANGED <<entry, registry, loop, queue, via, pc, got, skipped>>

\* Pi's entry expires, or a login brings another one.
EntryChanges == /\ entry' \in Entries
                /\ entry' # entry
                /\ UNCHANGED <<owned, registry, loop, calls>>

\* Another extension registers a provider or a config for the id, or takes what
\* it registered away, with whatever is around it.
ForeignRegisters ==
    /\ Responsive
    /\ registered' \in {<<o>> : o \in Others}
                       \union (IF ToSet(registered) \intersect Others = {} THEN {} ELSE {<<>>})
    /\ registered' # registered
    /\ UNCHANGED <<store, loop, calls, instance, phase, broken, given>>

Request(r) == Refuse(r) \/ Owns(r) \/ PiRefreshEnds(r) \/ Ask(r)
Refreshing(u) == Acquire(u) \/ RefreshEnds(u)

Extension == SessionStart \/ Shutdown \/ Reload

Next == \/ \E r \in Requests : Request(r) \/ \E i \in Instances : Begin(r, i)
        \/ \E u \in Users : Refreshing(u)
        \/ SessionBegin \/ SessionTask
        \/ Extension
        \/ Flip \/ EntryChanges \/ ForeignRegisters
        \/ LockTimeout

\* A synchronous wait ends at its timeout.  The event loop runs a callback that
\* is ready the next time it turns, and the refreshes of seat and of Pi time out.
Fairness == /\ WF_vars(LockTimeout)
            /\ \A r \in Requests : SF_vars(Request(r))
            /\ \A u \in Users : SF_vars(Refreshing(u))
            /\ SF_vars(SessionTask)

Spec == Init /\ [][Next]_vars /\ Fairness

-----------------------------------------------------------------------------
(* Properties                                                              *)

Ends(r, how) == pc[r] \notin Done /\ pc'[r] = how

\* Who owns the provider from the beginning of a request to its end answers it,
\* through whichever instance it goes and whatever that instance's startup, the
\* store or the lock did.  Owned by seat, the request never falls back to
\* auth.json and Pi's grant is not refreshed for it; else it is never answered by
\* seat, nor made to skip Pi's refresh.
OwnershipDecides ==
    [][\A r \in Requests :
          /\ Ends(r, "pi") => steady[r] # TRUE
          /\ pc'[r] = "piRefresh" => steady'[r] # TRUE
          /\ Ends(r, "seat") => steady[r] # FALSE
          /\ r \in skipped' => steady'[r] # FALSE]_vars

\* Pi never sends a token that was due for a refresh when it was handed over,
\* although seat may let go of the provider between the refresh it skipped and
\* the request's own question.
NoSkippedTokenSent ==
    [][\A r \in Requests : Ends(r, "pi") => got[r] # "expired"]_vars

\* Pi holds one wrapper at most, that of the instance whose session last
\* started, and none once that instance was shut down.
NoStaleWrapper ==
    LET wrappers == {k \in DOMAIN registered : registered[k] \in Instances}
    IN  /\ \A j, k \in wrappers : j = k
        /\ phase = "started" => \A k \in wrappers : registered[k] = instance
        /\ phase = "down" => wrappers = {}

\* And what another extension registered stays registered, under seat's wrapper
\* or on its own, until that extension acts.
WrapsOneKeepsOthers ==
    [][/\ NoStaleWrapper'
       /\ Extension => ToSet(registered') \intersect Others = ToSet(registered) \intersect Others]_vars

\* The schedule's purpose: the event loop is never frozen by two store users of
\* one instance.
OneScheduleNeverFreezes ==
    frozen # None => via[holder] # (IF frozen = Load THEN instance ELSE via[frozen])

\* Every request is answered or fails: no task waits for a later one of its
\* schedule, and one that failed does not hold up the rest.
RequestsEnd == \A r \in Requests : pc[r] \notin Done ~> pc[r] \in Done

\* The claim of src/store/scheduler.ts:9-10, that every store access in the
\* extension process is a task on one schedule, which is there so that no
\* synchronous wait meets a refresh of the same process.
NeverFrozen == frozen = None
=============================================================================
