------------------------------ MODULE UsageView -------------------------------
(***************************************************************************)
(* The in-session usage view: the walk that fills it, the keys it answers, *)
(* the switch of the default, and the banked reset it may spend, over a    *)
(* store that other sessions change.  Every await is a gap in which keys,  *)
(* answers and the end of the view can fall.                               *)
(*                                                                         *)
(* One provider is modelled: a walk over two is one plan after the other.  *)
(* The provider's reset service is external: it spends a reset or refuses, *)
(* and its answer, or the request, may be lost.  What a row shows is left  *)
(* out; a row stands for an account with its meters or its error.          *)
(***************************************************************************)
EXTENDS Naturals, Sequences, FiniteSets, SequencesExt

CONSTANTS
    Order,        \* the profile labels, in the order of the file
    Grants,       \* logins at the provider, of different accounts
    Logins,       \* the login under each label at first
    Builtin,      \* the row of Pi's own login
    PiGrant,      \* that login
    Pin,          \* the selection this process is pinned to (PI_SEAT), or None
    None,
    MaxQueued,    \* bound: tasks queued when Enter is pressed
    MaxEvents     \* bound: reset flows, reloads by key and changes by other sessions

Labels == ToSet(Order)
Accounts == Labels \union {Builtin}

ASSUME ViewAssumption ==
    /\ Order \in Seq(Labels) /\ IsInjective(Order)
    /\ Logins \in [Labels -> Grants]
    /\ Builtin \notin Labels /\ PiGrant \in Grants /\ None \notin Grants \union Accounts
    /\ Pin \in Accounts \union {None}
    /\ MaxQueued \in Nat /\ MaxEvents \in Nat

VARIABLES
    store,      \* seat.json: the login under each label, and the default
    queue,      \* the store schedule, the view's tasks on it
    job,        \* the walk
    rows,       \* accounts
    cursor,     \* selected, counted from 1
    loading,
    shown,      \* the store the section headers describe
    disposed,
    flow,       \* reset
    flowGen,    \* resetGeneration
    lookups,    \* lookups under way
    questions,  \* history: every confirmation put on the screen
    redeems,    \* history: every redeem sent
    cancelled,  \* history: the flows the user cancelled
    events      \* how many of those there were

view == <<rows, cursor, loading, shown, disposed>>
resets == <<flow, flowGen, lookups, questions, redeems, cancelled>>
vars == <<store, queue, job, view, resets, events>>

-----------------------------------------------------------------------------

Stores == [profile : [Labels -> Grants \union {None}], default : Accounts]
NoStore == [profile |-> [l \in Labels |-> None], default |-> Builtin]

Positions == 1..(Len(Order) + 1)
Generations == 1..(2 * MaxEvents)
Tasks == [do : {"read", "prepare"}, on : {None}]
         \union [do : {"apply"}, on : Accounts]
         \union [do : {"credential"}, on : Generations]
Results == {"pending", "row", "missing", "throws"}

TypeOK ==
    /\ store \in Stores /\ shown \in Stores
    /\ queue \in Seq(Tasks)
    /\ job \in [stage : {"none", "reading", "preparing", "fetching"},
                store : Stores, next : Positions \union {Len(Order) + 2},
                result : [Positions -> Results], previous : Accounts \union {None}]
    /\ rows \in Seq(Accounts) /\ Len(rows) <= Len(Order) + 1
    /\ cursor \in Positions
    /\ loading \in BOOLEAN /\ disposed \in BOOLEAN
    /\ flow \in [phase : {"none", "checking", "confirm", "redeeming"},
                 account : Accounts \union {None}, grant : Grants \union {None}, gen : Generations \union {0}]
    /\ flowGen \in Generations \union {0}
    /\ lookups \subseteq [gen : Generations, account : Accounts, grant : Grants \union {None}]
    /\ questions \subseteq [gen : Generations, account : Accounts, grant : Grants]
    /\ redeems \in Seq([gen : Generations, account : Accounts, grant : Grants,
                        server : {"travelling", "spent", "refused", "unsent"},
                        told : {"nothing", "used", "kept", "unconfirmed"}])
    /\ cancelled \subseteq Generations
    /\ events \in 0..MaxEvents

NoFlow == [phase |-> "none", account |-> None, grant |-> None, gen |-> 0]

Counted == events < MaxEvents /\ events' = events + 1

Task(do, on) == [do |-> do, on |-> on]

\* The walk as load starts it.
Reading(previous) ==
    [stage |-> "reading", store |-> NoStore, next |-> 1,
     result |-> [i \in Positions |-> "pending"], previous |-> previous]

NoJob == [Reading(None) EXCEPT !.stage = "none"]

\* The view has been opened and its first load has begun.
Init == /\ store \in {s \in Stores : s.profile = Logins}
        /\ queue = <<Task("read", None)>>
        /\ job = Reading(None)
        /\ rows = <<>> /\ cursor = 1 /\ loading = TRUE
        /\ shown = NoStore /\ disposed = FALSE
        /\ flow = NoFlow /\ flowGen = 0 /\ lookups = {}
        /\ questions = {} /\ redeems = <<>> /\ cancelled = {}
        /\ events = 0

\* A definition whose comment starts with "Bug:" is not part of the
\* specification: it is what the definition below it would be if the code had
\* that bug, used to confirm that a property notices it.

\* Bug: tasks do not wait for those queued before them.
Queued(t) == t \in ToSet(queue)

Running(t) == queue # <<>> /\ Head(queue) = t

Dequeued(t) == RemoveFirst(queue, t)

-----------------------------------------------------------------------------
(* The walk (collectUsage) and the load around it.                         *)

\* The stored labels but one, in the order of the file.
StoredBut(s, but) ==
    LET kept[i \in 0..Len(Order)] ==
          IF i = 0 THEN <<>>
          ELSE IF Order[i] = but \/ s.profile[Order[i]] = None THEN kept[i - 1]
          ELSE Append(kept[i - 1], Order[i])
    IN  kept[Len(Order)]

\* The pin of the process, or else the default.
Selected(s) == IF Pin = None THEN s.default ELSE Pin

\* Walk order: the selected account leads; a selection that names no stored
\* profile hoists nothing.
Plan(s) ==
    IF Selected(s) = Builtin THEN <<Builtin>> \o StoredBut(s, Builtin)
    ELSE (IF s.profile[Selected(s)] = None THEN <<>> ELSE <<Selected(s)>>)
         \o StoredBut(s, Selected(s)) \o <<Builtin>>

\* load clears the rows and the headers and queues the one read of the store.  No
\* other load is under way (HeadersMatchTheWalk), so that its generation is never
\* outdated.
Load(q) ==
    /\ job' = Reading(IF cursor <= Len(rows) THEN rows[cursor] ELSE None)
    /\ rows' = <<>> /\ shown' = NoStore /\ loading' = TRUE
    /\ queue' = Append(q, Task("read", None))
    /\ UNCHANGED <<cursor, disposed>>

Restored(accounts, previous) ==
    IF previous \in ToSet(accounts) THEN CHOOSE i \in DOMAIN accounts : accounts[i] = previous
    ELSE IF accounts = <<>> THEN 1
    ELSE IF cursor > Len(accounts) THEN Len(accounts) ELSE cursor

\* Bug: the end of a load that throws is not the end of loading.
LoadingAfterThrow(threw) == threw

LoadingAfter(threw) == FALSE

\* The end of load, after its catch: nothing happens on a view that is gone.
EndLoad(accounts, threw) ==
    /\ job' = NoJob
    /\ IF disposed THEN UNCHANGED view
       ELSE /\ rows' = accounts
            /\ cursor' = Restored(accounts, job.previous)
            /\ loading' = LoadingAfter(threw)
            /\ UNCHANGED <<shown, disposed>>

\* Phase 1 goes on at slot k: one task per stored profile, one after the other;
\* after the last one the fetches of phase 2 start together.
Walk(j, k, q) ==
    LET plan == Plan(j.store)
        left == {i \in k..Len(plan) : plan[i] # Builtin}
    IN  IF left = {}
        THEN job' = [j EXCEPT !.stage = "fetching", !.next = 1] /\ queue' = q
        ELSE /\ job' = [j EXCEPT !.stage = "preparing", !.next = CHOOSE i \in left : \A o \in left : i <= o]
             /\ queue' = Append(q, Task("prepare", None))

\* The read at the start of load, which may fail.
Read ==
    LET t == Task("read", None) IN
    /\ Running(t)
    /\ \/ EndLoad(rows, TRUE) /\ queue' = Dequeued(t)
       \/ /\ disposed
          /\ job' = NoJob /\ queue' = Dequeued(t)
          /\ UNCHANGED view
       \/ /\ ~ disposed
          /\ shown' = store
          /\ Walk([job EXCEPT !.store = store], 1, Dequeued(t))
          /\ UNCHANGED <<rows, cursor, loading, disposed>>
    /\ UNCHANGED <<store, resets, events>>

\* prepareProfile of one slot, as a task; a failure is the row's error.
Prepare ==
    LET t == Task("prepare", None) IN
    /\ Running(t)
    /\ Walk(job, job.next + 1, Dequeued(t))
    /\ UNCHANGED <<store, view, resets, events>>

\* An endpoint answers, in any order.  The built-in login may be missing, and
\* reading it may throw.
Settle(i) ==
    /\ job.stage = "fetching" /\ i <= Len(Plan(job.store)) /\ job.result[i] = "pending"
    /\ \E r \in IF Plan(job.store)[i] = Builtin THEN {"row", "missing", "throws"} ELSE {"row"} :
          job' = [job EXCEPT !.result[i] = r]
    /\ UNCHANGED <<store, queue, view, resets, events>>

NextAnswered(i) == i = job.next /\ job.result[i] # "pending"

\* The drain, in walk order; the first failure to be thrown ends it.
Drain(i) ==
    LET plan == Plan(job.store)
        drained == IF job.result[i] = "row" THEN Append(rows, plan[i]) ELSE rows
    IN  /\ job.stage = "fetching" /\ i <= Len(plan) /\ NextAnswered(i)
        /\ IF job.result[i] = "throws" THEN EndLoad(rows, TRUE)
           ELSE IF job.next = Len(plan) THEN EndLoad(drained, FALSE)
           ELSE /\ job' = [job EXCEPT !.next = @ + 1]
                /\ rows' = IF disposed THEN rows ELSE drained
                /\ UNCHANGED <<cursor, loading, shown, disposed>>
        /\ UNCHANGED <<store, queue, resets, events>>

-----------------------------------------------------------------------------
(* Keys, while no reset flow is open and nothing is loading.               *)

Navigable == ~ disposed /\ flow.phase = "none" /\ ~ loading

Highlighted == rows[cursor]

\* r
Reload == /\ Navigable
          /\ Counted
          /\ Load(queue)
          /\ UNCHANGED <<store, resets>>

\* Bug: the cursor is not clamped to the rows.
MovedFreely == {cursor - 1, cursor + 1}

Moved == {cursor - 1, cursor + 1} \intersect DOMAIN rows

\* Up and down.
Move == /\ Navigable /\ rows # <<>>
        /\ cursor' \in Moved
        /\ UNCHANGED <<store, queue, job, rows, loading, shown, disposed, resets, events>>

\* Enter: the switch is a task of its own.
Enter == /\ Navigable /\ rows # <<>> /\ Len(queue) < MaxQueued
         /\ queue' = Append(queue, Task("apply", Highlighted))
         /\ UNCHANGED <<store, job, view, resets, events>>

\* useSelection, which may fail, and the read after it, which is taken to succeed.
\* A label that is gone is an error.  The default changes although the view may be
\* gone by now.
Apply(a) ==
    LET t == Task("apply", a)
        known == a = Builtin \/ store.profile[a] # None
    IN  /\ Running(t)
        /\ queue' = Dequeued(t)
        /\ \E switched \in {FALSE, known} :
              /\ store' = IF switched THEN [store EXCEPT !.default = a] ELSE store
              /\ shown' = IF switched /\ ~ disposed THEN store' ELSE shown
        /\ UNCHANGED <<job, rows, cursor, loading, disposed, resets, events>>

-----------------------------------------------------------------------------
(* The reset flow.                                                         *)

\* x: a fresh lookup, with the profile's credential as one task, or with the
\* login Pi has, which is never refreshed.
StartReset ==
    /\ Navigable /\ rows # <<>> /\ Counted
    /\ LET gen == flowGen + 1 IN
       /\ flowGen' = gen
       /\ flow' = [NoFlow EXCEPT !.phase = "checking", !.account = Highlighted, !.gen = gen]
       /\ lookups' = lookups \union
            {[gen |-> gen, account |-> Highlighted, grant |-> IF Highlighted = Builtin THEN PiGrant ELSE None]}
       /\ queue' = IF Highlighted = Builtin THEN queue ELSE Append(queue, Task("credential", gen))
    /\ UNCHANGED <<store, job, view, questions, redeems, cancelled>>

\* Bug: a lookup does not notice that the view was closed.
Superseded(l) == l.gen # flowGen

Late(l) == disposed \/ l.gen # flowGen

\* What a flow shows and asks about.
Question(f) == [gen |-> f.gen, account |-> f.account, grant |-> f.grant]

\* A lookup has ended: its flow becomes what it found, unless it comes too late.
EndLookup(l, found) ==
    /\ lookups' = lookups \ {l}
    /\ flow' = IF Late(l) THEN flow ELSE found
    /\ questions' = IF ~ Late(l) /\ found.phase = "confirm" THEN questions \union {Question(found)}
                                                           ELSE questions
    /\ UNCHANGED <<flowGen, redeems, cancelled>>

\* prepareProfile of the account: the login stored under its label by now.
Credential(l) ==
    LET t == Task("credential", l.gen) IN
    /\ Running(t)
    /\ queue' = Dequeued(t)
    /\ \/ EndLookup(l, NoFlow)
       \/ /\ store.profile[l.account] # None
          /\ lookups' = (lookups \ {l}) \union {[l EXCEPT !.grant = store.profile[l.account]]}
          /\ UNCHANGED <<flow, flowGen, questions, redeems, cancelled>>
    /\ UNCHANGED <<store, job, view, events>>

\* The provider names the reset it would spend next, has none, or does not answer;
\* Pi's login may turn out to be missing or expired before it is asked.
Lookup(l) ==
    /\ l.grant # None
    /\ \E found \in {NoFlow, [phase |-> "confirm", account |-> l.account, grant |-> l.grant, gen |-> l.gen]} :
          EndLookup(l, found)
    /\ UNCHANGED <<store, queue, job, view, events>>

\* n, esc or q, before the redeem is sent.
Cancel ==
    /\ ~ disposed /\ flow.phase \in {"checking", "confirm"}
    /\ cancelled' = cancelled \union {flow.gen}
    /\ flowGen' = flowGen + 1
    /\ flow' = NoFlow
    /\ UNCHANGED <<store, queue, job, view, lookups, questions, redeems, events>>

\* Bug: the confirmation stays open while its redeem is under way.
StillAsking(f) == f

AfterYes(f) == [f EXCEPT !.phase = "redeeming"]

\* Bug: the credential is read again for the redeem.
StoredByNow(f) == IF f.account = Builtin THEN PiGrant ELSE store.profile[f.account]

RedeemGrant(f) == f.grant

\* y
Confirm ==
    /\ ~ disposed /\ flow.phase = "confirm"
    /\ Len(redeems) <= MaxEvents
    /\ redeems' = Append(redeems, [gen |-> flow.gen, account |-> flow.account, grant |-> RedeemGrant(flow),
                                   server |-> "travelling", told |-> "nothing"])
    /\ flow' = AfterYes(flow)
    /\ UNCHANGED <<store, queue, job, view, flowGen, lookups, questions, cancelled, events>>

\* The provider gets the request, perhaps after its caller gave up, and spends a
\* reset or refuses.
Serve(n) ==
    /\ redeems[n].server = "travelling"
    /\ \E s \in {"spent", "refused"} : redeems' = [redeems EXCEPT ![n].server = s]
    /\ UNCHANGED <<store, queue, job, view, flow, flowGen, lookups, questions, cancelled, events>>

\* What reaches the caller: the result, a status that proves a refusal (429, 401,
\* 403), another status, nothing within 25 s or nothing readable; or the lookup of
\* the organization failed and the redeem was never sent.
Answers(server) ==
    CASE server = "spent" -> {"reset", "5xx", "lost"}
      [] server = "refused" -> {"refused", "429", "5xx", "lost"}
      [] server = "travelling" -> {"lost", "unsent"}

\* Bug: every status but success counts as a refusal.
RefusedByAnyStatus == {"refused", "429", "unsent", "5xx"}

NothingUsed == {"refused", "429", "unsent"}

Told(answer) ==
    IF answer = "reset" THEN "used" ELSE IF answer \in NothingUsed THEN "kept" ELSE "unconfirmed"

\* The outcome; a used reset makes the meters stale, so they are fetched again.
Redeemed(n) ==
    /\ redeems[n].told = "nothing" /\ redeems[n].server # "unsent"
    /\ \E a \in Answers(redeems[n].server) :
          /\ redeems' = [redeems EXCEPT ![n].told = Told(a),
                                        ![n].server = IF a = "unsent" THEN "unsent" ELSE @]
          /\ IF disposed THEN UNCHANGED <<queue, job, view, flow>>
             ELSE /\ flow' = NoFlow
                  /\ IF Told(a) = "used" THEN Load(queue) ELSE UNCHANGED <<queue, job, view>>
    /\ UNCHANGED <<store, flowGen, lookups, questions, cancelled, events>>

-----------------------------------------------------------------------------

\* The host takes the view away, on a close key or for reasons of its own.
Dispose == /\ ~ disposed
           /\ disposed' = TRUE
           /\ UNCHANGED <<store, queue, job, rows, cursor, loading, shown, resets, events>>

\* Other sessions switch, remove, and log in.
Elsewhere ==
    /\ Counted
    /\ \/ \E a \in Accounts : store' = [store EXCEPT !.default = a]
       \/ \E l \in Labels, g \in Grants \union {None} : store' = [store EXCEPT !.profile[l] = g]
    /\ UNCHANGED <<queue, job, view, resets>>

Keys == Reload \/ Move \/ Enter \/ StartReset \/ Cancel \/ Confirm

Work == \/ Read \/ Prepare
        \/ \E i \in Positions : Settle(i) \/ Drain(i)
        \/ \E a \in Accounts : Apply(a)
        \/ \E l \in lookups : Credential(l) \/ Lookup(l)
        \/ \E n \in DOMAIN redeems : Redeemed(n)

Next == Keys \/ Work \/ (\E n \in DOMAIN redeems : Serve(n)) \/ Dispose \/ Elsewhere

\* Tasks run in turn and every request answers or times out, so the work under
\* way goes on; nobody has to press a key, and a redeem need not arrive.
Spec == Init /\ [][Next]_vars /\ WF_vars(Work)

-----------------------------------------------------------------------------
(* Properties                                                              *)

\* Every redeem answers a confirmation that was on the screen, spends with the
\* login that one had looked up, whatever is stored under the label by now, and is
\* of a flow that was not cancelled, before or since; no flow asks about two logins or
\* sends two redeems, although lookups of earlier flows may still be under way.
SpendsWhatWasConfirmed ==
    /\ \A n \in DOMAIN redeems :
          /\ Question(redeems[n]) \in questions
          /\ redeems[n].gen \notin cancelled
    /\ \A q, r \in questions : q.gen = r.gen => q = r
    /\ \A n, m \in DOMAIN redeems : redeems[n].gen = redeems[m].gen => n = m

\* A lookup that answers after its flow was cancelled does not bring the
\* question back, nor does it stand in for that of a later flow.
CancelledStaysCancelled == flow.gen \notin cancelled

\* And nothing that ends after the view was closed changes it.
NothingLateIsHeard ==
    [][CancelledStaysCancelled' /\ (disposed => UNCHANGED <<view, flow>>)]_vars

\* The view says that nothing was used only if the provider spends nothing, then
\* or later, and that the reset was used only if it was.
OutcomeIsTrue ==
    \A n \in DOMAIN redeems :
        /\ redeems[n].told = "kept" => redeems[n].server \in {"refused", "unsent"}
        /\ redeems[n].told = "used" => redeems[n].server = "spent"

\* There is one walk at a time, and none beside a reset flow, although a used
\* reset begins one without looking; the section headers and the rows of a walk
\* describe one store: a switch that was asked for before the walk does not change
\* the headers in the middle of it.
HeadersMatchTheWalk ==
    ~ disposed => /\ loading <=> job.stage # "none"
                  /\ flow.phase # "none" => ~ loading
                  /\ loading /\ job.stage \in {"preparing", "fetching"} => shown = job.store

\* The keys work again in the end: no walk and no redeem keeps them for ever.
KeyboardReturns ==
    loading \/ flow.phase = "redeeming" ~> disposed \/ (~ loading /\ flow.phase # "redeeming")
=============================================================================
