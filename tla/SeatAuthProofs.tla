---------------------------- MODULE SeatAuthProofs ----------------------------
(***************************************************************************)
(* For any profiles, accounts, children and refresh tokens, whatever Pi's  *)
(* runtime does to a key, and however other sessions change the store: a   *)
(* turn that was let live rides the key of its own sync or the sentinel,   *)
(* sockets follow the account, the schedule's head never waits, and no     *)
(* refused token is sent again.                                            *)
(***************************************************************************)
EXTENDS SeatAuth, TLAPS

Users == Requests \union {Turn}

\* What a user has read, at each point of its way.
ViewsFit ==
    /\ \A x \in Users : pc[x] = "refreshing" => view[x] \in Entries
    /\ pc[Turn] \in {"close", "set", "check", "verify", "applied"} => view[Turn] \in Seats

\* Who is on the schedule has work on it, and only its head is at that work.
QueueFits ==
    /\ \A i \in DOMAIN queue :
          IF queue[i] = Check THEN pc[Turn] = "check" ELSE pc[queue[i]] \in {"queued", "refreshing"}
    /\ \A x \in Users : pc[x] = "refreshing" => Running(x)

\* The block is the last refusal, and a refresh goes ahead only beside it.
BlockHolds ==
    /\ blocked = refusal
    /\ \A x \in Users : pc[x] = "refreshing" => refusal = None \/ refusal.label # view[x].label

\* A seat key in Pi's runtime is the coordinator's, one that is about to be, or
\* one nobody accounts for; what the sockets belong to is the coordinator's; and a
\* Pi that forgets nothing holds the key it was given, or a sentinel landed since.
Accounted ==
    /\ overlayActive \/ orphaned \/ overlay \in {None, Sentinel} \/ pc[Turn] = "check"
    /\ pc[Turn] = "verify" \/ applied \notin {None, Builtin} => overlayActive
    /\ "forget" \notin Faults /\ pc[Turn] \in {"check", "verify"}
         => overlay \in {view[Turn].id, Sentinel}

\* Sockets opened in calm are those of the identity that was applied last; from
\* the moment another one is about to be, there are none.
SocketsFit ==
    /\ sockets \subseteq {applied} \ {None}
    /\ pc[Turn] \in {"set", "check", "verify"} => sockets = {} \/ applied = Identity(view[Turn])

IInv == /\ TypeOK
        /\ ViewsFit
        /\ QueueFits
        /\ BlockHolds
        /\ Accounted
        /\ SocketsFit
        /\ LiveTurnRidesItsOwn

-----------------------------------------------------------------------------

USE AuthAssumption DEF Users, store, memory, history, Goto, Settled, TurnPcs, RequestPcs

\* A schedule with one more user at its end.
LEMMA Longer ==
    ASSUME NEW S, NEW q \in Seq(S), NEW x \in S,
           \A i, j \in DOMAIN q : q[i] = q[j] => i = j, \A i \in DOMAIN q : q[i] # x
    PROVE  /\ Append(q, x) \in Seq(S)
           /\ \A i, j \in DOMAIN Append(q, x) : Append(q, x)[i] = Append(q, x)[j] => i = j
           /\ \A i \in DOMAIN Append(q, x) : Append(q, x)[i] = x \/ (i \in DOMAIN q /\ Append(q, x)[i] = q[i])
           /\ q # <<>> => Append(q, x) # <<>> /\ Head(Append(q, x)) = Head(q)
<1> DEFINE r == Append(q, x)
<1>1. /\ r \in Seq(S) /\ Len(q) \in Nat /\ DOMAIN q = 1..Len(q) /\ DOMAIN r = 1..(Len(q) + 1)
      /\ r[Len(q) + 1] = x /\ \A i \in DOMAIN q : r[i] = q[i]
      /\ q # <<>> => r # <<>> /\ Head(r) = Head(q)
  OBVIOUS
<1> HIDE DEF r
<1>2. \A i \in DOMAIN r : i = Len(q) + 1 \/ i \in DOMAIN q
  BY <1>1
<1> QED BY <1>1, <1>2 DEF r

\* A schedule without its head.
LEMMA Shorter ==
    ASSUME NEW S, NEW q \in Seq(S), q # <<>>, \A i, j \in DOMAIN q : q[i] = q[j] => i = j
    PROVE  /\ Tail(q) \in Seq(S)
           /\ \A i, j \in DOMAIN Tail(q) : Tail(q)[i] = Tail(q)[j] => i = j
           /\ \A i \in DOMAIN Tail(q) : \E j \in DOMAIN q : Tail(q)[i] = q[j] /\ q[j] # Head(q)
           /\ 1 \in DOMAIN q /\ q[1] = Head(q)
<1> DEFINE r == Tail(q)
<1>1. /\ r \in Seq(S) /\ Len(q) \in Nat /\ DOMAIN q = 1..Len(q) /\ DOMAIN r = 1..(Len(q) - 1)
      /\ Len(q) # 0 /\ q[1] = Head(q) /\ \A i \in 1..(Len(q) - 1) : r[i] = q[i + 1]
  OBVIOUS
<1> HIDE DEF r
<1>2. \A i \in DOMAIN r : i + 1 \in DOMAIN q /\ r[i] = q[i + 1] /\ i + 1 # 1 /\ i \in Nat
  BY <1>1
<1>3. 1 \in DOMAIN q
  BY <1>1
<1>4. \A i \in DOMAIN r : q[i + 1] # Head(q)
  BY <1>1, <1>2, <1>3
<1>5. \A i, j \in DOMAIN r : r[i] = r[j] => i = j
  BY <1>2
<1> QED BY <1>1, <1>2, <1>3, <1>4, <1>5 DEF r

LEMMA InitIInv == Init => IInv
<1> SUFFICES ASSUME Init PROVE IInv
  OBVIOUS
<1>1. TypeOK
  <2>1. \A a \in Accounts : [id |-> 1, account |-> a, state |-> "fresh"] \in Grants
    BY DEF Grants, Ids
  <2>2. grants \in [Labels -> Grants \union {None}] /\ issued \in 0..MaxGrant
    BY <2>1 DEF Init
  <2>3. queue \in Seq(Requests \union {Turn, Check}) /\ DOMAIN queue = {}
    BY DEF Init
  <2> QED BY <2>2, <2>3 DEF Init, TypeOK
<1>2. ViewsFit /\ QueueFits /\ BlockHolds /\ Accounted /\ SocketsFit /\ LiveTurnRidesItsOwn
  BY DEF Init, ViewsFit, QueueFits, BlockHolds, Accounted, SocketsFit, LiveTurnRidesItsOwn
<1> QED BY <1>1, <1>2 DEF IInv

-----------------------------------------------------------------------------
(* Work on the schedule.                                                   *)

LEMMA EnqueueStep ==
    ASSUME IInv, NEW x \in Users, Enqueue(x),
           UNCHANGED <<pin, store, overlay, poison, memory, sockets, history>>
    PROVE  IInv'
<1>0. /\ pc[x] \in Settled /\ queue' = Append(queue, x) /\ pc' = [pc EXCEPT ![x] = "queued"]
      /\ view' = [view EXCEPT ![x] = None]
  BY DEF Enqueue, MayBegin
<1>1. /\ queue \in Seq(Users \union {Check}) /\ x \in Users \union {Check} /\ x # Check
      /\ \A i \in DOMAIN queue : queue[i] # x
  BY <1>0 DEF IInv, TypeOK, QueueFits
<1>2. /\ queue' \in Seq(Users \union {Check})
      /\ \A i, j \in DOMAIN queue' : queue'[i] = queue'[j] => i = j
      /\ \A i \in DOMAIN queue' : queue'[i] = x \/ (i \in DOMAIN queue /\ queue'[i] = queue[i])
      /\ queue # <<>> => queue' # <<>> /\ Head(queue') = Head(queue)
  BY <1>0, <1>1, Longer DEF IInv, TypeOK
<1>3. TypeOK'
  BY <1>0, <1>2 DEF IInv, TypeOK
<1>4. ViewsFit' /\ BlockHolds' /\ Accounted' /\ SocketsFit' /\ LiveTurnRidesItsOwn'
  BY <1>0 DEF IInv, TypeOK, ViewsFit, BlockHolds, Accounted, SocketsFit, LiveTurnRidesItsOwn
<1>5. QueueFits'
  BY <1>0, <1>1, <1>2 DEF IInv, TypeOK, QueueFits, Running
<1> QED BY <1>3, <1>4, <1>5 DEF IInv

\* The head of the schedule leaves it.
LEMMA TaskOver ==
    ASSUME IInv, NEW x \in Users, Running(x), queue' = AfterTask(x), NEW there,
           pc' = [pc EXCEPT ![x] = there], pc[Turn] = "check" => x # Turn,
           there \notin {"queued", "refreshing"}
    PROVE  /\ queue' \in Seq(Users \union {Check})
           /\ \A i, j \in DOMAIN queue' : queue'[i] = queue'[j] => i = j
           /\ QueueFits'
<1>1. queue \in Seq(Users \union {Check}) /\ queue # <<>> /\ Head(queue) = x /\ queue' = Tail(queue)
  BY DEF IInv, TypeOK, Running, AfterTask
<1>2. /\ queue' \in Seq(Users \union {Check})
      /\ \A i, j \in DOMAIN queue' : queue'[i] = queue'[j] => i = j
      /\ \A i \in DOMAIN queue' : \E j \in DOMAIN queue : queue'[i] = queue[j] /\ queue[j] # x
  BY <1>1, Shorter DEF IInv, TypeOK
<1>3. \A y \in Users : pc'[y] # "refreshing"
  BY <1>1 DEF IInv, TypeOK, QueueFits, Running
<1>4. \A y \in Users : y # x => pc'[y] = pc[y]
  BY DEF IInv, TypeOK
<1>5. ASSUME NEW i \in DOMAIN queue'
      PROVE  IF queue'[i] = Check THEN pc'[Turn] = "check" ELSE pc'[queue'[i]] \in {"queued", "refreshing"}
  <2>1. PICK j \in DOMAIN queue : queue'[i] = queue[j] /\ queue[j] # x
    BY <1>2
  <2>2. queue[j] \in Users \union {Check}
    BY <1>1
  <2> QED BY <1>4, <2>1, <2>2 DEF IInv, QueueFits
<1> QED BY <1>2, <1>3, <1>5 DEF QueueFits

\* The sync gives up: it rides nothing.
LEMMA FailedClosed ==
    ASSUME IInv, FailClosed, UNCHANGED <<overlay, overlayActive, orphaned, applied>>,
           sockets' \subseteq sockets, pc[Turn] # "check"
    PROVE  /\ ViewsFit' /\ Accounted' /\ SocketsFit' /\ LiveTurnRidesItsOwn'
           /\ pc' \in [Users -> TurnPcs \union RequestPcs]
           /\ view' \in [Users -> Seats \union Entries \union {Builtin, None}]
           /\ poison' \in BOOLEAN
           /\ \E there \in {"aborted", "sentinel"} : pc' = [pc EXCEPT ![Turn] = there]
<1>1. PICK there \in {"aborted", "sentinel"} : pc' = [pc EXCEPT ![Turn] = there]
  BY DEF FailClosed
<1>2. view' = [view EXCEPT ![Turn] = None] /\ poison' \in {poison, TRUE}
  BY DEF FailClosed
<1>3. ViewsFit' /\ Accounted' /\ SocketsFit' /\ LiveTurnRidesItsOwn'
  BY <1>1, <1>2 DEF IInv, TypeOK, ViewsFit, Accounted, SocketsFit, LiveTurnRidesItsOwn
<1> QED BY <1>1, <1>2, <1>3 DEF IInv, TypeOK

\* A task fails.
LEMMA FailStep ==
    ASSUME IInv, NEW x \in Users, Running(x), pc[x] \in {"queued", "refreshing"}, Fail(x),
           UNCHANGED <<overlay, overlayActive, orphaned, applied>>
    PROVE  /\ queue' \in Seq(Users \union {Check})
           /\ \A i, j \in DOMAIN queue' : queue'[i] = queue'[j] => i = j
           /\ QueueFits' /\ ViewsFit' /\ Accounted' /\ SocketsFit' /\ LiveTurnRidesItsOwn'
           /\ pc' \in [Users -> TurnPcs \union RequestPcs]
           /\ view' \in [Users -> Seats \union Entries \union {Builtin, None}]
           /\ poison' \in BOOLEAN /\ sockets' = sockets
           /\ \A y \in Users : pc'[y] # "refreshing"
<1>0. queue' = AfterTask(x) /\ sockets' = sockets
  BY DEF Fail
<1>1. PICK there \in {"idle", "aborted", "sentinel"} : pc' = [pc EXCEPT ![x] = there]
  BY DEF Fail, FailClosed
<1>2. /\ queue' \in Seq(Users \union {Check})
      /\ \A i, j \in DOMAIN queue' : queue'[i] = queue'[j] => i = j
      /\ QueueFits'
  BY <1>0, <1>1, TaskOver
<1>3. \A y \in Users : pc'[y] # "refreshing"
  BY <1>1 DEF IInv, TypeOK, QueueFits, Running
<1>4. CASE x = Turn
  <2>1. FailClosed
    BY <1>4 DEF Fail
  <2> QED BY <1>0, <1>2, <1>3, <1>4, <2>1, FailedClosed
<1>5. CASE x # Turn
  <2>1. view' = [view EXCEPT ![x] = None] /\ poison' = poison
    BY <1>5 DEF Fail
  <2>2. ViewsFit' /\ Accounted' /\ SocketsFit' /\ LiveTurnRidesItsOwn'
    BY <1>0, <1>1, <1>5, <2>1 DEF IInv, TypeOK, ViewsFit, Accounted, SocketsFit,
                                  LiveTurnRidesItsOwn
  <2> QED BY <1>0, <1>1, <1>2, <1>3, <2>1, <2>2 DEF IInv, TypeOK
<1> QED BY <1>4, <1>5

\* A task resolves a seat, or Pi's own login.
LEMMA ResolveStep ==
    ASSUME IInv, NEW x \in Users, Running(x), pc[x] \in {"queued", "refreshing"},
           NEW seat \in Seats \union {Builtin}, Resolve(x, seat),
           UNCHANGED <<overlay, overlayActive, orphaned, applied>>
    PROVE  /\ queue' \in Seq(Users \union {Check})
           /\ \A i, j \in DOMAIN queue' : queue'[i] = queue'[j] => i = j
           /\ QueueFits' /\ ViewsFit' /\ Accounted' /\ SocketsFit' /\ LiveTurnRidesItsOwn'
           /\ pc' \in [Users -> TurnPcs \union RequestPcs]
           /\ view' \in [Users -> Seats \union Entries \union {Builtin, None}]
           /\ poison' \in BOOLEAN /\ sockets' \subseteq Identities
           /\ \A y \in Users : pc'[y] # "refreshing"
<1>0. queue' = AfterTask(x) /\ poison' = poison
  BY DEF Resolve
<1>1. PICK there \in {"idle", "release", "close"} : pc' = [pc EXCEPT ![x] = there]
  BY DEF Resolve
<1>2. /\ queue' \in Seq(Users \union {Check})
      /\ \A i, j \in DOMAIN queue' : queue'[i] = queue'[j] => i = j
      /\ QueueFits'
  BY <1>0, <1>1, TaskOver
<1>3. \A y \in Users : pc'[y] # "refreshing"
  BY <1>1 DEF IInv, TypeOK, QueueFits, Running
<1>4. Identity(seat) \in Identities /\ Identity(seat) # None
  BY DEF Identity, Identities, Seats
<1>5. CASE x = Turn
  <2>1. /\ view' = [view EXCEPT ![x] = seat] /\ sockets' = sockets
        /\ pc' = [pc EXCEPT ![Turn] = IF seat = Builtin THEN "release" ELSE "close"]
    BY <1>5 DEF Resolve
  <2>2. ViewsFit' /\ Accounted' /\ SocketsFit' /\ LiveTurnRidesItsOwn'
    BY <1>3, <1>5, <2>1 DEF IInv, TypeOK, ViewsFit, Accounted, SocketsFit, LiveTurnRidesItsOwn
  <2>3. view' \in [Users -> Seats \union Entries \union {Builtin, None}]
    BY <2>1 DEF IInv, TypeOK
  <2> QED BY <1>0, <1>1, <1>2, <1>3, <2>1, <2>2, <2>3 DEF IInv, TypeOK
<1>6. CASE x # Turn
  <2>1. /\ view' = [view EXCEPT ![x] = None] /\ pc' = [pc EXCEPT ![x] = "idle"]
        /\ sockets' = sockets \/ (Calm(seat) /\ sockets' = sockets \union {Identity(seat)})
    BY <1>6 DEF Resolve
  <2>2. ViewsFit' /\ Accounted' /\ LiveTurnRidesItsOwn'
    BY <1>3, <1>6, <2>1 DEF IInv, TypeOK, ViewsFit, Accounted, LiveTurnRidesItsOwn
  <2>3. SocketsFit' /\ sockets' \subseteq Identities
    BY <1>4, <1>6, <2>1 DEF IInv, TypeOK, SocketsFit, Calm
  <2>4. view' \in [Users -> Seats \union Entries \union {Builtin, None}]
    BY <2>1 DEF IInv, TypeOK
  <2> QED BY <1>0, <1>1, <1>2, <1>3, <2>2, <2>3, <2>4 DEF IInv, TypeOK
<1> QED BY <1>5, <1>6

LEMMA StartStep ==
    ASSUME IInv, NEW x \in Users, Start(x)
    PROVE  IInv'
<1>0. /\ Running(x) /\ pc[x] = "queued"
      /\ UNCHANGED <<pin, store, overlay, overlayActive, applied, orphaned>>
  BY DEF Start
<1>1. CASE (Fail(x) \/ Resolve(x, Builtin)) /\ UNCHANGED <<blocked, refusal>>
  <2>1. /\ queue' \in Seq(Users \union {Check})
        /\ \A i, j \in DOMAIN queue' : queue'[i] = queue'[j] => i = j
        /\ QueueFits' /\ ViewsFit' /\ Accounted' /\ SocketsFit' /\ LiveTurnRidesItsOwn'
        /\ pc' \in [Users -> TurnPcs \union RequestPcs]
        /\ view' \in [Users -> Seats \union Entries \union {Builtin, None}]
        /\ poison' \in BOOLEAN /\ sockets' \subseteq Identities
        /\ \A y \in Users : pc'[y] # "refreshing"
    <3>1. CASE Fail(x)
      BY <1>0, <3>1, FailStep DEF IInv, TypeOK
    <3>2. CASE Resolve(x, Builtin)
      BY <1>0, <3>2, ResolveStep
    <3> QED BY <1>1, <3>1, <3>2
  <2>2. TypeOK' /\ BlockHolds'
    BY <1>0, <1>1, <2>1 DEF IInv, TypeOK, BlockHolds
  <2> QED BY <2>1, <2>2 DEF IInv
<1>2. CASE /\ Selected # None /\ ~ IsBlocked /\ Unblock /\ pc' = [pc EXCEPT ![x] = "refreshing"]
           /\ view' = [view EXCEPT ![x] = [label |-> Selected, id |-> SelectedId]]
           /\ UNCHANGED <<queue, poison, sockets>>
  <2>1. Selected \in Labels /\ SelectedId \in 0..MaxGrant
    BY <1>2 DEF IInv, TypeOK, Selected, SelectedId, Grants, Ids
  <2>2. [label |-> Selected, id |-> SelectedId] \in Entries
    BY <2>1 DEF Entries
  <2>3. TypeOK'
    BY <1>0, <1>2, <2>2 DEF IInv, TypeOK, Unblock
  <2>4. ViewsFit' /\ QueueFits' /\ Accounted' /\ SocketsFit' /\ LiveTurnRidesItsOwn'
    BY <1>0, <1>2, <2>2 DEF IInv, TypeOK, ViewsFit, QueueFits, Running, Accounted, SocketsFit,
                            LiveTurnRidesItsOwn
  <2>5. BlockHolds'
    <3>1. \A y \in Users : pc'[y] = "refreshing" => y = x
      BY <1>0, <1>2 DEF IInv, TypeOK, QueueFits, Running
    <3>2. blocked' = refusal' /\ (refusal' = None \/ refusal'.label # Selected)
      BY <1>2 DEF IInv, BlockHolds, Unblock, IsBlocked
    <3>3. view'[x].label = Selected
      BY <1>2 DEF IInv, TypeOK
    <3> QED BY <3>1, <3>2, <3>3 DEF BlockHolds
  <2> QED BY <2>3, <2>4, <2>5 DEF IInv
<1> QED BY <1>1, <1>2 DEF Start

\* What a refresh makes of the store is a store.
LEMMA PutTyped ==
    ASSUME IInv, NEW x \in Users, pc[x] = "refreshing", NEW g \in Grants, Put(x, g)
    PROVE  grants' \in [Labels -> Grants \union {None}]
BY DEF IInv, TypeOK, Put

LEMMA CurrentTyped ==
    ASSUME IInv, NEW x \in Users, pc[x] = "refreshing"
    PROVE  /\ view[x] \in Entries /\ view[x].label \in Labels
           /\ Current(x) \in Grants \union {None}
BY DEF IInv, TypeOK, ViewsFit, Entries, Current

\* A refresh that ends: what it leaves of the block and of the store is known.
LEMMA RefreshOver ==
    ASSUME IInv, NEW x \in Users, Running(x), pc[x] = "refreshing",
           Fail(x) \/ \E seat \in Seats : Resolve(x, seat),
           UNCHANGED <<pin, default, overlay, overlayActive, applied, orphaned>>,
           grants' \in [Labels -> Grants \union {None}], issued' \in 0..MaxGrant,
           blocked' = refusal', refusal' \in [label : Labels, id : Ids] \union {None}
    PROVE  IInv'
<1>1. /\ queue' \in Seq(Users \union {Check})
      /\ \A i, j \in DOMAIN queue' : queue'[i] = queue'[j] => i = j
      /\ QueueFits' /\ ViewsFit' /\ Accounted' /\ SocketsFit' /\ LiveTurnRidesItsOwn'
      /\ pc' \in [Users -> TurnPcs \union RequestPcs]
      /\ view' \in [Users -> Seats \union Entries \union {Builtin, None}]
      /\ poison' \in BOOLEAN /\ sockets' \subseteq Identities
      /\ \A y \in Users : pc'[y] # "refreshing"
  <2>1. CASE Fail(x)
    BY <2>1, FailStep DEF IInv, TypeOK
  <2>2. ASSUME NEW seat \in Seats, Resolve(x, seat)
        PROVE  Resolve(x, seat) /\ seat \in Seats \union {Builtin}
    BY <2>2
  <2>3. CASE \E seat \in Seats : Resolve(x, seat)
    BY <2>3, ResolveStep
  <2> QED BY <2>1, <2>3
<1>2. TypeOK' /\ BlockHolds'
  BY <1>1 DEF IInv, TypeOK, BlockHolds
<1> QED BY <1>1, <1>2 DEF IInv

LEMMA RefreshedStep ==
    ASSUME IInv, NEW x \in Users, Refreshed(x)
    PROVE  IInv'
<1>0. /\ Running(x) /\ pc[x] = "refreshing"
      /\ UNCHANGED <<pin, default, overlay, memory, history>>
  BY DEF Refreshed, Refreshing
<1>1. view[x].label \in Labels /\ Current(x) \in Grants \union {None}
  BY <1>0, CurrentTyped
<1>2. CASE /\ Stored(x, "fresh") /\ Resolve(x, Seat(view[x].label, Current(x)))
           /\ UNCHANGED <<grants, issued>>
  <2>1. Seat(view[x].label, Current(x)) \in Seats
    BY <1>1, <1>2 DEF Stored, Seat, Seats, Grants
  <2> QED BY <1>0, <1>2, <2>1, RefreshOver DEF IInv, TypeOK, BlockHolds
<1> DEFINE rotated == [Current(x) EXCEPT !.id = issued + 1, !.state = "fresh"]
<1>3. CASE /\ Stored(x, "expired") /\ issued < MaxGrant /\ issued' = issued + 1
           /\ Put(x, rotated)
           /\ Resolve(x, Seat(view[x].label, rotated)) \/ Fail(x)
  <2>1. issued' \in Ids
    BY <1>3 DEF IInv, TypeOK, Ids
  <2>2. rotated \in Grants
    BY <1>1, <1>3, <2>1 DEF Stored, Grants
  <2>3. Seat(view[x].label, rotated) \in Seats
    BY <1>1, <2>2 DEF Seat, Seats, Grants
  <2>4. grants' \in [Labels -> Grants \union {None}] /\ issued' \in 0..MaxGrant
    BY <1>0, <1>3, <2>1, <2>2, PutTyped DEF Ids
  <2> HIDE DEF rotated
  <2> QED BY <1>0, <1>3, <2>3, <2>4, RefreshOver DEF IInv, TypeOK, BlockHolds
<1> QED BY <1>2, <1>3 DEF Refreshed

LEMMA NotRefreshedStep ==
    ASSUME IInv, NEW x \in Users, NotRefreshed(x)
    PROVE  IInv'
<1>0. /\ Running(x) /\ pc[x] = "refreshing" /\ Fail(x)
      /\ UNCHANGED <<pin, default, issued, overlay, memory, history>>
  BY DEF NotRefreshed, Refreshing
<1>1. grants' \in [Labels -> Grants \union {None}]
  <2>1. CASE UNCHANGED grants
    BY <2>1 DEF IInv, TypeOK
  <2>2. CASE Stored(x, "expired") /\ Put(x, [Current(x) EXCEPT !.state = "dead"])
    <3>1. [Current(x) EXCEPT !.state = "dead"] \in Grants
      BY <1>0, <2>2, CurrentTyped DEF Stored, Grants
    <3> QED BY <1>0, <2>2, <3>1, PutTyped
  <2> QED BY <2>1, <2>2 DEF NotRefreshed
<1> QED BY <1>0, <1>1, RefreshOver DEF IInv, TypeOK, BlockHolds

LEMMA RefusedStep ==
    ASSUME IInv, NEW x \in Users, Refused(x)
    PROVE  IInv'
<1>0. /\ Running(x) /\ pc[x] = "refreshing" /\ Fail(x) /\ Current(x) # None
      /\ UNCHANGED <<pin, store, overlay, overlayActive, applied, orphaned>>
      /\ blocked' = [label |-> view[x].label, id |-> Current(x).id]
      /\ refusal' = [label |-> view[x].label, id |-> Current(x).id]
  BY DEF Refused, Refreshing, Stored, SentToken
<1>1. view[x].label \in Labels /\ Current(x).id \in Ids
  BY <1>0, CurrentTyped DEF Grants
<1> QED BY <1>0, <1>1, RefreshOver DEF IInv, TypeOK

-----------------------------------------------------------------------------
(* The sync applies what it resolved.                                      *)

\* It gives up in the middle of that.
LEMMA GivesUp ==
    ASSUME IInv, FailClosed, pc[Turn] \in {"close", "set", "verify", "release"},
           UNCHANGED <<pin, store, queue, overlay, memory, history>>, sockets' \subseteq sockets
    PROVE  IInv'
<1>1. /\ ViewsFit' /\ Accounted' /\ SocketsFit' /\ LiveTurnRidesItsOwn'
      /\ pc' \in [Users -> TurnPcs \union RequestPcs]
      /\ view' \in [Users -> Seats \union Entries \union {Builtin, None}]
      /\ poison' \in BOOLEAN
      /\ \E there \in {"aborted", "sentinel"} : pc' = [pc EXCEPT ![Turn] = there]
  BY FailedClosed
<1>2. view' = [view EXCEPT ![Turn] = None]
  BY DEF FailClosed
<1>3. TypeOK' /\ QueueFits' /\ BlockHolds'
  BY <1>1, <1>2 DEF IInv, TypeOK, QueueFits, Running, BlockHolds
<1> QED BY <1>1, <1>3 DEF IInv

LEMMA CloseStep ==
    ASSUME IInv, Close
    PROVE  IInv'
<1>0. pc[Turn] = "close" /\ UNCHANGED <<pin, store, queue, overlay, memory, history>>
  BY DEF Close
<1>1. CASE FailClosed /\ UNCHANGED sockets
  BY <1>0, <1>1, GivesUp
<1>2. CASE /\ sockets' = IF OtherIdentity THEN {} ELSE sockets
           /\ pc' = [pc EXCEPT ![Turn] = "set"] /\ UNCHANGED <<view, poison>>
  <2>1. TypeOK' /\ ViewsFit' /\ QueueFits' /\ BlockHolds' /\ Accounted' /\ LiveTurnRidesItsOwn'
    BY <1>0, <1>2 DEF IInv, TypeOK, ViewsFit, QueueFits, Running, BlockHolds, Accounted,
                      LiveTurnRidesItsOwn
  <2>2. SocketsFit'
    BY <1>0, <1>2 DEF IInv, TypeOK, SocketsFit, OtherIdentity, Identity
  <2> QED BY <2>1, <2>2 DEF IInv
<1> QED BY <1>1, <1>2 DEF Close

LEMMA SetKeyStep ==
    ASSUME IInv, SetKey
    PROVE  IInv'
<1>0. pc[Turn] = "set" /\ UNCHANGED <<pin, store, memory, sockets, history>>
  BY DEF SetKey
<1>1. CASE FailClosed /\ UNCHANGED <<queue, overlay>>
  BY <1>0, <1>1, GivesUp
<1>2. CASE /\ overlay' \in {view[Turn].id} \union (IF "forget" \in Faults THEN {overlay} ELSE {})
           /\ queue' = Append(queue, Check) /\ pc' = [pc EXCEPT ![Turn] = "check"]
           /\ UNCHANGED <<view, poison>>
  <2>1. queue \in Seq(Users \union {Check}) /\ \A i \in DOMAIN queue : queue[i] # Check
    BY <1>0 DEF IInv, TypeOK, QueueFits
  <2>2. /\ queue' \in Seq(Users \union {Check})
        /\ \A i, j \in DOMAIN queue' : queue'[i] = queue'[j] => i = j
        /\ \A i \in DOMAIN queue' : queue'[i] = Check \/ (i \in DOMAIN queue /\ queue'[i] = queue[i])
        /\ queue # <<>> => queue' # <<>> /\ Head(queue') = Head(queue)
    BY <1>2, <2>1, Longer DEF IInv, TypeOK
  <2>3. view[Turn].id \in Keys
    BY <1>0 DEF IInv, ViewsFit, Seats, Keys
  <2>4. TypeOK'
    BY <1>0, <1>2, <2>2, <2>3 DEF IInv, TypeOK
  <2>5. ViewsFit' /\ BlockHolds' /\ Accounted' /\ SocketsFit' /\ LiveTurnRidesItsOwn'
    BY <1>0, <1>2 DEF IInv, TypeOK, ViewsFit, BlockHolds, Accounted, SocketsFit, Identity,
                      LiveTurnRidesItsOwn
  <2>6. QueueFits'
    BY <1>0, <1>2, <2>1, <2>2 DEF IInv, TypeOK, QueueFits, Running
  <2> QED BY <2>4, <2>5, <2>6 DEF IInv
<1> QED BY <1>1, <1>2 DEF SetKey

\* Pi's check leaves the schedule, and with it the sync leaves "check".
LEMMA CheckOver ==
    ASSUME IInv, Running(Check), queue' = Tail(queue),
           NEW there \in {"verify", "aborted", "sentinel"}, pc' = [pc EXCEPT ![Turn] = there]
    PROVE  /\ queue' \in Seq(Users \union {Check})
           /\ \A i, j \in DOMAIN queue' : queue'[i] = queue'[j] => i = j
           /\ pc[Turn] = "check" /\ \A y \in Users : pc'[y] # "refreshing"
           /\ QueueFits'
<1>0. queue \in Seq(Users \union {Check}) /\ queue # <<>> /\ Head(queue) = Check
  BY DEF IInv, TypeOK, Running
<1>1. /\ queue' \in Seq(Users \union {Check})
      /\ \A i, j \in DOMAIN queue' : queue'[i] = queue'[j] => i = j
      /\ \A i \in DOMAIN queue' : \E j \in DOMAIN queue : queue'[i] = queue[j] /\ queue[j] # Check
      /\ 1 \in DOMAIN queue /\ queue[1] = Check
  BY <1>0, Shorter DEF IInv, TypeOK
<1>2. pc[Turn] = "check" /\ \A y \in Users : pc[y] # "refreshing"
  BY <1>0, <1>1 DEF IInv, QueueFits, Running
<1>3. ASSUME NEW i \in DOMAIN queue'
      PROVE  queue'[i] # Check /\ pc'[queue'[i]] \in {"queued", "refreshing"}
  <2>1. PICK j \in DOMAIN queue : queue'[i] = queue[j] /\ queue[j] # Check
    BY <1>1
  <2>2. queue[j] \in Users /\ pc[queue[j]] \in {"queued", "refreshing"}
    BY <1>0, <2>1 DEF IInv, QueueFits
  <2> QED BY <1>2, <2>1, <2>2 DEF IInv, TypeOK
<1>4. \A y \in Users : pc'[y] # "refreshing"
  BY <1>2 DEF IInv, TypeOK
<1> QED BY <1>1, <1>2, <1>3, <1>4 DEF QueueFits

LEMMA CheckedStep ==
    ASSUME IInv, Checked
    PROVE  IInv'
<1>0. /\ Running(Check) /\ queue' = Tail(queue)
      /\ pc' = [pc EXCEPT ![Turn] = "verify"] /\ overlayActive' = TRUE /\ orphaned' = FALSE
      /\ UNCHANGED <<pin, store, view, overlay, poison, blocked, applied, sockets, refusal>>
  BY DEF Checked
<1>1. /\ queue' \in Seq(Users \union {Check})
      /\ \A i, j \in DOMAIN queue' : queue'[i] = queue'[j] => i = j
      /\ pc[Turn] = "check" /\ \A y \in Users : pc'[y] # "refreshing"
      /\ QueueFits'
  BY <1>0, CheckOver
<1>2. TypeOK'
  <2>1. Users \union {Check} = Requests \union {Turn, Check}
    OBVIOUS
  <2>2. pc' \in [Users -> TurnPcs \union RequestPcs] /\ orphaned' \in BOOLEAN
    BY <1>0 DEF IInv, TypeOK
  <2> QED BY <1>0, <1>1, <2>1, <2>2 DEF IInv, TypeOK
<1>3. ViewsFit' /\ BlockHolds' /\ Accounted' /\ SocketsFit' /\ LiveTurnRidesItsOwn'
  BY <1>0, <1>1 DEF IInv, TypeOK, ViewsFit, BlockHolds, Accounted, SocketsFit, Identity,
                    LiveTurnRidesItsOwn
<1> QED BY <1>1, <1>2, <1>3 DEF IInv

LEMMA CheckFailsStep ==
    ASSUME IInv, CheckFails
    PROVE  IInv'
<1>0. /\ Running(Check) /\ queue' = Tail(queue)
      /\ orphaned' = (orphaned \/ (~ overlayActive /\ overlay \in Keys))
      /\ UNCHANGED <<pin, store, overlay, memory, sockets, refusal>>
  BY DEF CheckFails
<1>1. PICK there \in {"aborted", "sentinel"} : pc' = [pc EXCEPT ![Turn] = there]
  BY DEF CheckFails, FailClosed
<1>2. view' = [view EXCEPT ![Turn] = None] /\ poison' \in {poison, TRUE}
  BY DEF CheckFails, FailClosed
<1>3. /\ queue' \in Seq(Users \union {Check})
      /\ \A i, j \in DOMAIN queue' : queue'[i] = queue'[j] => i = j
      /\ pc[Turn] = "check" /\ \A y \in Users : pc'[y] # "refreshing"
      /\ QueueFits'
  BY <1>0, <1>1, CheckOver
<1>4. TypeOK'
  <2>1. Users \union {Check} = Requests \union {Turn, Check}
    OBVIOUS
  <2>2. /\ pc' \in [Users -> TurnPcs \union RequestPcs] /\ orphaned' \in BOOLEAN
        /\ view' \in [Users -> Seats \union Entries \union {Builtin, None}] /\ poison' \in BOOLEAN
    BY <1>0, <1>1, <1>2 DEF IInv, TypeOK
  <2> QED BY <1>0, <1>3, <2>1, <2>2 DEF IInv, TypeOK
<1>5. ViewsFit' /\ BlockHolds' /\ SocketsFit' /\ LiveTurnRidesItsOwn'
  BY <1>0, <1>1, <1>2, <1>3 DEF IInv, TypeOK, ViewsFit, BlockHolds, SocketsFit, LiveTurnRidesItsOwn
<1>6. Accounted'
  BY <1>0, <1>1, <1>3 DEF IInv, TypeOK, Accounted
<1> QED BY <1>3, <1>4, <1>5, <1>6 DEF IInv

LEMMA VerifyStep ==
    ASSUME IInv, Verify
    PROVE  IInv'
<1>0. /\ pc[Turn] = "verify"
      /\ UNCHANGED <<pin, store, queue, overlay, overlayActive, blocked, sockets, history>>
  BY DEF Verify
<1>1. CASE FailClosed /\ UNCHANGED applied
  BY <1>0, <1>1, GivesUp
<1>2. CASE /\ Retained /\ applied' = Identity(view[Turn]) /\ pc' = [pc EXCEPT ![Turn] = "applied"]
           /\ UNCHANGED <<view, poison>>
  <2>1. applied' \in Identities
    BY <1>0, <1>2 DEF IInv, ViewsFit, Identity, Identities, Seats
  <2>2. TypeOK' /\ ViewsFit' /\ QueueFits' /\ BlockHolds' /\ Accounted'
    BY <1>0, <1>2, <2>1 DEF IInv, TypeOK, ViewsFit, QueueFits, Running, BlockHolds, Accounted
  <2>3. SocketsFit' /\ LiveTurnRidesItsOwn'
    BY <1>0, <1>2 DEF IInv, TypeOK, SocketsFit, Accounted, LiveTurnRidesItsOwn, Retained
  <2> QED BY <2>2, <2>3 DEF IInv
<1> QED BY <1>1, <1>2 DEF Verify

LEMMA ReleaseStep ==
    ASSUME IInv, Release
    PROVE  IInv'
<1>0. pc[Turn] = "release" /\ UNCHANGED <<pin, store, queue, blocked, refusal>>
  BY DEF Release
<1>1. CASE /\ FailClosed /\ UNCHANGED <<overlay, overlayActive, applied, orphaned>>
           /\ sockets' \in {sockets, SocketsAfterRelease}
  BY <1>0, <1>1, GivesUp DEF SocketsAfterRelease
<1>2. CASE /\ sockets' = IF overlayActive THEN SocketsAfterRelease ELSE sockets
           /\ overlay' = IF overlayActive THEN None ELSE overlay
           /\ orphaned' = (orphaned /\ ~ overlayActive)
           /\ overlayActive' = FALSE /\ applied' = Builtin
           /\ pc' = [pc EXCEPT ![Turn] = "builtin"] /\ UNCHANGED <<view, poison>>
  <2>1. TypeOK'
    BY <1>0, <1>2 DEF IInv, TypeOK, SocketsAfterRelease, Identities
  <2>2. ViewsFit' /\ QueueFits' /\ BlockHolds'
    BY <1>0, <1>2 DEF IInv, TypeOK, ViewsFit, QueueFits, Running, BlockHolds
  <2>3. Accounted' /\ LiveTurnRidesItsOwn'
    BY <1>0, <1>2 DEF IInv, TypeOK, Accounted, LiveTurnRidesItsOwn
  <2>4. SocketsFit'
    BY <1>0, <1>2 DEF IInv, TypeOK, Accounted, SocketsFit, SocketsAfterRelease
  <2> QED BY <2>1, <2>2, <2>3, <2>4 DEF IInv
<1> QED BY <1>1, <1>2 DEF Release

\* A sentinel that lands, or does not, while the sync stands or moves on to its end.
LEMMA SentinelStep ==
    ASSUME IInv, NEW landed \in BOOLEAN, InstallSentinel(landed),
           UNCHANGED <<pin, store, queue, view, blocked, applied, sockets, refusal>>, poison' \in BOOLEAN,
           \/ pc' = pc
           \/ pc[Turn] = "sentinel" /\ pc' = [pc EXCEPT ![Turn] = "aborted"]
           \/ pc[Turn] = "sentinel" /\ landed /\ pc' = [pc EXCEPT ![Turn] = "blocked"]
    PROVE  IInv'
<1>0. /\ overlay' = IF landed THEN Sentinel ELSE overlay
      /\ overlayActive' \in {overlayActive, TRUE} /\ (landed => overlayActive')
      /\ orphaned' = (orphaned /\ ~ landed)
  BY DEF InstallSentinel
<1>1. TypeOK'
  BY <1>0 DEF IInv, TypeOK
<1>2. ViewsFit' /\ QueueFits' /\ BlockHolds' /\ SocketsFit'
  BY DEF IInv, TypeOK, ViewsFit, QueueFits, Running, BlockHolds, SocketsFit
<1>3. Accounted'
  <2>1. overlayActive => overlayActive'
    BY <1>0
  <2>2. /\ pc'[Turn] = "check" <=> pc[Turn] = "check"
        /\ pc'[Turn] = "verify" <=> pc[Turn] = "verify"
    BY DEF IInv, TypeOK
  <2>3. CASE landed
    BY <1>0, <2>2, <2>3 DEF IInv, Accounted
  <2>4. CASE ~ landed
    BY <1>0, <2>1, <2>2, <2>4 DEF IInv, Accounted
  <2> QED BY <2>3, <2>4
<1>4. LiveTurnRidesItsOwn'
  BY <1>0 DEF IInv, TypeOK, LiveTurnRidesItsOwn
<1> QED BY <1>1, <1>2, <1>3, <1>4 DEF IInv

LEMMA SetSentinelStep ==
    ASSUME IInv, SetSentinel \/ Poison
    PROVE  IInv'
<1>1. CASE SetSentinel
  <2>1. pc[Turn] = "sentinel" /\ poison' \in BOOLEAN
        /\ UNCHANGED <<pin, store, queue, view, blocked, applied, sockets, refusal>>
    BY <1>1 DEF IInv, TypeOK, SetSentinel
  <2>2. CASE InstallSentinel(TRUE) /\ pc' = [pc EXCEPT ![Turn] = "blocked"]
    BY <2>1, <2>2, SentinelStep
  <2>3. CASE InstallSentinel(FALSE) /\ pc' = [pc EXCEPT ![Turn] = "aborted"]
    BY <2>1, <2>3, SentinelStep
  <2> QED BY <1>1, <2>2, <2>3 DEF SetSentinel, Unpoisoned
<1>2. CASE Poison
  <2>1. PICK landed \in BOOLEAN : InstallSentinel(landed)
    BY <1>2 DEF Poison
  <2> QED BY <1>2, <2>1, SentinelStep DEF Poison
<1> QED BY <1>1, <1>2

LEMMA ReloadStep ==
    ASSUME IInv, Reload
    PROVE  IInv'
<1>1. TypeOK'
  BY DEF IInv, TypeOK, Reload
<1>2. QueueFits'
  <2>1. queue' = <<>> /\ DOMAIN queue' = {}
    BY DEF Reload
  <2>2. \A x \in Users : pc[x] # "refreshing"
    BY DEF IInv, QueueFits, Running, Reload
  <2> QED BY <2>1, <2>2 DEF IInv, TypeOK, QueueFits, Running, Reload
<1>3. ViewsFit' /\ BlockHolds' /\ Accounted' /\ SocketsFit' /\ LiveTurnRidesItsOwn'
  BY DEF IInv, TypeOK, ViewsFit, BlockHolds, Accounted, SocketsFit, LiveTurnRidesItsOwn, Reload
<1> QED BY <1>1, <1>2, <1>3 DEF IInv

-----------------------------------------------------------------------------
(* Other sessions change the store, which the rest of the state waits to   *)
(* read.                                                                   *)

LEMMA StoreChanges ==
    ASSUME IInv, UNCHANGED session, default' \in Labels \union {None},
           grants' \in [Labels -> Grants \union {None}], issued' \in 0..MaxGrant
    PROVE  IInv'
<1>1. TypeOK' /\ ViewsFit' /\ QueueFits' /\ BlockHolds'
  BY DEF IInv, TypeOK, session, ViewsFit, QueueFits, Running, BlockHolds
<1>2. Accounted' /\ SocketsFit' /\ LiveTurnRidesItsOwn'
  BY DEF IInv, session, Accounted, SocketsFit, Identity, LiveTurnRidesItsOwn
<1> QED BY <1>1, <1>2 DEF IInv

LEMMA ElsewhereStep ==
    ASSUME IInv, NEW l \in Labels,
           \/ \E a \in Accounts : Login(l, a)
           \/ \E m \in Labels : RenameTo(l, m)
           \/ Use(l) \/ Remove(l) \/ Expire(l) \/ Revoke(l) \/ ClearDefault
    PROVE  IInv'
<1>0. /\ grants \in [Labels -> Grants \union {None}] /\ default \in Labels \union {None}
      /\ issued \in 0..MaxGrant
  BY DEF IInv, TypeOK
<1>1. ASSUME NEW a \in Accounts, Login(l, a) PROVE IInv'
  <2>1. issued' \in Ids /\ grants' = [grants EXCEPT ![l] = [id |-> issued', account |-> a, state |-> "fresh"]]
    BY <1>0, <1>1 DEF Login, Ids
  <2>2. [id |-> issued', account |-> a, state |-> "fresh"] \in Grants
    BY <2>1 DEF Grants
  <2> QED BY <1>0, <1>1, <2>1, <2>2, StoreChanges DEF Login, Ids
<1>2. ASSUME NEW m \in Labels, RenameTo(l, m) PROVE IInv'
  <2>1. grants' \in [Labels -> Grants \union {None}] /\ default' \in Labels \union {None}
    BY <1>0, <1>2 DEF RenameTo
  <2> QED BY <1>0, <1>2, <2>1, StoreChanges DEF RenameTo
<1>3. CASE Use(l) \/ Remove(l) \/ ClearDefault
  <2>1. grants' \in [Labels -> Grants \union {None}] /\ default' \in Labels \union {None}
    BY <1>0, <1>3 DEF Use, Remove, ClearDefault
  <2>2. issued' = issued /\ UNCHANGED session
    BY <1>3 DEF Use, Remove, ClearDefault
  <2> QED BY <1>0, <2>1, <2>2, StoreChanges
<1>4. CASE Expire(l) \/ Revoke(l)
  <2>1. PICK s \in {"expired", "dead"} : grants' = [grants EXCEPT ![l].state = s] /\ grants[l] # None
    BY <1>4 DEF Expire, Revoke
  <2>2. [grants[l] EXCEPT !.state = s] \in Grants
    BY <1>0, <2>1 DEF Grants
  <2>3. grants' \in [Labels -> Grants \union {None}]
    BY <1>0, <2>1, <2>2
  <2>4. default' = default /\ issued' = issued /\ UNCHANGED session
    BY <1>4 DEF Expire, Revoke
  <2> QED BY <1>0, <2>3, <2>4, StoreChanges
<1> QED BY <1>1, <1>2, <1>3, <1>4

LEMMA StutterStep ==
    ASSUME IInv, UNCHANGED vars
    PROVE  IInv'
BY DEF vars, IInv, TypeOK, ViewsFit, QueueFits, Running, BlockHolds, Accounted, SocketsFit,
       Identity,
       LiveTurnRidesItsOwn

\* The invariant is inductive.
LEMMA Inductive ==
    ASSUME IInv, [Next]_vars
    PROVE  IInv'
<1>1. CASE SyncBegin
  BY <1>1, EnqueueStep DEF SyncBegin
<1>2. ASSUME NEW r \in Requests, RequestBegin(r) PROVE IInv'
  BY <1>2, EnqueueStep DEF RequestBegin
<1>3. ASSUME NEW x \in Requests \union {Turn}, Task(x) PROVE IInv'
  BY <1>3, StartStep, RefreshedStep, NotRefreshedStep, RefusedStep DEF Task
<1>4. CASE Apply \/ Poison \/ Reload
  BY <1>4, CloseStep, SetKeyStep, CheckedStep, CheckFailsStep, VerifyStep, ReleaseStep, SetSentinelStep,
     ReloadStep DEF Apply
<1>5. ASSUME NEW l \in Labels,
             \/ \E a \in Accounts : Login(l, a)
             \/ \E m \in Labels : RenameTo(l, m)
             \/ Use(l) \/ Remove(l) \/ Expire(l) \/ Revoke(l)
      PROVE  IInv'
  BY <1>5, ElsewhereStep
<1>6. CASE ClearDefault
  <2>1. default' \in Labels \union {None} /\ UNCHANGED <<grants, issued>> /\ UNCHANGED session
    BY <1>6 DEF ClearDefault
  <2> QED BY <2>1, StoreChanges DEF IInv, TypeOK
<1> QED BY <1>1, <1>2, <1>3, <1>4, <1>5, <1>6, StutterStep DEF Next

LEMMA Always == Spec => []IInv
BY InitIInv, Inductive, PTL DEF Spec

-----------------------------------------------------------------------------
(* The theorems.                                                           *)

\* The coordinator's memory, the schedule and the store stay well typed, and nobody
\* is on the schedule twice.
THEOREM AuthTypeCorrect == Spec => []TypeOK
<1>1. IInv => TypeOK
  BY DEF IInv
<1> QED BY <1>1, Always, PTL

\* A turn that was let live rides what its own sync verified, or the sentinel.
THEOREM LiveTurnAlwaysRidesItsOwn == Spec => []LiveTurnRidesItsOwn
<1>1. IInv => LiveTurnRidesItsOwn
  BY DEF IInv
<1> QED BY <1>1, Always, PTL

\* After a successful sync no socket opened in calm belongs to another account.
THEOREM CalmSocketsAlwaysFollow == Spec => []CalmSocketsFollow
<1>1. IInv => CalmSocketsFollow
  BY DEF IInv, SocketsFit, CalmSocketsFollow
<1> QED BY <1>1, Always, PTL

\* The head of the schedule is at its own store work.
THEOREM HeadAlwaysMakesProgress == Spec => []HeadMakesProgress
<1>1. ASSUME IInv PROVE HeadMakesProgress
  <2>1. SUFFICES ASSUME queue # <<>>, Head(queue) # Check
                 PROVE  pc[Head(queue)] \in {"queued", "refreshing"}
    BY DEF HeadMakesProgress
  <2>2. 1 \in DOMAIN queue /\ queue[1] = Head(queue)
    BY <1>1, <2>1, Shorter DEF IInv, TypeOK
  <2> QED BY <1>1, <2>1, <2>2 DEF IInv, QueueFits
<1> QED BY <1>1, Always, PTL

\* A refused token is not sent again under its label.
THEOREM RefusalAlwaysRemembered == Spec => RefusalRemembered
<1>1. ASSUME IInv, NEW x \in Requests \union {Turn}, Refused(x)
      PROVE  refusal # [label |-> view[x].label, id |-> Current(x).id]
  <2>1. refusal = None \/ refusal.label # view[x].label
    BY <1>1 DEF IInv, BlockHolds, Refused, Refreshing
  <2>2. [label |-> view[x].label, id |-> Current(x).id] \in [label : Labels, id : Ids]
    BY <1>1, CurrentTyped DEF Refused, Refreshing, Stored, Grants
  <2>3. CASE refusal = None
    BY <2>2, <2>3 DEF Ids
  <2>4. CASE refusal.label # view[x].label
    BY <2>4
  <2> QED BY <2>1, <2>3, <2>4
<1>2. IInv /\ [Next]_vars
        => [\A x \in Requests \union {Turn} :
              Refused(x) => refusal # [label |-> view[x].label, id |-> Current(x).id]]_vars
  BY <1>1
<1> QED BY <1>2, Always, PTL DEF Spec, RefusalRemembered

=============================================================================
