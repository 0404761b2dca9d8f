-------------------------- MODULE SeatProcessProofs ---------------------------
(***************************************************************************)
(* For any number of children, instances and reloads: whoever owns the     *)
(* provider decides a request, no skipped token is sent, two users of one  *)
(* schedule never freeze the event loop, and seat's wrapper is the         *)
(* outermost one or none.                                                  *)
(***************************************************************************)
EXTENDS SeatProcess, TLAPS

\* Instances that can have users: all but the one that is being loaded.
Known == {i \in Instances : i < instance \/ (i = instance /\ phase # "loading")}

\* A user at work goes through an instance that can have users.
Underway ==
    /\ \A u \in Users : pc[u] \notin Done => via[u] \in Known
    /\ given \subseteq Known
    /\ \A k \in DOMAIN registered : registered[k] \in Instances => registered[k] \in Known

\* The holder of the lock, and nobody else, is refreshing, as the head of its
\* schedule.
HolderRuns == /\ holder # None => Running(holder)
              /\ \A u \in Users : pc[u] = "refreshing" => holder = u

\* Who waits for the lock synchronously is the head of its schedule too, or the
\* instance that is being loaded.
FrozenWaits ==
    /\ frozen # None => holder # None
    /\ frozen \in Users => Running(frozen)
    /\ frozen = Load <=> phase = "loading"

\* What the ownership was, as far as a request can tell.
OwnershipKnown ==
    \A r \in Requests :
       /\ steady[r] # None => steady[r] = owned
       /\ pc[r] = "piRefresh" => steady[r] # TRUE
       /\ pc[r] \in {"acquiring", "refreshing"} => steady[r] # FALSE
       /\ r \in skipped => steady[r] # FALSE

\* An entry that is due is asked about only after its refresh was skipped, which
\* the refresh hook alone decides.
DueIsMarked ==
    \A r \in Requests : /\ pc[r] = "asking" /\ got[r] = "expired" => r \in skipped
                        /\ pc[r] = "owns" => r \notin skipped

\* A wrapper is the outermost provider.
WrapperOutermost == \A k \in DOMAIN registered : registered[k] \in Instances => k = 1

IInv == /\ TypeOK
        /\ Underway
        /\ HolderRuns
        /\ FrozenWaits
        /\ OwnershipKnown
        /\ DueIsMarked
        /\ WrapperOutermost
        /\ NoStaleWrapper

-----------------------------------------------------------------------------

USE ProcessAssumption

\* What joining and leaving a schedule do to it.
LEMMA ScheduleTyped ==
    ASSUME NEW q \in Seq(Users), NEW u \in Users
    PROVE  /\ Append(q, u) \in Seq(Users)
           /\ Without(q, u) \in Seq(Users)
           /\ q # <<>> => Append(q, u) # <<>> /\ Head(Append(q, u)) = Head(q)
BY DEF Without

\* The head of a schedule stays its head, whatever another user does.
LEMMA OthersRunOn ==
    ASSUME TypeOK, NEW u \in Users, NEW v \in Users \ {u}, Running(v), via[v] \in Instances,
           pc'[v] = pc[v], via'[v] = via[v],
           \/ via[u] \in Instances /\ \E how : queue' = AfterTask(u, how)
           \/ \E i \in Instances : queue' = Queued(u, i)
           \/ via[u] \in Instances /\ queue' = [queue EXCEPT ![via[u]] = Append(Without(@, u), u)]
           \/ queue' = queue
    PROVE  Running(v)'
<1> DEFINE q == queue[via[v]]
<1>1. q \in Seq(Users) /\ q # <<>> /\ Head(q) = v
  BY DEF TypeOK, Running
<1>2. Without(q, u) = q
  BY <1>1 DEF Without
<1>3. Append(q, u) # <<>> /\ Head(Append(q, u)) = v
  BY <1>1, ScheduleTyped
<1>4. queue'[via[v]] \in {q, Append(q, u)}
  <2>0. queue \in [Instances -> Seq(Users)]
    BY DEF TypeOK
  <2>1. CASE via[u] \in Instances /\ \E how : queue' = AfterTask(u, how)
    BY <1>2, <2>0, <2>1 DEF AfterTask
  <2>2. CASE \E i \in Instances : queue' = Queued(u, i)
    BY <2>0, <2>2 DEF Queued
  <2>3. CASE via[u] \in Instances /\ queue' = [queue EXCEPT ![via[u]] = Append(Without(@, u), u)]
    BY <1>2, <2>0, <2>3
  <2> QED BY <2>1, <2>2, <2>3
<1> QED BY <1>1, <1>3, <1>4 DEF Running

Providers == Instances \union Others

\* What is under the outermost provider.
LEMMA TailShape ==
    ASSUME NEW held \in Seq(Providers), held # <<>>
    PROVE  /\ Tail(held) \in Seq(Providers)
           /\ \A k \in DOMAIN Tail(held) : k + 1 \in DOMAIN held /\ Tail(held)[k] = held[k + 1]
           /\ ToSet(held) = ToSet(Tail(held)) \union {Head(held)}
<1> DEFINE rest == Tail(held)
<1>1. /\ rest \in Seq(Providers) /\ Len(rest) = Len(held) - 1 /\ Len(rest) \in Nat
      /\ \A k \in 1..Len(rest) : rest[k] = held[k + 1]
      /\ DOMAIN rest = 1..Len(rest) /\ DOMAIN held = 1..Len(held) /\ held[1] = Head(held)
  OBVIOUS
<1> HIDE DEF rest
<1>2. ASSUME NEW k \in DOMAIN held, k # 1 PROVE k - 1 \in DOMAIN rest /\ held[k] = rest[k - 1]
  <2>1. k - 1 \in 1..Len(rest) /\ (k - 1) + 1 = k
    BY <1>1, <1>2
  <2> QED BY <1>1, <2>1
<1>3. \A k \in DOMAIN rest : k + 1 \in DOMAIN held /\ rest[k] = held[k + 1]
  BY <1>1
<1>4. 1 \in DOMAIN held
  BY <1>1
<1>5. ToSet(held) = ToSet(rest) \union {Head(held)}
  <2>1. \A x \in ToSet(held) : x \in ToSet(rest) \union {Head(held)}
    <3> TAKE x \in ToSet(held)
    <3>1. PICK k \in DOMAIN held : held[k] = x
      BY DEF ToSet
    <3>2. CASE k = 1
      BY <1>1, <3>1, <3>2
    <3>3. CASE k # 1
      BY <1>2, <3>1, <3>3 DEF ToSet
    <3> QED BY <3>2, <3>3
  <2>2. \A x \in ToSet(rest) : x \in ToSet(held)
    BY <1>3 DEF ToSet
  <2>3. Head(held) \in ToSet(held)
    BY <1>1, <1>4 DEF ToSet
  <2> QED BY <2>1, <2>2, <2>3
<1> QED BY <1>1, <1>3, <1>5 DEF rest

\* A wrapper around what an earlier instance had wrapped.
LEMMA InstalledShape ==
    ASSUME TypeOK, WrapperOutermost
    PROVE  /\ Installed(registered) \in Seq(Providers)
           /\ \A k \in DOMAIN Installed(registered) :
                 Installed(registered)[k] \in Instances => k = 1 /\ Installed(registered)[k] = instance
           /\ ToSet(Installed(registered)) \intersect Others = ToSet(registered) \intersect Others
<1> DEFINE held == registered
           base == Base(held)
<1>0. held \in Seq(Providers) /\ instance \in Instances
  BY DEF TypeOK, Providers
<1>1. /\ base \in Seq(Providers)
      /\ \A k \in DOMAIN base : base[k] \notin Instances
      /\ ToSet(base) \intersect Others = ToSet(held) \intersect Others
  <2>1. CASE held # <<>> /\ Head(held) \in Instances
    <3>1. base = Tail(held)
      BY <2>1 DEF Base
    <3>2. \A k \in DOMAIN base : base[k] \notin Instances
      BY <1>0, <2>1, <3>1, TailShape DEF WrapperOutermost, Instances
    <3>3. Head(held) \notin Others
      BY <2>1
    <3> QED BY <1>0, <2>1, <3>1, <3>2, <3>3, TailShape
  <2>2. CASE held # <<>> /\ Head(held) \notin Instances
    BY <1>0, <2>2 DEF Base, WrapperOutermost
  <2>3. CASE held = <<>>
    BY <1>0, <2>3 DEF Base
  <2> QED BY <2>1, <2>2, <2>3
<1>2. CASE held # <<>> /\ Head(held) \in {instance, ForeignConfig}
  <2>1. Installed(held) = held /\ held[1] \in {instance, ForeignConfig}
    BY <1>0, <1>2 DEF Installed
  <2>2. \A k \in DOMAIN held : held[k] \in Instances => k = 1 /\ held[k] = instance
    BY <2>1 DEF WrapperOutermost, Others
  <2> QED BY <1>0, <2>1, <2>2
<1>3. CASE ~ (held # <<>> /\ Head(held) \in {instance, ForeignConfig})
  <2> DEFINE new == <<instance>> \o base
  <2>1. Installed(held) = new
    BY <1>3 DEF Installed
  <2> HIDE DEF base
  <2>2. /\ new \in Seq(Providers) /\ Len(new) = Len(base) + 1 /\ new[1] = instance
        /\ \A k \in 2..Len(new) : new[k] = base[k - 1]
        /\ DOMAIN new = 1..Len(new) /\ DOMAIN base = 1..Len(base)
    BY <1>0, <1>1 DEF Providers
  <2> HIDE DEF new
  <2>3. \A k \in DOMAIN new : new[k] \in Instances => k = 1 /\ new[k] = instance
    BY <1>1, <2>2
  <2>4. \A k \in DOMAIN base : k + 1 \in DOMAIN new /\ new[k + 1] = base[k]
    BY <1>1, <2>2
  <2>5. ToSet(new) = ToSet(base) \union {instance}
    BY <1>1, <2>2, <2>4 DEF ToSet
  <2>6. ToSet(new) \intersect Others = ToSet(base) \intersect Others
    BY <1>0, <2>5 DEF Others
  <2> QED BY <1>1, <2>1, <2>2, <2>3, <2>6
<1> QED BY <1>2, <1>3

\* What uninstall leaves has no wrapper.
LEMMA UninstalledShape ==
    ASSUME TypeOK, WrapperOutermost, NoStaleWrapper, phase = "started"
    PROVE  /\ Uninstalled(registered) \in Seq(Providers)
           /\ \A k \in DOMAIN Uninstalled(registered) : Uninstalled(registered)[k] \notin Instances
           /\ ToSet(Uninstalled(registered)) \intersect Others = ToSet(registered) \intersect Others
<1> DEFINE held == registered
<1>0. held \in Seq(Providers) /\ instance \in Instances
  BY DEF TypeOK, Providers
<1>1. CASE held # <<>> /\ Head(held) = instance
  <2> DEFINE rest == Tail(held)
  <2>1. Uninstalled(held) = rest
    BY <1>1 DEF Uninstalled
  <2>2. \A k \in DOMAIN rest : rest[k] \notin Instances
    BY <1>0, <1>1, TailShape DEF WrapperOutermost, Instances
  <2>3. Head(held) \notin Others
    BY <1>0, <1>1
  <2> QED BY <1>0, <1>1, <2>1, <2>2, <2>3, TailShape
<1>2. CASE ~ (held # <<>> /\ Head(held) = instance)
  <2>1. Uninstalled(held) = held
    BY <1>2 DEF Uninstalled
  <2>2. \A k \in DOMAIN held : held[k] \notin Instances
    BY <1>0, <1>2 DEF WrapperOutermost, NoStaleWrapper
  <2> QED BY <1>0, <2>1, <2>2
<1> QED BY <1>1, <1>2

-----------------------------------------------------------------------------
(* Every step keeps the invariant: one lemma per action, one step per      *)
(* conjunct.                                                               *)

USE DEF Users, Done, Tasks, Entries, Instances, Responsive, Goto, store, registry, loop, calls

\* A call that ends: its task, if it had one, was the head of its schedule or none.
LEMMA Ended ==
    ASSUME IInv, NEW u \in Users, NEW how \in Done, pc[u] \notin Done, End(u, how),
           UNCHANGED store, UNCHANGED registry, frozen # Load, frozen' = None,
           holder' = IF holder = u THEN None ELSE holder
    PROVE  IInv'
<1>0. /\ pc' = [pc EXCEPT ![u] = how] /\ via' = [via EXCEPT ![u] = None]
      /\ got' = [r \in Requests |-> IF r = u THEN None ELSE got[r]]
      /\ steady' = [r \in Requests |-> IF r = u THEN None ELSE steady[r]]
      /\ skipped' = skipped \ {u} /\ queue' = AfterTask(u, how)
      /\ UNCHANGED <<owned, entry, instance, phase, broken, registered, given>>
  BY DEF End, Unmarked
<1>00. via[u] \in Known /\ via[u] \in Instances
  BY DEF IInv, Underway, Known
<1>1. TypeOK'
  <2>1. queue' \in [Instances -> Seq(Users)]
    BY <1>0, <1>00, ScheduleTyped DEF IInv, TypeOK, AfterTask
  <2>2. /\ pc' \in [Users -> Done \union Tasks \union {"piRefresh"}]
        /\ via' \in [Users -> Instances \union {None}]
        /\ got' \in [Requests -> Entries \union {None}]
        /\ steady' \in [Requests -> BOOLEAN \union {None}]
    BY <1>0 DEF IInv, TypeOK
  <2>3. skipped' \subseteq {r \in Requests : pc'[r] \in Tasks}
    BY <1>0 DEF IInv, TypeOK
  <2>4. holder' \in {v \in Users : pc'[v] = "refreshing"} \union {None}
    BY <1>0 DEF IInv, TypeOK
  <2> QED BY <1>0, <2>1, <2>2, <2>3, <2>4 DEF IInv, TypeOK
<1>2. Underway'
  BY <1>0 DEF IInv, TypeOK, Underway, Known
<1>3. HolderRuns'
  <2>0. \A v \in Users : pc'[v] = "refreshing" => holder' = v
    BY <1>0 DEF IInv, TypeOK, HolderRuns
  <2> SUFFICES ASSUME holder' # None PROVE Running(holder)'
    BY <2>0 DEF HolderRuns
  <2>1. holder' = holder /\ holder \in Users \ {u} /\ Running(holder) /\ via[holder] \in Instances
    BY DEF IInv, HolderRuns, TypeOK, Underway, Known
  <2>2. pc'[holder] = pc[holder] /\ via'[holder] = via[holder]
    BY <1>0, <2>1 DEF IInv
  <2>3. Running(holder)'
    BY <1>0, <1>00, <2>1, <2>2, OthersRunOn DEF IInv
  <2> QED BY <2>1, <2>3 DEF Running
<1>4. FrozenWaits'
  BY <1>0 DEF IInv, FrozenWaits
<1>5. OwnershipKnown'
  BY <1>0 DEF IInv, TypeOK, OwnershipKnown
<1>6. DueIsMarked'
  BY <1>0 DEF IInv, TypeOK, DueIsMarked
<1>7. WrapperOutermost'
  BY <1>0 DEF IInv, WrapperOutermost
<1>8. NoStaleWrapper'
  BY <1>0 DEF IInv, NoStaleWrapper
<1> QED BY <1>1, <1>2, <1>3, <1>4, <1>5, <1>6, <1>7, <1>8 DEF IInv

\* A task that meets the lock of its own process.
LEMMA Froze ==
    ASSUME IInv, NEW u \in Users, Running(u), pc[u] \in {"owns", "asking"}, frozen = None, Freeze(u)
    PROVE  IInv'
<1>1. TypeOK'
  BY DEF IInv, TypeOK, Freeze
<1>2. Underway' /\ HolderRuns' /\ OwnershipKnown' /\ DueIsMarked' /\ WrapperOutermost' /\ NoStaleWrapper'
  BY DEF IInv, Freeze, Underway, Known, HolderRuns, Running, OwnershipKnown, DueIsMarked,
         WrapperOutermost, NoStaleWrapper
<1>3. FrozenWaits'
  BY DEF IInv, FrozenWaits, Freeze, Running
<1> QED BY <1>1, <1>2, <1>3 DEF IInv

\* A task that goes on: with a next task, or with a refresh of its own.
LEMMA WentOn ==
    ASSUME IInv, NEW u \in Users, NEW there \in Tasks \union {"piRefresh"}, Goto(u, there),
           pc[u] \notin Done, UNCHANGED registry, frozen = None, frozen' = None, UNCHANGED via,
           entry' \in Entries, UNCHANGED <<owned, steady>>,
           got' \in [Requests -> Entries \union {None}],
           skipped' = skipped \/ (u \in Requests /\ skipped' = skipped \union {u}),
           there = "piRefresh" => u \notin skipped',
           holder # u,
           \/ holder' = holder /\ there # "refreshing"
           \/ holder = None /\ holder' = u /\ there = "refreshing" /\ Running(u) /\ UNCHANGED queue,
           \/ \E how : queue' = AfterTask(u, how)
           \/ queue' = Queued(u, via[u])
           \/ queue' = [queue EXCEPT ![via[u]] = Append(Without(@, u), u)]
           \/ queue' = queue
    PROVE  TypeOK' /\ Underway' /\ HolderRuns' /\ FrozenWaits' /\ WrapperOutermost' /\ NoStaleWrapper'
<1>0. pc' = [pc EXCEPT ![u] = there] /\ UNCHANGED <<instance, phase, broken, registered, given>>
  OBVIOUS
<1>00. via[u] \in Known /\ via[u] \in Instances
  BY DEF IInv, Underway, Known
<1>1. TypeOK'
  <2>1. queue' \in [Instances -> Seq(Users)]
    <3>1. queue \in [Instances -> Seq(Users)] /\ queue[via[u]] \in Seq(Users)
      BY <1>00 DEF IInv, TypeOK
    <3>2. Without(queue[via[u]], u) \in Seq(Users) /\ Append(queue[via[u]], u) \in Seq(Users)
      BY <3>1, ScheduleTyped
    <3>3. Append(Without(queue[via[u]], u), u) \in Seq(Users)
      BY <3>2, ScheduleTyped
    <3> QED BY <1>00, <3>1, <3>2, <3>3 DEF AfterTask, Queued
  <2>2. pc' \in [Users -> Done \union Tasks \union {"piRefresh"}]
    BY <1>0 DEF IInv, TypeOK
  <2>3. skipped' \subseteq {r \in Requests : pc'[r] \in Tasks}
    BY <1>0 DEF IInv, TypeOK
  <2>4. holder' \in {v \in Users : pc'[v] = "refreshing"} \union {None}
    BY <1>0 DEF IInv, TypeOK
  <2> QED BY <1>0, <2>1, <2>2, <2>3, <2>4 DEF IInv, TypeOK
<1>2. Underway'
  BY <1>0 DEF IInv, Underway, Known
<1>3. HolderRuns'
  <2>1. CASE holder' = holder
    <3>0. \A v \in Users : pc'[v] = "refreshing" => holder' = v
      BY <1>0, <2>1 DEF IInv, HolderRuns
    <3> SUFFICES ASSUME holder' # None PROVE Running(holder)'
      BY <3>0 DEF HolderRuns
    <3>1. holder \in Users \ {u} /\ Running(holder) /\ via[holder] \in Instances
      BY <2>1 DEF IInv, HolderRuns, TypeOK, Underway, Known
    <3>2. pc'[holder] = pc[holder] /\ via'[holder] = via[holder]
      BY <1>0, <3>1 DEF IInv
    <3>3. Running(holder)'
      BY <1>00, <3>1, <3>2, OthersRunOn DEF IInv
    <3> QED BY <2>1, <3>3 DEF Running
  <2>2. CASE holder' = u /\ there = "refreshing" /\ Running(u) /\ UNCHANGED queue
    BY <1>0, <2>2 DEF HolderRuns, Running, IInv
  <2> QED BY <2>1, <2>2
<1>4. FrozenWaits'
  BY <1>0 DEF IInv, FrozenWaits
<1>5. WrapperOutermost' /\ NoStaleWrapper'
  BY <1>0 DEF IInv, WrapperOutermost, NoStaleWrapper
<1> QED BY <1>1, <1>2, <1>3, <1>4, <1>5

LEMMA BeginStep ==
    ASSUME IInv, NEW r \in Requests, NEW i \in Instances, Begin(r, i)
    PROVE  IInv'
<1>1. TypeOK'
  BY ScheduleTyped DEF IInv, TypeOK, Begin, Queued
<1>2. Underway'
  BY DEF IInv, TypeOK, Underway, Known, Begin
<1>3. HolderRuns'
  BY OthersRunOn DEF IInv, TypeOK, Underway, Known, HolderRuns, Begin
<1>4. FrozenWaits'
  BY DEF IInv, FrozenWaits, Begin
<1>5. OwnershipKnown'
  BY DEF IInv, TypeOK, OwnershipKnown, Begin
<1>6. DueIsMarked'
  BY DEF IInv, TypeOK, DueIsMarked, Begin
<1>7. WrapperOutermost'
  BY DEF IInv, WrapperOutermost, Begin
<1>8. NoStaleWrapper'
  BY DEF IInv, NoStaleWrapper, Begin
<1> QED BY <1>1, <1>2, <1>3, <1>4, <1>5, <1>6, <1>7, <1>8 DEF IInv

LEMMA RefuseStep ==
    ASSUME IInv, NEW r \in Requests, Refuse(r)
    PROVE  IInv'
<1>1. pc[r] \notin Done /\ holder # r /\ frozen = None /\ End(r, "error")
  BY DEF IInv, TypeOK, Refuse
<1> QED BY <1>1, Ended DEF Refuse

LEMMA OwnsStep ==
    ASSUME IInv, NEW r \in Requests, Owns(r)
    PROVE  IInv'
<1>0. r \in Users /\ Running(r) /\ pc[r] = "owns" /\ frozen = None /\ holder # r
  BY DEF IInv, TypeOK, Owns
<1>1. CASE Freeze(r)
  BY <1>0, <1>1, Froze
<1>2. CASE End(r, "error") /\ holder = None /\ UNCHANGED <<store, registry, loop>>
  BY <1>0, <1>2, Ended
<1>3. CASE /\ owned /\ Goto(r, "asking") /\ skipped' = skipped \union {r}
           /\ queue' = [queue EXCEPT ![via[r]] = Append(Without(@, r), r)]
           /\ UNCHANGED <<store, registry, loop, via, got, steady>>
  <2>1. TypeOK' /\ Underway' /\ HolderRuns' /\ FrozenWaits' /\ WrapperOutermost' /\ NoStaleWrapper'
    BY <1>0, <1>3, WentOn DEF IInv, TypeOK
  <2>2. OwnershipKnown'
    BY <1>3 DEF IInv, TypeOK, OwnershipKnown
  <2>3. DueIsMarked'
    BY <1>3 DEF IInv, TypeOK, DueIsMarked
  <2> QED BY <2>1, <2>2, <2>3 DEF IInv
<1>4. CASE /\ ~ owned /\ Goto(r, "piRefresh") /\ queue' = AfterTask(r, "pi")
           /\ UNCHANGED <<store, registry, loop, via, got, skipped, steady>>
  <2>1. r \notin skipped
    BY <1>0 DEF IInv, DueIsMarked
  <2>2. TypeOK' /\ Underway' /\ HolderRuns' /\ FrozenWaits' /\ WrapperOutermost' /\ NoStaleWrapper'
    BY <1>0, <1>4, <2>1, WentOn DEF IInv, TypeOK
  <2>3. OwnershipKnown'
    BY <1>4 DEF IInv, TypeOK, OwnershipKnown
  <2>4. DueIsMarked'
    BY <1>4 DEF IInv, DueIsMarked
  <2> QED BY <2>2, <2>3, <2>4 DEF IInv
<1> QED BY <1>1, <1>2, <1>3, <1>4 DEF Owns, OwnsAnswers

LEMMA PiRefreshEndsStep ==
    ASSUME IInv, NEW r \in Requests, PiRefreshEnds(r)
    PROVE  IInv'
<1>0. r \in Users /\ pc[r] = "piRefresh" /\ frozen = None /\ holder # r
  BY DEF IInv, TypeOK, PiRefreshEnds
<1>1. CASE End(r, "error") /\ UNCHANGED store
  BY <1>0, <1>1, Ended DEF PiRefreshEnds
<1>2. CASE /\ entry' = "fresh" /\ got' = [got EXCEPT ![r] = "fresh"]
           /\ Goto(r, "asking") /\ queue' = Queued(r, via[r])
           /\ UNCHANGED <<owned, via, skipped, steady>>
  <2>1. TypeOK' /\ Underway' /\ HolderRuns' /\ FrozenWaits' /\ WrapperOutermost' /\ NoStaleWrapper'
    <3>1. entry' \in Entries /\ got' \in [Requests -> Entries \union {None}] /\ UNCHANGED <<registry, loop>>
      BY <1>2 DEF IInv, TypeOK, PiRefreshEnds
    <3> QED BY <1>0, <1>2, <3>1, WentOn
  <2>2. OwnershipKnown'
    BY <1>2 DEF IInv, TypeOK, OwnershipKnown
  <2>3. DueIsMarked'
    BY <1>2 DEF IInv, TypeOK, DueIsMarked
  <2> QED BY <2>1, <2>2, <2>3 DEF IInv
<1> QED BY <1>1, <1>2 DEF PiRefreshEnds

LEMMA AskStep ==
    ASSUME IInv, NEW r \in Requests, Ask(r)
    PROVE  IInv'
<1>0. r \in Users /\ Running(r) /\ pc[r] = "asking" /\ frozen = None /\ holder # r
  BY DEF IInv, TypeOK, Ask
<1>1. CASE Freeze(r)
  BY <1>0, <1>1, Froze
<1>2. CASE /\ \E how \in {"error", IF owned THEN "seat" ELSE Delegated(r)} : End(r, how)
           /\ holder = None /\ UNCHANGED <<store, registry, loop>>
  <2>1. PICK how \in Done : End(r, how)
    BY <1>2 DEF Delegated
  <2> QED BY <1>0, <1>2, <2>1, Ended
<1>3. CASE /\ owned /\ Goto(r, "acquiring")
           /\ UNCHANGED <<store, registry, loop, queue, via, got, skipped, steady>>
  <2>1. TypeOK' /\ Underway' /\ HolderRuns' /\ FrozenWaits' /\ WrapperOutermost' /\ NoStaleWrapper'
    BY <1>0, <1>3, WentOn DEF IInv, TypeOK
  <2>2. OwnershipKnown'
    BY <1>3 DEF IInv, TypeOK, OwnershipKnown
  <2>3. DueIsMarked'
    BY <1>3 DEF IInv, DueIsMarked
  <2> QED BY <2>1, <2>2, <2>3 DEF IInv
<1> QED BY <1>1, <1>2, <1>3 DEF Ask

LEMMA SessionBeginStep ==
    ASSUME IInv, SessionBegin
    PROVE  IInv'
<1>1. TypeOK'
  BY DEF IInv, TypeOK, SessionBegin, Queued
<1>2. Underway'
  BY DEF IInv, TypeOK, Underway, Known, SessionBegin
<1>3. HolderRuns'
  BY OthersRunOn DEF IInv, TypeOK, Underway, Known, HolderRuns, SessionBegin
<1>4. FrozenWaits'
  BY DEF IInv, FrozenWaits, SessionBegin
<1>5. OwnershipKnown'
  BY DEF IInv, TypeOK, OwnershipKnown, SessionBegin
<1>6. DueIsMarked'
  BY DEF IInv, DueIsMarked, SessionBegin
<1>7. WrapperOutermost'
  BY DEF IInv, WrapperOutermost, SessionBegin
<1>8. NoStaleWrapper'
  BY DEF IInv, NoStaleWrapper, SessionBegin
<1> QED BY <1>1, <1>2, <1>3, <1>4, <1>5, <1>6, <1>7, <1>8 DEF IInv

LEMMA SessionTaskStep ==
    ASSUME IInv, SessionTask
    PROVE  IInv'
<1>0. Session \in Users /\ Running(Session) /\ pc[Session] = "asking" /\ frozen = None /\ holder # Session
  BY DEF IInv, TypeOK, SessionTask
<1>1. CASE Freeze(Session)
  BY <1>0, <1>1, Froze
<1>2. CASE /\ \E how \in {"idle", "error"} : End(Session, how)
           /\ holder = None /\ UNCHANGED <<store, registry, loop>>
  <2>1. PICK how \in Done : End(Session, how)
    BY <1>2
  <2> QED BY <1>0, <1>2, <2>1, Ended
<1>3. CASE /\ Goto(Session, "acquiring")
           /\ UNCHANGED <<store, registry, loop, queue, via, got, skipped, steady>>
  <2>1. TypeOK' /\ Underway' /\ HolderRuns' /\ FrozenWaits' /\ WrapperOutermost' /\ NoStaleWrapper'
    BY <1>0, <1>3, WentOn DEF IInv, TypeOK
  <2>2. OwnershipKnown' /\ DueIsMarked'
    BY <1>3 DEF IInv, TypeOK, OwnershipKnown, DueIsMarked
  <2> QED BY <2>1, <2>2 DEF IInv
<1> QED BY <1>1, <1>2, <1>3 DEF SessionTask

LEMMA AcquireStep ==
    ASSUME IInv, NEW u \in Users, Acquire(u)
    PROVE  IInv'
<1>0. Running(u) /\ pc[u] = "acquiring" /\ frozen = None /\ holder # u
  BY DEF IInv, TypeOK, Acquire
<1>1. CASE End(u, "error") /\ UNCHANGED loop
  BY <1>0, <1>1, Ended DEF Acquire
<1>2. CASE /\ holder = None /\ holder' = u /\ Goto(u, "refreshing")
           /\ UNCHANGED <<frozen, queue, via, got, skipped, steady>>
  <2>1. TypeOK' /\ Underway' /\ HolderRuns' /\ FrozenWaits' /\ WrapperOutermost' /\ NoStaleWrapper'
    <3>1. entry' \in Entries /\ got' \in [Requests -> Entries \union {None}] /\ UNCHANGED <<store, registry>>
      BY <1>2 DEF IInv, TypeOK, Acquire
    <3> QED BY <1>0, <1>2, <3>1, WentOn
  <2>2. OwnershipKnown' /\ DueIsMarked'
    BY <1>0, <1>2 DEF IInv, TypeOK, OwnershipKnown, DueIsMarked, Acquire
  <2> QED BY <2>1, <2>2 DEF IInv
<1> QED BY <1>1, <1>2 DEF Acquire

LEMMA RefreshEndsStep ==
    ASSUME IInv, NEW u \in Users, RefreshEnds(u)
    PROVE  IInv'
<1>0. Running(u) /\ pc[u] = "refreshing" /\ frozen = None
  BY DEF RefreshEnds
<1>1. holder = u
  BY <1>0 DEF IInv, HolderRuns
<1>2. PICK how \in Done : End(u, how)
  BY DEF RefreshEnds
<1> QED BY <1>0, <1>1, <1>2, Ended DEF RefreshEnds

LEMMA LockTimeoutStep ==
    ASSUME IInv, LockTimeout
    PROVE  IInv'
<1>1. CASE frozen = Load
  <2>1. /\ phase = "loading" /\ phase' = "loaded" /\ frozen' = None /\ instance' = instance
        /\ broken' = broken \union {instance} /\ UNCHANGED <<store, holder, calls, registered, given>>
    BY <1>1 DEF LockTimeout, IInv, FrozenWaits
  <2>2. TypeOK'
    BY <2>1 DEF IInv, TypeOK
  <2>3. Underway' /\ HolderRuns' /\ FrozenWaits'
    BY <2>1 DEF IInv, Underway, Known, HolderRuns, Running, FrozenWaits
  <2>4. OwnershipKnown' /\ DueIsMarked' /\ WrapperOutermost' /\ NoStaleWrapper'
    BY <2>1 DEF IInv, OwnershipKnown, DueIsMarked, WrapperOutermost, NoStaleWrapper
  <2> QED BY <2>2, <2>3, <2>4 DEF IInv
<1>2. CASE frozen # Load
  <2>1. /\ frozen \in Users /\ pc[frozen] \in {"owns", "asking"} /\ holder # frozen
        /\ End(frozen, "error") /\ frozen' = None /\ UNCHANGED <<store, registry, holder>>
    BY <1>2 DEF LockTimeout, IInv, TypeOK
  <2> QED BY <1>2, <2>1, Ended
<1> QED BY <1>1, <1>2

LEMMA FlipStep ==
    ASSUME IInv, Flip
    PROVE  IInv'
<1>1. TypeOK'
  BY DEF IInv, TypeOK, Flip
<1>2. Underway'
  BY DEF IInv, Underway, Known, Flip
<1>3. HolderRuns'
  BY DEF IInv, HolderRuns, Flip, Running
<1>4. FrozenWaits'
  BY DEF IInv, FrozenWaits, Flip, Running
<1>5. OwnershipKnown'
  BY DEF IInv, OwnershipKnown, Flip
<1>6. DueIsMarked'
  BY DEF IInv, DueIsMarked, Flip
<1>7. WrapperOutermost'
  BY DEF IInv, WrapperOutermost, Flip
<1>8. NoStaleWrapper'
  BY DEF IInv, NoStaleWrapper, Flip
<1> QED BY <1>1, <1>2, <1>3, <1>4, <1>5, <1>6, <1>7, <1>8 DEF IInv

LEMMA EntryChangesStep ==
    ASSUME IInv, EntryChanges
    PROVE  IInv'
<1>1. TypeOK'
  BY DEF IInv, TypeOK, EntryChanges
<1>2. Underway'
  BY DEF IInv, Underway, Known, EntryChanges
<1>3. HolderRuns'
  BY DEF IInv, HolderRuns, EntryChanges, Running
<1>4. FrozenWaits'
  BY DEF IInv, FrozenWaits, EntryChanges, Running
<1>5. OwnershipKnown'
  BY DEF IInv, OwnershipKnown, EntryChanges
<1>6. DueIsMarked'
  BY DEF IInv, DueIsMarked, EntryChanges
<1>7. WrapperOutermost'
  BY DEF IInv, WrapperOutermost, EntryChanges
<1>8. NoStaleWrapper'
  BY DEF IInv, NoStaleWrapper, EntryChanges
<1> QED BY <1>1, <1>2, <1>3, <1>4, <1>5, <1>6, <1>7, <1>8 DEF IInv

LEMMA ForeignRegistersStep ==
    ASSUME IInv, ForeignRegisters
    PROVE  IInv'
<1>1. TypeOK'
  <2>1. registered' \in Seq(Instances \union Others)
    <3>1. \A o \in Others : <<o>> \in Seq(Instances \union Others)
      OBVIOUS
    <3>2. <<>> \in Seq(Instances \union Others)
      OBVIOUS
    <3> QED BY <3>1, <3>2 DEF ForeignRegisters
  <2> QED BY <2>1 DEF IInv, TypeOK, ForeignRegisters
<1>2. Underway'
  BY DEF IInv, Underway, Known, ForeignRegisters
<1>3. HolderRuns'
  BY DEF IInv, HolderRuns, ForeignRegisters, Running
<1>4. FrozenWaits'
  BY DEF IInv, FrozenWaits, ForeignRegisters
<1>5. OwnershipKnown'
  BY DEF IInv, OwnershipKnown, ForeignRegisters
<1>6. DueIsMarked'
  BY DEF IInv, DueIsMarked, ForeignRegisters
<1>7. WrapperOutermost'
  BY DEF IInv, WrapperOutermost, ForeignRegisters
<1>8. NoStaleWrapper'
  BY DEF IInv, NoStaleWrapper, ForeignRegisters
<1> QED BY <1>1, <1>2, <1>3, <1>4, <1>5, <1>6, <1>7, <1>8 DEF IInv

LEMMA SessionStartStep ==
    ASSUME IInv, SessionStart
    PROVE  IInv'
<1>1. TypeOK'
  BY InstalledShape DEF IInv, TypeOK, SessionStart, Providers
<1>2. Underway'
  <2>1. registered' = Installed(registered) /\ instance \in Known /\ Known \subseteq Known'
    BY DEF IInv, TypeOK, SessionStart, Known
  <2>2. \A k \in DOMAIN registered' : registered'[k] \in Instances => registered'[k] \in Known'
    BY <2>1, InstalledShape DEF IInv
  <2>3. given' \subseteq Known'
    BY <2>1, <2>2 DEF IInv, Underway, SessionStart, ToSet
  <2> QED BY <2>1, <2>2, <2>3 DEF IInv, Underway, SessionStart
<1>3. HolderRuns'
  BY DEF IInv, HolderRuns, SessionStart, Running
<1>4. FrozenWaits'
  BY DEF IInv, FrozenWaits, SessionStart
<1>5. OwnershipKnown'
  BY DEF IInv, OwnershipKnown, SessionStart
<1>6. DueIsMarked'
  BY DEF IInv, DueIsMarked, SessionStart
<1>7. WrapperOutermost'
  BY InstalledShape DEF IInv, WrapperOutermost, SessionStart
<1>8. NoStaleWrapper'
  BY InstalledShape DEF IInv, NoStaleWrapper, SessionStart
<1> QED BY <1>1, <1>2, <1>3, <1>4, <1>5, <1>6, <1>7, <1>8 DEF IInv

LEMMA ShutdownStep ==
    ASSUME IInv, Shutdown
    PROVE  IInv'
<1>1. TypeOK'
  BY UninstalledShape DEF IInv, TypeOK, Shutdown, Providers
<1>2. Underway'
  BY UninstalledShape DEF IInv, Underway, Known, Shutdown
<1>3. HolderRuns'
  BY DEF IInv, HolderRuns, Shutdown, Running
<1>4. FrozenWaits'
  BY DEF IInv, FrozenWaits, Shutdown
<1>5. OwnershipKnown'
  BY DEF IInv, OwnershipKnown, Shutdown
<1>6. DueIsMarked'
  BY DEF IInv, DueIsMarked, Shutdown
<1>7. WrapperOutermost'
  BY UninstalledShape DEF IInv, WrapperOutermost, Shutdown
<1>8. NoStaleWrapper'
  BY UninstalledShape DEF IInv, NoStaleWrapper, Shutdown
<1> QED BY <1>1, <1>2, <1>3, <1>4, <1>5, <1>6, <1>7, <1>8 DEF IInv

LEMMA ReloadStep ==
    ASSUME IInv, Reload
    PROVE  IInv'
<1>1. TypeOK'
  <2>1. instance + 1 \in Instances
    BY DEF IInv, TypeOK, Reload
  <2>2. instance' \in Instances /\ phase' \in {"loading", "loaded"}
    BY <2>1 DEF Reload
  <2>3. broken' \subseteq Instances
    <3>1. broken' \in {broken, broken \union {instance + 1}}
      BY DEF Reload
    <3>2. broken \subseteq Instances
      BY DEF IInv, TypeOK
    <3> QED BY <2>1, <3>1, <3>2
  <2>4. frozen' \in {Load, None}
    BY DEF Reload
  <2> QED BY <2>2, <2>3, <2>4 DEF IInv, TypeOK, Reload
<1>2. Underway'
  <2>1. instance \in Nat /\ phase # "loading" /\ instance' = instance + 1
    BY DEF IInv, TypeOK, Reload
  <2>2. Known \subseteq Known'
    BY <2>1 DEF Known
  <2> QED BY <2>2 DEF IInv, Underway, Reload
<1>3. HolderRuns'
  BY DEF IInv, HolderRuns, Reload, Running
<1>4. FrozenWaits'
  BY DEF IInv, FrozenWaits, Reload
<1>5. OwnershipKnown'
  BY DEF IInv, OwnershipKnown, Reload
<1>6. DueIsMarked'
  BY DEF IInv, DueIsMarked, Reload
<1>7. WrapperOutermost'
  BY DEF IInv, WrapperOutermost, Reload
<1>8. NoStaleWrapper'
  BY DEF IInv, NoStaleWrapper, Reload
<1> QED BY <1>1, <1>2, <1>3, <1>4, <1>5, <1>6, <1>7, <1>8 DEF IInv

LEMMA InitIInv == Init => IInv
<1> SUFFICES ASSUME Init PROVE IInv
  OBVIOUS
<1>1. TypeOK
  <2>1. registered \in Seq(Instances \union Others)
    <3>1. <<>> \in Seq(Providers) /\ <<Foreign>> \in Seq(Providers) /\ <<ForeignConfig>> \in Seq(Providers)
      BY DEF Providers, Others
    <3> QED BY <3>1 DEF Init, Providers
  <2>2. 1 \in Instances /\ queue \in [Instances -> Seq(Users)]
    BY DEF Init
  <2> QED BY <2>1, <2>2 DEF Init, TypeOK
<1>2. Underway
  BY DEF Init, Underway, Others
<1>3. HolderRuns /\ FrozenWaits /\ OwnershipKnown /\ DueIsMarked
  BY DEF Init, HolderRuns, FrozenWaits, OwnershipKnown, DueIsMarked
<1>4. WrapperOutermost /\ NoStaleWrapper
  BY DEF Init, WrapperOutermost, NoStaleWrapper
<1> QED BY <1>1, <1>2, <1>3, <1>4 DEF IInv

LEMMA StutterStep ==
    ASSUME IInv, UNCHANGED vars
    PROVE  IInv'
<1>1. TypeOK' /\ Underway' /\ HolderRuns' /\ FrozenWaits'
  BY DEF vars, IInv, TypeOK, Underway, Known, HolderRuns, FrozenWaits, Running
<1>2. OwnershipKnown' /\ DueIsMarked' /\ WrapperOutermost' /\ NoStaleWrapper'
  BY DEF vars, IInv, OwnershipKnown, DueIsMarked, WrapperOutermost, NoStaleWrapper
<1> QED BY <1>1, <1>2 DEF IInv

\* The invariant is inductive.
LEMMA Inductive ==
    ASSUME IInv, [Next]_vars
    PROVE  IInv'
<1>1. ASSUME NEW r \in Requests, Request(r) PROVE IInv'
  BY <1>1, RefuseStep, OwnsStep, PiRefreshEndsStep, AskStep DEF Request
<1>2. ASSUME NEW r \in Requests, NEW i \in Instances, Begin(r, i) PROVE IInv'
  BY <1>2, BeginStep
<1>3. ASSUME NEW u \in Users, Refreshing(u) PROVE IInv'
  BY <1>3, AcquireStep, RefreshEndsStep DEF Refreshing
<1>4. CASE SessionBegin \/ SessionTask
  BY <1>4, SessionBeginStep, SessionTaskStep
<1>5. CASE Extension
  BY <1>5, SessionStartStep, ShutdownStep, ReloadStep DEF Extension
<1>6. CASE Flip \/ EntryChanges \/ ForeignRegisters
  BY <1>6, FlipStep, EntryChangesStep, ForeignRegistersStep
<1>7. CASE LockTimeout
  BY <1>7, LockTimeoutStep
<1> QED BY <1>1, <1>2, <1>3, <1>4, <1>5, <1>6, <1>7, StutterStep DEF Next

LEMMA Always == Spec => []IInv
BY InitIInv, Inductive, PTL DEF Spec

-----------------------------------------------------------------------------
(* How a request ends.                                                     *)

\* The steps that end a request, or decide who is to answer it.
LEMMA RequestEnds ==
    ASSUME IInv, [Next]_vars, NEW r \in Requests
    PROVE  /\ Ends(r, "pi") => pc[r] = "asking" /\ ~ owned /\ r \notin skipped
           /\ pc'[r] = "piRefresh" => pc[r] = "piRefresh" \/ (~ owned /\ UNCHANGED steady)
           /\ Ends(r, "seat") => pc[r] = "refreshing" \/ owned
           /\ r \in skipped' => r \in skipped \/ (owned /\ UNCHANGED steady)
<1> DEFINE Fine == /\ Ends(r, "pi") => pc[r] = "asking" /\ ~ owned /\ r \notin skipped
                   /\ pc'[r] = "piRefresh" => pc[r] = "piRefresh" \/ (~ owned /\ UNCHANGED steady)
                   /\ Ends(r, "seat") => pc[r] = "refreshing" \/ owned
                   /\ r \in skipped' => r \in skipped \/ (owned /\ UNCHANGED steady)
<1>0. pc \in [Users -> Done \union Tasks \union {"piRefresh"}]
  BY DEF IInv, TypeOK
<1>1. ASSUME NEW x \in Requests, Request(x) PROVE Fine
  BY <1>0, <1>1 DEF Request, Refuse, Owns, OwnsAnswers, PiRefreshEnds, Ask, Delegated, Freeze,
                    End, Unmarked, Ends
<1>2. ASSUME NEW x \in Requests, NEW i \in Instances, Begin(x, i) PROVE Fine
  BY <1>0, <1>2 DEF Begin, Ends
<1>3. ASSUME NEW u \in Users, Refreshing(u) PROVE Fine
  BY <1>0, <1>3 DEF Refreshing, Acquire, RefreshEnds, End, Unmarked, Ends
<1>4. CASE SessionBegin \/ SessionTask
  BY <1>0, <1>4 DEF SessionBegin, SessionTask, Freeze, End, Unmarked, Ends
<1>5. CASE Extension
  BY <1>0, <1>5 DEF Extension, SessionStart, Shutdown, Reload, Ends
<1>6. CASE Flip \/ EntryChanges \/ ForeignRegisters
  <2>1. pc' = pc /\ skipped' = skipped
    BY <1>6 DEF Flip, EntryChanges, ForeignRegisters
  <2> QED BY <1>0, <2>1 DEF Ends
<1>7. CASE LockTimeout
  BY <1>0, <1>7 DEF LockTimeout, End, Unmarked, Ends
<1>8. CASE UNCHANGED vars
  BY <1>0, <1>8 DEF vars, Ends
<1> QED BY <1>1, <1>2, <1>3, <1>4, <1>5, <1>6, <1>7, <1>8 DEF Next

-----------------------------------------------------------------------------
(* The theorems.                                                           *)

\* Schedules, registrations and requests stay well typed.
THEOREM ProcessTypeCorrect == Spec => []TypeOK
<1>1. IInv => TypeOK
  BY DEF IInv
<1> QED BY <1>1, Always, PTL

\* Two store users of one instance never freeze the event loop they share.
THEOREM NeverFrozenByOneSchedule == Spec => []OneScheduleNeverFreezes
<1>1. ASSUME IInv PROVE OneScheduleNeverFreezes
  <2>1. CASE frozen = Load
    <3>1. holder \in Users /\ pc[holder] = "refreshing" /\ phase = "loading"
      BY <1>1, <2>1 DEF IInv, TypeOK, FrozenWaits
    <3>2. via[holder] \in Known
      BY <1>1, <3>1 DEF IInv, Underway
    <3>4. instance \notin Known
      BY <1>1, <3>1 DEF IInv, Known
    <3>3. via[holder] # instance
      BY <3>2, <3>4
    <3> QED BY <2>1, <3>3 DEF OneScheduleNeverFreezes
  <2>2. CASE frozen \in Users
    BY <1>1, <2>2 DEF IInv, TypeOK, FrozenWaits, HolderRuns, Running, OneScheduleNeverFreezes
  <2> QED BY <1>1, <2>1, <2>2 DEF IInv, TypeOK, OneScheduleNeverFreezes
<1> QED BY <1>1, Always, PTL

\* Who owns the provider throughout a request answers it, or it fails.
THEOREM OwnershipAlwaysDecides == Spec => OwnershipDecides
<1>1. IInv /\ IInv' /\ [Next]_vars
        => [\A r \in Requests :
              /\ Ends(r, "pi") => steady[r] # TRUE
              /\ pc'[r] = "piRefresh" => steady'[r] # TRUE
              /\ Ends(r, "seat") => steady[r] # FALSE
              /\ r \in skipped' => steady'[r] # FALSE]_vars
  BY RequestEnds DEF IInv, OwnershipKnown
<1> QED BY <1>1, Always, PTL DEF Spec, OwnershipDecides

\* A token whose refresh seat skipped is never sent.
THEOREM SkippedTokenNeverSent == Spec => NoSkippedTokenSent
<1>1. IInv /\ [Next]_vars => [\A r \in Requests : Ends(r, "pi") => got[r] # "expired"]_vars
  BY RequestEnds DEF IInv, DueIsMarked
<1> QED BY <1>1, Always, PTL DEF Spec, NoSkippedTokenSent

\* One wrapper at most, around what others registered, which an instance's start
\* and end leave as it is.
THEOREM WrapsOneAlways == Spec => WrapsOneKeepsOthers
<1>1. IInv /\ IInv' /\ [Next]_vars
        => [/\ NoStaleWrapper'
            /\ Extension => ToSet(registered') \intersect Others = ToSet(registered) \intersect Others]_vars
  BY InstalledShape, UninstalledShape DEF IInv, Extension, SessionStart, Shutdown, Reload
<1> QED BY <1>1, Always, Inductive, PTL DEF Spec, WrapsOneKeepsOthers

=============================================================================
