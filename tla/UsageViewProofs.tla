--------------------------- MODULE UsageViewProofs ----------------------------
(***************************************************************************)
(* For any profiles, any number of keys, lookups and redeems, and whatever *)
(* other sessions, the provider and the network do: a reset is spent once  *)
(* per confirmation and never after a cancellation, the outcome told is    *)
(* the outcome, nothing that ends late changes a view that is gone, and    *)
(* the headers and rows of a walk describe one store, completely.          *)
(*                                                                         *)
(* The first part is about the reset flows, and the walk and its rows take *)
(* no part in it: every action that leaves the flows alone is one case     *)
(* (Quiet).  The second is about the walk, the tasks it has on the store   *)
(* schedule and the rows it fills; it rests on the first, since a used     *)
(* reset starts a walk.                                                    *)
(***************************************************************************)
EXTENDS UsageView, SequenceTheorems, WellFoundedInduction, TLAPS

\* What the records of a flow, a lookup and a redeem are made of.
Shapes ==
    /\ disposed \in BOOLEAN /\ flowGen \in Nat
    /\ flow = [phase |-> flow.phase, account |-> flow.account, grant |-> flow.grant, gen |-> flow.gen]
    /\ flow.phase \in {"none", "checking", "confirm", "redeeming"}
    /\ \A l \in lookups : l = [gen |-> l.gen, account |-> l.account, grant |-> l.grant]
    /\ \E S : redeems \in Seq(S)
    /\ \A n \in DOMAIN redeems :
          /\ redeems[n] = [gen |-> redeems[n].gen, account |-> redeems[n].account,
                           grant |-> redeems[n].grant, server |-> redeems[n].server,
                           told |-> redeems[n].told]
          /\ redeems[n].server \in {"travelling", "spent", "refused", "unsent"}

\* An open flow is the one that was started last.
FlowIsLatest == /\ flow.gen = IF flow.phase = "none" THEN 0 ELSE flowGen
                /\ flow.phase # "none" => flowGen # 0

\* A flow has one lookup, and is waiting for it as long as it is the last one.
OneLookupEach ==
    /\ \A l \in lookups : l.gen \in 1..flowGen /\ (l.gen = flowGen => flow.phase = "checking")
    /\ \A l, m \in lookups : l.gen = m.gen => l = m

\* Only flows that were overtaken have been cancelled.
CancelledAreOver == \A g \in cancelled : g \in 1..flowGen /\ g # flowGen

\* A flow that still asks has sent no redeem; one whose answer is awaited is the
\* flow on the screen.
RedeemsFollowYes ==
    \A n \in DOMAIN redeems :
       /\ redeems[n].gen \in 1..flowGen
       /\ redeems[n].gen = flowGen => flow.phase \notin {"checking", "confirm"}
       /\ redeems[n].told = "nothing" /\ ~ disposed
             => flow.phase = "redeeming" /\ redeems[n].gen = flowGen

\* A question ends the lookup of its flow, and is the one that a flow asks.
QuestionsEndLookups ==
    /\ \A q \in questions : q.gen \in 1..flowGen /\ \A l \in lookups : l.gen # q.gen
    /\ flow.phase = "confirm" => Question(flow) \in questions

IInv == /\ Shapes
        /\ FlowIsLatest
        /\ OneLookupEach
        /\ QuestionsEndLookups
        /\ CancelledAreOver
        /\ RedeemsFollowYes
        /\ SpendsWhatWasConfirmed
        /\ CancelledStaysCancelled
        /\ OutcomeIsTrue

-----------------------------------------------------------------------------

\* A list with one more entry.
LEMMA OneMore ==
    ASSUME NEW s, \E S : s \in Seq(S), NEW x
    PROVE  /\ \E S : Append(s, x) \in Seq(S)
           /\ DOMAIN s = 1..Len(s) /\ Len(s) \in Nat
           /\ DOMAIN Append(s, x) = 1..(Len(s) + 1)
           /\ \A n \in DOMAIN s : Append(s, x)[n] = s[n]
           /\ Append(s, x)[Len(s) + 1] = x
<1>1. PICK S : s \in Seq(S)
  OBVIOUS
<1>2. s \in Seq(S \union {x}) /\ x \in S \union {x}
  BY <1>1
<1>3. Append(s, x) \in Seq(S \union {x})
  BY <1>2
<1> QED BY <1>2, <1>3

\* A list with one entry changed.
LEMMA OneChanged ==
    ASSUME NEW s, \E S : s \in Seq(S), NEW n \in DOMAIN s, NEW x
    PROVE  /\ \E S : [s EXCEPT ![n] = x] \in Seq(S)
           /\ DOMAIN [s EXCEPT ![n] = x] = DOMAIN s
           /\ [s EXCEPT ![n] = x][n] = x
           /\ \A m \in DOMAIN s \ {n} : [s EXCEPT ![n] = x][m] = s[m]
<1>1. PICK S : s \in Seq(S)
  OBVIOUS
<1>2. s \in [1..Len(s) -> S \union {x}] /\ DOMAIN s = 1..Len(s) /\ Len(s) \in Nat
  BY <1>1
<1>3. [s EXCEPT ![n] = x] \in [1..Len(s) -> S \union {x}]
  BY <1>2
<1>4. [s EXCEPT ![n] = x] \in Seq(S \union {x})
  BY <1>2, <1>3
<1> QED BY <1>2, <1>4

LEMMA InitIInv == Init => IInv
<1> SUFFICES ASSUME Init PROVE IInv
  OBVIOUS
<1>1. redeems \in Seq({}) /\ DOMAIN redeems = {} /\ lookups = {} /\ cancelled = {} /\ questions = {}
  BY DEF Init
<1>2. Shapes
  BY <1>1 DEF Init, Shapes, NoFlow
<1>3. FlowIsLatest /\ OneLookupEach /\ QuestionsEndLookups /\ CancelledAreOver /\ CancelledStaysCancelled
  BY <1>1 DEF Init, NoFlow, FlowIsLatest, OneLookupEach, QuestionsEndLookups, CancelledAreOver,
              CancelledStaysCancelled
<1>4. RedeemsFollowYes /\ SpendsWhatWasConfirmed /\ OutcomeIsTrue
  BY <1>1 DEF RedeemsFollowYes, SpendsWhatWasConfirmed, OutcomeIsTrue
<1> QED BY <1>2, <1>3, <1>4 DEF IInv

\* A step that leaves the reset flows alone.
LEMMA Quiet ==
    ASSUME IInv, UNCHANGED resets, disposed' \in BOOLEAN, disposed => disposed'
    PROVE  IInv'
<1>1. UNCHANGED <<flow, flowGen, lookups, questions, redeems, cancelled>>
  BY DEF resets
<1>2. Shapes' /\ FlowIsLatest' /\ OneLookupEach' /\ QuestionsEndLookups' /\ CancelledAreOver'
  BY <1>1 DEF IInv, Shapes, FlowIsLatest, OneLookupEach, QuestionsEndLookups, CancelledAreOver
<1>3. RedeemsFollowYes' /\ SpendsWhatWasConfirmed' /\ CancelledStaysCancelled' /\ OutcomeIsTrue'
  BY <1>1 DEF IInv, RedeemsFollowYes, SpendsWhatWasConfirmed, CancelledStaysCancelled,
              OutcomeIsTrue
<1> QED BY <1>2, <1>3 DEF IInv

LEMMA QuietActions ==
    ASSUME IInv,
           \/ Reload \/ Move \/ Enter \/ Read \/ Prepare \/ Dispose \/ Elsewhere
           \/ \E i \in Positions : Settle(i) \/ Drain(i)
           \/ \E a \in Accounts : Apply(a)
           \/ UNCHANGED vars
    PROVE  IInv'
<1> DEFINE Still == UNCHANGED resets /\ (disposed' = disposed \/ disposed' = TRUE)
<1>1. Reload \/ Move \/ Enter \/ Prepare \/ Dispose \/ Elsewhere \/ UNCHANGED vars => Still
  BY DEF Reload, Load, Move, Enter, Prepare, Dispose, Elsewhere, vars, view
<1>2. Read => Still
  BY DEF Read, EndLoad, view
<1>3. (\E i \in Positions : Settle(i) \/ Drain(i)) => Still
  BY DEF Settle, Drain, EndLoad, view
<1>4. (\E a \in Accounts : Apply(a)) => Still
  BY DEF Apply
<1>5. Still
  BY <1>1, <1>2, <1>3, <1>4
<1>6. disposed' \in BOOLEAN /\ (disposed => disposed')
  BY <1>5 DEF IInv, Shapes
<1> QED BY <1>5, <1>6, Quiet

\* A new flow is the latest, and its lookup the only one of its number.
LEMMA StartResetStep ==
    ASSUME IInv, StartReset
    PROVE  IInv'
<1>0. /\ flowGen' = flowGen + 1 /\ flow.phase = "none" /\ ~ disposed /\ disposed' = disposed
      /\ flow' = [phase |-> "checking", account |-> Highlighted, grant |-> None, gen |-> flowGen + 1]
      /\ UNCHANGED <<questions, redeems, cancelled>>
  BY DEF StartReset, Navigable, NoFlow, view
<1>1. PICK g : lookups' = lookups \union {[gen |-> flowGen + 1, account |-> Highlighted, grant |-> g]}
  BY DEF StartReset
<1>2. Shapes'
  BY <1>0, <1>1 DEF IInv, Shapes
<1>3. FlowIsLatest' /\ OneLookupEach' /\ QuestionsEndLookups' /\ CancelledAreOver'
  BY <1>0, <1>1 DEF IInv, Shapes, FlowIsLatest, OneLookupEach, QuestionsEndLookups, CancelledAreOver
<1>4. RedeemsFollowYes'
  BY <1>0 DEF IInv, Shapes, RedeemsFollowYes
<1>5. SpendsWhatWasConfirmed' /\ OutcomeIsTrue'
  BY <1>0 DEF IInv, SpendsWhatWasConfirmed, OutcomeIsTrue
<1>6. CancelledStaysCancelled'
  BY <1>0 DEF IInv, Shapes, CancelledAreOver, CancelledStaysCancelled
<1> QED BY <1>2, <1>3, <1>4, <1>5, <1>6 DEF IInv

\* A lookup that ends is forgotten; in time, it decides its own flow.
LEMMA LookupEnds ==
    ASSUME IInv, NEW l \in lookups, NEW found, EndLookup(l, found), disposed' = disposed,
           found \in {NoFlow, [phase |-> "confirm", account |-> l.account, grant |-> l.grant, gen |-> l.gen]}
    PROVE  IInv'
<1>0. lookups' = lookups \ {l} /\ UNCHANGED <<flowGen, redeems, cancelled>>
  BY DEF EndLookup
<1>1. CASE Late(l)
  <2>0. flow' = flow /\ questions' = questions
    BY <1>1 DEF EndLookup
  <2>1. Shapes' /\ FlowIsLatest' /\ OneLookupEach' /\ QuestionsEndLookups' /\ CancelledAreOver'
    BY <1>0, <2>0 DEF IInv, Shapes, FlowIsLatest, OneLookupEach, QuestionsEndLookups, CancelledAreOver
  <2>2. /\ RedeemsFollowYes' /\ SpendsWhatWasConfirmed' /\ CancelledStaysCancelled'
        /\ OutcomeIsTrue'
    BY <1>0, <2>0 DEF IInv, RedeemsFollowYes, SpendsWhatWasConfirmed, CancelledStaysCancelled,
                      OutcomeIsTrue
  <2> QED BY <2>1, <2>2 DEF IInv
<1>2. CASE ~ Late(l)
  <2>0. /\ flow' = found /\ l.gen = flowGen /\ ~ disposed /\ flow.phase = "checking"
        /\ flow'.phase \in {"none", "confirm"}
        /\ flow'.gen = IF flow'.phase = "none" THEN 0 ELSE flowGen
        /\ questions' = IF flow'.phase = "confirm" THEN questions \union {Question(flow')} ELSE questions
    BY <1>2 DEF IInv, OneLookupEach, EndLookup, Late, NoFlow
  <2>1. Shapes'
    BY <1>0, <2>0 DEF IInv, Shapes, NoFlow
  <2>2. FlowIsLatest' /\ OneLookupEach' /\ CancelledAreOver'
    BY <1>0, <2>0 DEF IInv, FlowIsLatest, OneLookupEach, CancelledAreOver
  <2>3. Question(flow').gen = flow'.gen
    BY DEF Question
  <2>4. QuestionsEndLookups'
    <3>1. \A q \in questions' : q.gen \in 1..flowGen /\ \A m \in lookups' : m.gen # q.gen
      BY <1>0, <2>0, <2>3 DEF IInv, OneLookupEach, QuestionsEndLookups
    <3> QED BY <1>0, <2>0, <3>1 DEF QuestionsEndLookups, Question
  <2>5. SpendsWhatWasConfirmed'
    <3>1. \A q, r \in questions' : q.gen = r.gen => q = r
      BY <2>0, <2>3 DEF IInv, QuestionsEndLookups, SpendsWhatWasConfirmed
    <3>2. questions \subseteq questions'
      BY <2>0
    <3> QED BY <1>0, <3>1, <3>2 DEF IInv, SpendsWhatWasConfirmed, Question
  <2>6. RedeemsFollowYes' /\ OutcomeIsTrue'
    BY <1>0, <2>0 DEF IInv, RedeemsFollowYes, OutcomeIsTrue
  <2>7. CancelledStaysCancelled'
    BY <1>0, <2>0 DEF IInv, Shapes, CancelledAreOver, CancelledStaysCancelled
  <2> QED BY <2>1, <2>2, <2>4, <2>5, <2>6, <2>7 DEF IInv
<1> QED BY <1>1, <1>2

LEMMA CredentialStep ==
    ASSUME IInv, NEW l \in lookups, Credential(l)
    PROVE  IInv'
<1>0. disposed' = disposed
  BY DEF Credential, view
<1>1. CASE EndLookup(l, NoFlow)
  BY <1>0, <1>1, LookupEnds
<1>2. CASE /\ lookups' = (lookups \ {l}) \union {[l EXCEPT !.grant = store.profile[l.account]]}
           /\ UNCHANGED <<flow, flowGen, questions, redeems, cancelled>>
  <2> DEFINE m == [l EXCEPT !.grant = store.profile[l.account]]
  <2>1. l = [gen |-> l.gen, account |-> l.account, grant |-> l.grant]
    BY DEF IInv, Shapes
  <2>2. m = [gen |-> l.gen, account |-> l.account, grant |-> store.profile[l.account]]
    BY <2>1
  <2>0. lookups' = (lookups \ {l}) \union {m}
    BY <1>2
  <2> HIDE DEF m
  <2>3. Shapes'
    BY <1>0, <1>2, <2>0, <2>2 DEF IInv, Shapes
  <2>4. FlowIsLatest' /\ OneLookupEach' /\ QuestionsEndLookups' /\ CancelledAreOver'
    BY <1>2, <2>0, <2>2 DEF IInv, FlowIsLatest, OneLookupEach, QuestionsEndLookups, CancelledAreOver
  <2>5. /\ RedeemsFollowYes' /\ SpendsWhatWasConfirmed' /\ CancelledStaysCancelled'
        /\ OutcomeIsTrue'
    BY <1>0, <1>2 DEF IInv, RedeemsFollowYes, SpendsWhatWasConfirmed, CancelledStaysCancelled,
                      OutcomeIsTrue
  <2> QED BY <2>3, <2>4, <2>5 DEF IInv
<1> QED BY <1>1, <1>2 DEF Credential

LEMMA LookupStep ==
    ASSUME IInv, NEW l \in lookups, Lookup(l)
    PROVE  IInv'
BY LookupEnds DEF Lookup, view

LEMMA CancelStep ==
    ASSUME IInv, Cancel
    PROVE  IInv'
<1>0. /\ flow.phase \in {"checking", "confirm"} /\ flow.gen = flowGen /\ disposed' = disposed
      /\ cancelled' = cancelled \union {flowGen} /\ flowGen' = flowGen + 1 /\ flow' = NoFlow
      /\ UNCHANGED <<lookups, questions, redeems>>
  BY DEF IInv, FlowIsLatest, Cancel, view
<1>1. flowGen \in 1..flowGen
  BY <1>0 DEF IInv, Shapes, FlowIsLatest, OneLookupEach, RedeemsFollowYes
<1>2. Shapes'
  BY <1>0 DEF IInv, Shapes, NoFlow
<1>3. FlowIsLatest' /\ OneLookupEach' /\ QuestionsEndLookups' /\ CancelledAreOver'
  BY <1>0, <1>1 DEF IInv, Shapes, NoFlow, FlowIsLatest, OneLookupEach, QuestionsEndLookups, CancelledAreOver
<1>4. RedeemsFollowYes' /\ SpendsWhatWasConfirmed' /\ OutcomeIsTrue'
  BY <1>0 DEF IInv, Shapes, RedeemsFollowYes, SpendsWhatWasConfirmed, OutcomeIsTrue
<1>5. CancelledStaysCancelled'
  BY <1>0, <1>1 DEF IInv, Shapes, NoFlow, CancelledAreOver, RedeemsFollowYes,
                    CancelledStaysCancelled
<1> QED BY <1>2, <1>3, <1>4, <1>5 DEF IInv

\* The redeem of a confirmed flow is the only one of its number.
LEMMA ConfirmStep ==
    ASSUME IInv, Confirm
    PROVE  IInv'
<1> DEFINE last == Len(redeems) + 1
           new == [gen |-> flow.gen, account |-> flow.account, grant |-> flow.grant,
                   server |-> "travelling", told |-> "nothing"]
<1>0. /\ flow.phase = "confirm" /\ flow.gen = flowGen /\ ~ disposed /\ disposed' = disposed
      /\ redeems' = Append(redeems, new)
      /\ flow' = [flow EXCEPT !.phase = "redeeming"]
      /\ UNCHANGED <<flowGen, lookups, questions, cancelled>>
  BY DEF IInv, FlowIsLatest, Confirm, RedeemGrant, AfterYes, view
<1>1. flow' = [phase |-> "redeeming", account |-> flow.account, grant |-> flow.grant, gen |-> flow.gen]
  BY <1>0 DEF IInv, Shapes
<1>2. /\ \E S : redeems' \in Seq(S)
      /\ last \in DOMAIN redeems' /\ redeems'[last] = new
      /\ \A n \in DOMAIN redeems' : n = last \/ (n \in DOMAIN redeems /\ redeems'[n] = redeems[n])
  <2>1. \E S : redeems \in Seq(S)
    BY DEF IInv, Shapes
  <2> HIDE DEF new
  <2>2. /\ \E S : Append(redeems, new) \in Seq(S)
        /\ DOMAIN redeems = 1..Len(redeems) /\ Len(redeems) \in Nat
        /\ DOMAIN Append(redeems, new) = 1..(Len(redeems) + 1)
        /\ \A n \in DOMAIN redeems : Append(redeems, new)[n] = redeems[n]
        /\ Append(redeems, new)[last] = new
    BY <2>1, OneMore
  <2>3. \A n \in 1..last : n = last \/ n \in 1..Len(redeems)
    BY <2>2
  <2>4. last \in 1..last
    BY <2>2
  <2> QED BY <1>0, <2>2, <2>3, <2>4
<1> HIDE DEF last
<1>3. flowGen \in 1..flowGen
  BY <1>0 DEF IInv, Shapes, FlowIsLatest
<1>4. Shapes'
  BY <1>0, <1>1, <1>2 DEF IInv, Shapes
<1>5. FlowIsLatest' /\ OneLookupEach' /\ QuestionsEndLookups' /\ CancelledAreOver'
  BY <1>0, <1>1 DEF IInv, FlowIsLatest, OneLookupEach, QuestionsEndLookups, CancelledAreOver
<1>6. RedeemsFollowYes'
  BY <1>0, <1>1, <1>2, <1>3 DEF IInv, RedeemsFollowYes
<1>7. SpendsWhatWasConfirmed' /\ OutcomeIsTrue'
  <2>1. Question(new) = Question(flow) /\ Question(new) \in questions /\ new.gen \notin cancelled
    BY <1>0 DEF IInv, QuestionsEndLookups, CancelledStaysCancelled, Question
  <2>2. \A n \in DOMAIN redeems' : Question(redeems'[n]) \in questions /\ redeems'[n].gen \notin cancelled
    BY <1>2, <2>1 DEF IInv, SpendsWhatWasConfirmed
  <2>3. \A n, m \in DOMAIN redeems' : redeems'[n].gen = redeems'[m].gen => n = m
    BY <1>0, <1>2 DEF IInv, RedeemsFollowYes, SpendsWhatWasConfirmed
  <2>4. SpendsWhatWasConfirmed'
    BY <1>0, <2>2, <2>3 DEF IInv, SpendsWhatWasConfirmed, Question
  <2>5. OutcomeIsTrue'
    BY <1>0, <1>2 DEF IInv, OutcomeIsTrue
  <2> QED BY <2>4, <2>5
<1>8. CancelledStaysCancelled'
  BY <1>0, <1>1, <1>2 DEF IInv, CancelledAreOver, CancelledStaysCancelled
<1> QED BY <1>4, <1>5, <1>6, <1>7, <1>8 DEF IInv

LEMMA ServeStep ==
    ASSUME IInv, NEW n \in DOMAIN redeems, Serve(n)
    PROVE  IInv'
<1>0. /\ UNCHANGED <<flow, flowGen, lookups, questions, cancelled, disposed>>
      /\ redeems[n].server = "travelling"
  BY DEF Serve, view
<1>1. PICK s \in {"spent", "refused"} : redeems' = [redeems EXCEPT ![n].server = s]
  BY DEF Serve
<1> DEFINE r == redeems[n]
           new == [r EXCEPT !.server = s]
<1>2. new = [gen |-> r.gen, account |-> r.account, grant |-> r.grant, server |-> s, told |-> r.told]
  BY DEF IInv, Shapes
<1>3. redeems' = [redeems EXCEPT ![n] = new]
  BY <1>1
<1> HIDE DEF new
<1>4. /\ \E S : redeems' \in Seq(S)
      /\ DOMAIN redeems' = DOMAIN redeems /\ redeems'[n] = new
      /\ \A m \in DOMAIN redeems \ {n} : redeems'[m] = redeems[m]
  BY <1>3, OneChanged DEF IInv, Shapes
<1>5. Shapes'
  BY <1>0, <1>2, <1>4 DEF IInv, Shapes
<1>6. FlowIsLatest' /\ OneLookupEach' /\ QuestionsEndLookups' /\ CancelledAreOver'
  BY <1>0 DEF IInv, FlowIsLatest, OneLookupEach, QuestionsEndLookups, CancelledAreOver
<1>7. RedeemsFollowYes' /\ SpendsWhatWasConfirmed' /\ CancelledStaysCancelled'
  <2>1. new.gen = r.gen /\ Question(new) = Question(r)
    BY <1>2 DEF Question
  <2>2. \A m \in DOMAIN redeems' : /\ redeems'[m].gen = redeems[m].gen
                                  /\ Question(redeems'[m]) = Question(redeems[m])
    BY <1>4, <2>1
  <2>3. SpendsWhatWasConfirmed'
    <3>1. \A q : Question(q)' = Question(q')
      BY DEF Question
    <3> QED BY <1>0, <1>4, <2>2, <3>1 DEF IInv, SpendsWhatWasConfirmed
  <2> QED BY <1>0, <1>2, <1>4, <2>3 DEF IInv, RedeemsFollowYes, CancelledStaysCancelled
<1>8. OutcomeIsTrue'
  BY <1>0, <1>2, <1>4 DEF IInv, OutcomeIsTrue
<1> QED BY <1>5, <1>6, <1>7, <1>8 DEF IInv

\* The answer closes the flow, unless the view is gone, and is told as it is.
LEMMA RedeemedStep ==
    ASSUME IInv, NEW n \in DOMAIN redeems, Redeemed(n)
    PROVE  IInv'
<1>1. PICK a \in Answers(redeems[n].server) :
         /\ redeems' = [redeems EXCEPT ![n].told = Told(a),
                                       ![n].server = IF a = "unsent" THEN "unsent" ELSE @]
         /\ IF disposed THEN UNCHANGED <<queue, job, view, flow>>
            ELSE /\ flow' = NoFlow
                 /\ IF Told(a) = "used" THEN Load(queue) ELSE UNCHANGED <<queue, job, view>>
  BY DEF Redeemed
<1> DEFINE r == redeems[n]
           now == IF a = "unsent" THEN "unsent" ELSE r.server
           new == [[r EXCEPT !.told = Told(a)] EXCEPT !.server = now]
<1>0. /\ UNCHANGED <<flowGen, lookups, questions, cancelled, disposed>>
      /\ IF disposed THEN flow' = flow ELSE flow' = NoFlow
      /\ r.told = "nothing" /\ r.server \in {"travelling", "spent", "refused"}
  BY <1>1 DEF IInv, Shapes, Redeemed, Load, view
<1> HIDE DEF now
<1>2. new = [gen |-> r.gen, account |-> r.account, grant |-> r.grant, server |-> now, told |-> Told(a)]
  <2>1. [r EXCEPT !.told = Told(a)] = [gen |-> r.gen, account |-> r.account, grant |-> r.grant,
                                      server |-> r.server, told |-> Told(a)]
    BY DEF IInv, Shapes
  <2>2. [[gen |-> r.gen, account |-> r.account, grant |-> r.grant, server |-> r.server,
          told |-> Told(a)] EXCEPT !.server = now]
           = [gen |-> r.gen, account |-> r.account, grant |-> r.grant, server |-> now, told |-> Told(a)]
    OBVIOUS
  <2> QED BY <2>1, <2>2
<1>3. redeems' = [redeems EXCEPT ![n] = new]
  BY <1>1 DEF IInv, Shapes, now
<1>4. /\ now \in {"travelling", "spent", "refused", "unsent"} /\ Told(a) # "nothing"
      /\ Told(a) = "kept" => now \in {"refused", "unsent"}
      /\ Told(a) = "used" => now = "spent"
  BY <1>0, <1>1 DEF Told, Answers, NothingUsed, now
<1> HIDE DEF new
<1>5. /\ \E S : redeems' \in Seq(S)
      /\ DOMAIN redeems' = DOMAIN redeems /\ redeems'[n] = new
      /\ \A m \in DOMAIN redeems \ {n} : redeems'[m] = redeems[m]
  BY <1>3, OneChanged DEF IInv, Shapes
<1>6. Shapes'
  <2>1. /\ flow' = [phase |-> flow'.phase, account |-> flow'.account, grant |-> flow'.grant, gen |-> flow'.gen]
        /\ flow'.phase \in {"none", "checking", "confirm", "redeeming"}
    BY <1>0 DEF IInv, Shapes, NoFlow
  <2>2. \A m \in DOMAIN redeems' :
          /\ redeems'[m] = [gen |-> redeems'[m].gen, account |-> redeems'[m].account,
                            grant |-> redeems'[m].grant, server |-> redeems'[m].server,
                            told |-> redeems'[m].told]
          /\ redeems'[m].server \in {"travelling", "spent", "refused", "unsent"}
    BY <1>2, <1>4, <1>5 DEF IInv, Shapes
  <2> QED BY <1>0, <1>5, <2>1, <2>2 DEF IInv, Shapes
<1>7. FlowIsLatest' /\ OneLookupEach' /\ QuestionsEndLookups' /\ CancelledAreOver'
  <2>1. ~ disposed => flow.phase = "redeeming"
    BY <1>0 DEF IInv, RedeemsFollowYes
  <2> QED BY <1>0, <2>1 DEF IInv, FlowIsLatest, OneLookupEach, QuestionsEndLookups, CancelledAreOver, NoFlow
<1>8. RedeemsFollowYes' /\ SpendsWhatWasConfirmed'
  <2>1. new.gen = r.gen /\ Question(new) = Question(r)
    BY <1>2 DEF Question
  <2>2. \A m \in DOMAIN redeems' : /\ redeems'[m].gen = redeems[m].gen
                                  /\ Question(redeems'[m]) = Question(redeems[m])
    BY <1>5, <2>1
  <2>3. SpendsWhatWasConfirmed'
    <3>1. \A q : Question(q)' = Question(q')
      BY DEF Question
    <3> QED BY <1>0, <1>5, <2>2, <3>1 DEF IInv, SpendsWhatWasConfirmed
  <2>4. RedeemsFollowYes'
    BY <1>0, <1>2, <1>4, <1>5 DEF IInv, RedeemsFollowYes, SpendsWhatWasConfirmed, NoFlow
  <2> QED BY <2>3, <2>4
<1>9. CancelledStaysCancelled'
  <2>1. flow'.gen \in {flow.gen, 0} /\ 0 \notin cancelled
    BY <1>0 DEF IInv, CancelledAreOver, NoFlow
  <2>2. \A m \in DOMAIN redeems' : m \in DOMAIN redeems /\ redeems'[m].gen = redeems[m].gen
    BY <1>2, <1>5
  <2> QED BY <1>0, <2>1, <2>2 DEF IInv, CancelledStaysCancelled
<1>10. OutcomeIsTrue'
  BY <1>2, <1>4, <1>5 DEF IInv, OutcomeIsTrue
<1> QED BY <1>6, <1>7, <1>8, <1>9, <1>10 DEF IInv

LEMMA Inductive ==
    ASSUME IInv, [Next]_vars
    PROVE  IInv'
<1>1. CASE StartReset \/ Cancel \/ Confirm
  BY <1>1, StartResetStep, CancelStep, ConfirmStep
<1>2. ASSUME NEW l \in lookups, Credential(l) \/ Lookup(l) PROVE IInv'
  BY <1>2, CredentialStep, LookupStep
<1>3. ASSUME NEW n \in DOMAIN redeems, Serve(n) \/ Redeemed(n) PROVE IInv'
  BY <1>3, ServeStep, RedeemedStep
<1> QED BY <1>1, <1>2, <1>3, QuietActions DEF Next, Keys, Work

LEMMA Always == Spec => []IInv
BY InitIInv, Inductive, PTL DEF Spec

-----------------------------------------------------------------------------

\* A view that is gone stays as it was.
LEMMA GoneIsGone ==
    ASSUME Next, disposed
    PROVE  UNCHANGED <<view, flow>>
<1>1. CASE Keys \/ Dispose \/ Elsewhere \/ (\E n \in DOMAIN redeems : Serve(n))
  BY <1>1 DEF Keys, Reload, Move, Enter, StartReset, Cancel, Confirm, Navigable, Dispose,
              Elsewhere,
              Serve, resets
<1>2. CASE Read \/ Prepare
  BY <1>2 DEF Read, Prepare, EndLoad, resets
<1>3. ASSUME NEW i \in Positions, Settle(i) \/ Drain(i) PROVE UNCHANGED <<view, flow>>
  BY <1>3 DEF Settle, Drain, EndLoad, view, resets
<1>4. ASSUME NEW a \in Accounts, Apply(a) PROVE UNCHANGED <<view, flow>>
  BY <1>4 DEF Apply, view, resets
<1>5. ASSUME NEW l \in lookups, Credential(l) \/ Lookup(l) PROVE UNCHANGED <<view, flow>>
  BY <1>5 DEF Credential, Lookup, EndLookup, Late
<1>6. ASSUME NEW n \in DOMAIN redeems, Redeemed(n) PROVE UNCHANGED <<view, flow>>
  BY <1>6 DEF Redeemed
<1> QED BY <1>1, <1>2, <1>3, <1>4, <1>5, <1>6 DEF Next, Work

\* Every redeem answers the one question its flow asked, spends with the login that
\* question was about, and is of a flow that was not cancelled.
THEOREM AlwaysSpendsWhatWasConfirmed == Spec => []SpendsWhatWasConfirmed
<1>1. IInv => SpendsWhatWasConfirmed
  BY DEF IInv
<1> QED BY <1>1, Always, PTL

\* What the view says of a redeem is true of the provider.
THEOREM OutcomeAlwaysTrue == Spec => []OutcomeIsTrue
<1>1. IInv => OutcomeIsTrue
  BY DEF IInv
<1> QED BY <1>1, Always, PTL

\* A cancelled flow stays cancelled, and a view that is gone is not changed.
THEOREM LateIsNeverHeard == Spec => NothingLateIsHeard
<1>1. IInv' /\ [Next]_vars
        => [CancelledStaysCancelled' /\ (disposed => UNCHANGED <<view, flow>>)]_vars
  BY GoneIsGone DEF IInv
<1> QED BY <1>1, Always, Inductive, PTL DEF Spec, NothingLateIsHeard

-----------------------------------------------------------------------------
(* Induction over 0..n: a set that has 0 and every next number has them all *)
(* (a non-empty set of naturals has a least element).                       *)

LEMMA LeastElement ==
    ASSUME NEW T \in SUBSET Nat, T # {}
    PROVE  \E x \in T : \A y \in T : x <= y
<1> DEFINE R == {ss \in Nat \X Nat : ss[1] < ss[2]}
<1>1. IsWellFoundedOn(R, Nat)
  BY NatLessThanWellFounded DEF OpToRel
<1>2. PICK x \in T : \A y \in T : ~ (<<y, x>> \in R)
  <2> HIDE DEF R
  <2> QED BY <1>1, WFMin
<1>3. \A y \in T : x <= y
  <2> TAKE y \in T
  <2>1. <<y, x>> \in Nat \X Nat
    OBVIOUS
  <2> QED BY <1>2, <2>1
<1> QED BY <1>3

LEMMA SetInduction ==
    ASSUME NEW n \in Nat, NEW T, 0 \in T,
           \A i \in 0..n : i # n /\ i \in T => i + 1 \in T
    PROVE  0..n \subseteq T
<1> SUFFICES ASSUME ~ (0..n \subseteq T) PROVE FALSE
  OBVIOUS
<1> DEFINE U == (0..n) \ T
<1>1. U \in SUBSET Nat /\ U # {}
  OBVIOUS
<1>2. PICK x \in U : \A y \in U : x <= y
  <2> HIDE DEF U
  <2> QED BY <1>1, LeastElement
<1>3. x # 0 /\ x \in 0..n /\ x - 1 \in 0..n /\ x - 1 # n
  BY <1>2
<1>4. x - 1 \in T
  BY <1>2, <1>3
<1> QED BY <1>2, <1>3, <1>4

-----------------------------------------------------------------------------
(* The walk order is a list of accounts, none of them in it twice.  The     *)
(* function StoredBut computes it by is built one argument at a time,       *)
(* together with the bound on its values.                                   *)

Apart(p) == \A a, b \in 1..Len(p) : p[a] = p[b] => a = b

Listed(x, p) == \E a \in 1..Len(p) : p[a] = x

LEMMA StoredButTyped ==
    ASSUME NEW s \in Stores, NEW but \in Accounts
    PROVE  /\ StoredBut(s, but) \in Seq(Labels)
           /\ Len(StoredBut(s, but)) <= Len(Order)
           /\ but \in Labels => Len(StoredBut(s, but)) < Len(Order)
           /\ \A a \in 1..Len(StoredBut(s, but)) :
                 StoredBut(s, but)[a] # but /\ s.profile[StoredBut(s, but)[a]] # None
           /\ \A l \in Labels : l # but /\ s.profile[l] # None => Listed(l, StoredBut(s, but))
           /\ Apart(StoredBut(s, but))
<1> DEFINE n == Len(Order)
           Out(i) == Order[i] = but \/ s.profile[Order[i]] = None
           Step(i, p) == IF Out(i) THEN p ELSE Append(p, Order[i])
           Met(i) == \E j \in 1..i : Order[j] = but
           Short(p, i) == Len(p) <= i /\ (Met(i) => Len(p) < i)
           Drawn(p, i) == \A a \in 1..Len(p) : /\ p[a] # but /\ s.profile[p[a]] # None
                                               /\ \E j \in 1..i : p[a] = Order[j]
           Filled(p, i) == \A j \in 1..i : Out(j) \/ Listed(Order[j], p)
           Fits(p, i) == Short(p, i) /\ Drawn(p, i) /\ Filled(p, i) /\ Apart(p)
           P(k) == \E g \in [0..k -> Seq(Labels)] :
                      /\ g[0] = <<>>
                      /\ \A i \in 1..k : g[i] = Step(i, g[i - 1])
                      /\ \A i \in 0..k : Fits(g[i], i)
           T == {k \in 0..n : P(k)}
<1>1. n \in Nat /\ \A i \in 1..n : Order[i] \in Labels
  BY ViewAssumption
<1>2. 0 \in T
  <2> DEFINE g == [i \in 0..0 |-> <<>>]
  <2>1. g \in [0..0 -> Seq(Labels)] /\ g[0] = <<>> /\ 1..0 = {} /\ \A i \in 0..0 : i = 0
    OBVIOUS
  <2>2. Fits(<<>>, 0)
    BY DEF Apart, Listed
  <2>3. P(0)
    <3> HIDE DEF Step, Fits, g
    <3> QED BY <2>1, <2>2
  <2> HIDE DEF P
  <2> QED BY <1>1, <2>3
<1>3. ASSUME NEW k \in 0..n, k # n, k \in T PROVE k + 1 \in T
  <2>1. PICK g \in [0..k -> Seq(Labels)] :
           /\ g[0] = <<>>
           /\ \A i \in 1..k : g[i] = Step(i, g[i - 1])
           /\ \A i \in 0..k : Fits(g[i], i)
    BY <1>3
  <2> DEFINE v == Step(k + 1, g[k])
             h == [i \in 0..(k+1) |-> IF i = k+1 THEN v ELSE g[i]]
  <2>2. /\ k \in Nat /\ k + 1 \in 1..n /\ g[k] \in Seq(Labels) /\ k \in 0..k
        /\ Order[k + 1] \in Labels
    BY <1>1, <1>3
  <2>3. v \in Seq(Labels) /\ Len(v) = IF Out(k + 1) THEN Len(g[k]) ELSE Len(g[k]) + 1
    <3> HIDE DEF Out
    <3> QED BY <2>2
  <2>4. Fits(v, k + 1)
    <3>0. Short(g[k], k) /\ Drawn(g[k], k) /\ Filled(g[k], k) /\ Apart(g[k])
      BY <2>1, <2>2
    <3>1. Len(g[k]) \in Nat /\ Len(g[k]) <= k /\ (Met(k) => Len(g[k]) < k)
      BY <2>2, <3>0
    <3>2. Met(k + 1) => Met(k) \/ Out(k + 1)
      BY <2>2
    <3>3. Short(v, k + 1)
      <4> HIDE DEF Met, Out, v
      <4> QED BY <2>2, <2>3, <3>1, <3>2
    <3>4. CASE Out(k + 1)
      <4>1. /\ v = g[k] /\ \A j \in 1..k : j \in 1..(k + 1)
            /\ \A j \in 1..(k + 1) : j \in 1..k \/ j = k + 1
        BY <2>2, <3>4
      <4> HIDE DEF v, Out, Short
      <4>2. Drawn(v, k + 1)
        BY <3>0, <4>1
      <4>3. Filled(v, k + 1)
        BY <3>0, <3>4, <4>1
      <4> QED BY <3>0, <3>3, <4>1, <4>2, <4>3
    <3>5. CASE ~ Out(k + 1)
      <4>1. /\ v = Append(g[k], Order[k + 1]) /\ Order[k + 1] # but /\ s.profile[Order[k + 1]] # None
            /\ DOMAIN Order = 1..n /\ IsInjective(Order)
        BY <2>2, <3>5, ViewAssumption
      <4>2. \A j \in 1..k : j \in 1..(k + 1) /\ j \in 1..n /\ j # k + 1
        BY <2>2
      <4>3. \A j \in 1..k : Order[j] # Order[k + 1]
        <5> HIDE DEF n, v
        <5> QED BY <2>2, <4>1, <4>2 DEF IsInjective
      <4>4. /\ Len(v) = Len(g[k]) + 1 /\ v[Len(g[k]) + 1] = Order[k + 1]
            /\ \A a \in 1..Len(g[k]) : v[a] = g[k][a]
        <5> HIDE DEF v
        <5> QED BY <2>2, <4>1
      <4>5. \A a \in 1..Len(v) : a \in 1..Len(g[k]) \/ a = Len(g[k]) + 1
        <5> HIDE DEF v
        <5> QED BY <3>1, <4>4
      <4>5a. Drawn(g[k], k)
        BY <3>0
      <4>5b. Apart(g[k])
        BY <3>0
      <4>6. Drawn(v, k + 1)
        <5>1. \A a \in 1..Len(g[k]) : \E j \in 1..(k + 1) : v[a] = Order[j]
          <6> HIDE DEF v, n
          <6> QED BY <4>2, <4>4, <4>5a
        <5>2. \A a \in 1..Len(g[k]) : v[a] # but /\ s.profile[v[a]] # None
          <6> HIDE DEF v, n
          <6> QED BY <4>4, <4>5a
        <5>3. k + 1 \in 1..(k + 1)
          BY <2>2
        <5> HIDE DEF v, n
        <5> QED BY <4>1, <4>4, <4>5, <5>1, <5>2, <5>3
      <4>7. Apart(v)
        <5>1. \A a \in 1..Len(g[k]) : v[a] # v[Len(g[k]) + 1]
          <6> HIDE DEF v, n
          <6> QED BY <4>3, <4>4, <4>5a
        <5> HIDE DEF v, n
        <5> QED BY <4>4, <4>5, <4>5b, <5>1 DEF Apart
      <4>8. /\ \A j \in 1..(k + 1) : j \in 1..k \/ j = k + 1
            /\ \A a \in 1..Len(g[k]) : a \in 1..Len(v)
            /\ Len(g[k]) + 1 \in 1..Len(v)
        <5> HIDE DEF v
        <5> QED BY <2>2, <3>1, <4>4
      <4>9. Filled(v, k + 1)
        <5> HIDE DEF v, Out, n
        <5> QED BY <3>0, <4>4, <4>8 DEF Listed
      <4> HIDE DEF v, Short, Drawn, Filled
      <4> QED BY <3>3, <4>6, <4>7, <4>9
    <3> QED BY <3>4, <3>5
  <2>5. /\ \A i \in 0..k : i \in 0..(k+1) /\ i # k+1
        /\ \A i \in 0..(k+1) : i # k+1 => i \in 0..k
    BY <2>2
  <2> HIDE DEF v
  <2>6. h \in [0..(k+1) -> Seq(Labels)] /\ h[k+1] = v /\ \A i \in 0..k : h[i] = g[i]
    BY <2>2, <2>3, <2>5
  <2>7. h[0] = <<>> /\ \A i \in 1..(k+1) : h[i] = Step(i, h[i-1])
    <3> HIDE DEF h, Step
    <3>1. h[0] = <<>>
      BY <2>1, <2>2, <2>6
    <3>2. ASSUME NEW i \in 1..(k+1) PROVE h[i] = Step(i, h[i-1])
      <4>1. CASE i = k+1
        BY <4>1, <2>2, <2>6 DEF v
      <4>2. CASE i # k+1
        <5>1. i \in 1..k /\ i \in 0..k /\ i - 1 \in 0..k
          BY <4>2, <2>2
        <5> QED BY <5>1, <2>1, <2>6
      <4> QED BY <4>1, <4>2
    <3> QED BY <3>1, <3>2
  <2>8. \A i \in 0..(k+1) : Fits(h[i], i)
    <3> HIDE DEF h, Fits
    <3> QED BY <2>1, <2>4, <2>5, <2>6
  <2>9. P(k + 1)
    <3> HIDE DEF h, Fits, Step
    <3> QED BY <2>6, <2>7, <2>8
  <2>10. k + 1 \in 0..n
    BY <1>1, <2>2
  <2> HIDE DEF P
  <2> QED BY <2>9, <2>10
<1>4. PICK g \in [0..n -> Seq(Labels)] :
         /\ g[0] = <<>>
         /\ \A i \in 1..n : g[i] = Step(i, g[i - 1])
         /\ \A i \in 0..n : Fits(g[i], i)
  <2>1. 0..n \subseteq T
    <3> HIDE DEF T, n
    <3> QED BY <1>1, <1>2, <1>3, SetInduction
  <2>2. n \in 0..n
    BY <1>1
  <2>3. P(n)
    <3> HIDE DEF P, n
    <3> QED BY <2>1, <2>2
  <2> QED BY <2>3
<1> DEFINE Body(f) == [i \in 0..n |-> IF i = 0 THEN <<>> ELSE Step(i, f[i - 1])]
           kept == CHOOSE f : f = Body(f)
<1>5. StoredBut(s, but) = kept[n]
  BY DEF StoredBut
<1>6. Body(g) = g
  <2>1. \A i \in 0..n : i # 0 => i \in 1..n
    BY <1>1
  <2> HIDE DEF n, Step
  <2> QED BY <1>4, <2>1
<1>7. kept = Body(kept)
  <2> HIDE DEF Body
  <2> QED BY <1>6
<1>8. \A i \in 0..n : kept[i] = g[i]
  <2> DEFINE U == {i \in 0..n : kept[i] = g[i]}
  <2>1. ASSUME NEW f PROVE Body(f)[0] = <<>> /\ \A i \in 1..n : Body(f)[i] = Step(i, f[i - 1])
    <3>1. 0 \in 0..n /\ \A i \in 1..n : i \in 0..n /\ i # 0
      BY <1>1
    <3> HIDE DEF n, Step
    <3> QED BY <3>1
  <2>2. kept[0] = <<>> /\ \A i \in 1..n : kept[i] = Step(i, kept[i - 1])
    <3> HIDE DEF kept, Body, Step, n
    <3> QED BY <1>7, <2>1
  <2>3. 0 \in U
    BY <1>1, <1>4, <2>2
  <2>4. ASSUME NEW i \in 0..n, i # n, i \in U PROVE i + 1 \in U
    <3>1. i + 1 \in 1..n /\ i + 1 \in 0..n /\ (i + 1) - 1 = i
      BY <1>1, <2>4
    <3>2. kept[i + 1] = Step(i + 1, kept[i]) /\ g[i + 1] = Step(i + 1, g[i])
      <4> HIDE DEF kept, Step, n
      <4> QED BY <1>4, <2>2, <3>1
    <3> HIDE DEF kept, Step, n
    <3> QED BY <2>4, <3>1, <3>2
  <2>5. 0..n \subseteq U
    <3> HIDE DEF U, n
    <3> QED BY <1>1, <2>3, <2>4, SetInduction
  <2> QED BY <2>5
<1>9. n \in 0..n /\ Fits(g[n], n) /\ g[n] \in Seq(Labels) /\ StoredBut(s, but) = g[n]
  <2> HIDE DEF kept, Fits
  <2> QED BY <1>1, <1>4, <1>5, <1>8
<1>10. but \in Labels => Met(n)
  BY <1>1 DEF Labels, ToSet
<1>11. \A l \in Labels : \E j \in 1..n : l = Order[j]
  BY <1>1 DEF Labels, ToSet
<1>12. ASSUME NEW l \in Labels, l # but, s.profile[l] # None PROVE Listed(l, g[n])
  <2>1. PICK j \in 1..n : l = Order[j]
    BY <1>11
  <2>2. ~ Out(j) /\ Filled(g[n], n)
    BY <1>9, <1>12, <2>1
  <2> HIDE DEF Out, n
  <2> QED BY <2>1, <2>2
<1>13. \A a \in 1..Len(g[n]) : g[n][a] # but /\ s.profile[g[n][a]] # None
  <2>1. Drawn(g[n], n)
    BY <1>9
  <2> HIDE DEF n
  <2> QED BY <2>1
<1>14. Short(g[n], n) /\ Apart(g[n])
  BY <1>9
<1> HIDE DEF n, Met
<1> QED BY <1>9, <1>10, <1>12, <1>13, <1>14 DEF n

LEMMA JoinedApart ==
    ASSUME NEW S, NEW p \in Seq(S), NEW q \in Seq(S), Apart(p), Apart(q),
           \A a \in 1..Len(p), b \in 1..Len(q) : p[a] # q[b]
    PROVE  Apart(p \o q)
<1>1. /\ Len(p) \in Nat /\ Len(q) \in Nat /\ Len(p \o q) = Len(p) + Len(q)
      /\ \A a \in 1..Len(p) : (p \o q)[a] = p[a]
      /\ \A a \in (Len(p) + 1)..(Len(p) + Len(q)) :
            a - Len(p) \in 1..Len(q) /\ (p \o q)[a] = q[a - Len(p)]
  OBVIOUS
<1>2. \A a \in 1..Len(p \o q) : a \in 1..Len(p) \/ a \in (Len(p) + 1)..(Len(p) + Len(q))
  BY <1>1
<1> SUFFICES ASSUME NEW a \in 1..Len(p \o q), NEW b \in 1..Len(p \o q), (p \o q)[a] = (p \o q)[b]
             PROVE  a = b
  BY DEF Apart
<1>3. CASE a \in 1..Len(p) /\ b \in 1..Len(p)
  BY <1>1, <1>3 DEF Apart
<1>4. CASE a \in (Len(p) + 1)..(Len(p) + Len(q)) /\ b \in (Len(p) + 1)..(Len(p) + Len(q))
  <2>1. a - Len(p) = b - Len(p)
    BY <1>1, <1>4 DEF Apart
  <2> QED BY <1>1, <1>4, <2>1
<1>5. CASE \/ a \in 1..Len(p) /\ b \in (Len(p) + 1)..(Len(p) + Len(q))
           \/ b \in 1..Len(p) /\ a \in (Len(p) + 1)..(Len(p) + Len(q))
  BY <1>1, <1>5
<1> QED BY <1>2, <1>3, <1>4, <1>5

LEMMA PlanTyped ==
    ASSUME NEW s \in Stores
    PROVE  /\ Plan(s) \in Seq(Accounts) /\ Len(Plan(s)) \in 1..(Len(Order) + 1)
           /\ Apart(Plan(s))
<1>0. /\ Len(Order) \in Nat /\ Selected(s) \in Labels \union {Builtin} /\ Builtin \notin Labels
      /\ Labels \subseteq Accounts /\ Builtin \in Accounts /\ Selected(s) \in Accounts
  BY ViewAssumption DEF Stores, Accounts, Selected
<1>1. CASE Selected(s) = Builtin
  <2> DEFINE q == StoredBut(s, Builtin)
  <2>1. q \in Seq(Labels) /\ Len(q) <= Len(Order) /\ Apart(q)
    BY <1>0, StoredButTyped
  <2>2. Plan(s) = <<Builtin>> \o q
    BY <1>1 DEF Plan
  <2> HIDE DEF q
  <2>3. /\ q \in Seq(Accounts) /\ <<Builtin>> \in Seq(Accounts) /\ Len(<<Builtin>>) = 1
        /\ Len(q) \in Nat
    BY <1>0, <2>1
  <2>4. Plan(s) \in Seq(Accounts) /\ Len(Plan(s)) = 1 + Len(q)
    BY <2>2, <2>3
  <2>5. Apart(<<Builtin>>) /\ \A a \in 1..1, b \in 1..Len(q) : <<Builtin>>[a] # q[b]
    BY <1>0, <2>1 DEF Apart
  <2>6. Apart(Plan(s))
    BY <2>1, <2>2, <2>3, <2>5, JoinedApart
  <2> QED BY <1>0, <2>1, <2>3, <2>4, <2>6
<1>2. CASE Selected(s) \in Labels
  <2> DEFINE q == StoredBut(s, Selected(s))
             p == IF s.profile[Selected(s)] = None THEN <<>> ELSE <<Selected(s)>>
  <2>1. /\ q \in Seq(Labels) /\ Len(q) < Len(Order) /\ Apart(q)
        /\ \A b \in 1..Len(q) : q[b] # Selected(s)
    BY <1>0, <1>2, StoredButTyped
  <2>2. Plan(s) = (p \o q) \o <<Builtin>>
    BY <1>0, <1>2 DEF Plan
  <2>3. p \in Seq(Labels) /\ p \in Seq(Accounts) /\ Len(p) \in {0, 1}
    BY <1>0, <1>2
  <2>3a. Apart(p) /\ \A a \in 1..Len(p) : p[a] = Selected(s)
    BY DEF Apart
  <2> HIDE DEF q, p
  <2>4. /\ q \in Seq(Accounts) /\ <<Builtin>> \in Seq(Accounts) /\ Len(<<Builtin>>) = 1
        /\ Len(q) \in Nat
    BY <1>0, <2>1
  <2>5. p \o q \in Seq(Accounts) /\ Len(p \o q) = Len(p) + Len(q)
    BY <2>3, <2>4
  <2>6. Plan(s) \in Seq(Accounts) /\ Len(Plan(s)) = (Len(p) + Len(q)) + 1
    BY <2>2, <2>4, <2>5
  <2>7. \A a \in {0, 1}, b \in Nat, n \in Nat : b < n => (a + b) + 1 \in 1..(n + 1)
    OBVIOUS
  <2>8. (Len(p) + Len(q)) + 1 \in 1..(Len(Order) + 1)
    BY <1>0, <2>1, <2>3, <2>4, <2>7
  <2>10. p \o q \in Seq(Labels) /\ Apart(p \o q)
    BY <2>1, <2>3, <2>3a, JoinedApart
  <2>11. /\ Apart(<<Builtin>>)
         /\ \A a \in 1..Len(p \o q), b \in 1..1 : (p \o q)[a] # <<Builtin>>[b]
    <3> HIDE DEF Plan
    <3>1. \A a \in 1..Len(p \o q) : (p \o q)[a] \in Labels
      BY <2>10
    <3> QED BY <1>0, <3>1 DEF Apart
  <2>12. Apart(Plan(s))
    <3> DEFINE r == p \o q
    <3>1. r \in Seq(Accounts) /\ Apart(r) /\ Plan(s) = r \o <<Builtin>>
          /\ \A a \in 1..Len(r), b \in 1..1 : r[a] # <<Builtin>>[b]
      BY <2>2, <2>5, <2>10, <2>11
    <3> HIDE DEF r
    <3> QED BY <2>4, <2>11, <3>1, JoinedApart
  <2> QED BY <2>6, <2>8, <2>12
<1> QED BY <1>0, <1>1, <1>2

LEMMA ListedInJoined ==
    ASSUME NEW S, NEW p \in Seq(S), NEW q \in Seq(S), NEW x
    PROVE  Listed(x, p \o q) <=> Listed(x, p) \/ Listed(x, q)
<1>1. /\ Len(p) \in Nat /\ Len(q) \in Nat /\ Len(p \o q) = Len(p) + Len(q)
      /\ \A a \in 1..Len(p) : a \in 1..Len(p \o q) /\ (p \o q)[a] = p[a]
      /\ \A b \in 1..Len(q) : b + Len(p) \in 1..Len(p \o q) /\ (p \o q)[b + Len(p)] = q[b]
  OBVIOUS
<1>2. \A a \in 1..Len(p \o q) :
         a \in 1..Len(p) \/ \E b \in 1..Len(q) : a = b + Len(p)
  <2> TAKE a \in 1..Len(p \o q)
  <2>1. a \in 1..Len(p) \/ (a - Len(p) \in 1..Len(q) /\ a = (a - Len(p)) + Len(p))
    BY <1>1
  <2> QED BY <2>1
<1> QED BY <1>1, <1>2 DEF Listed

\* The plan has the stored profiles, all of them and no other.
LEMMA PlanComplete ==
    ASSUME NEW s \in Stores, NEW l \in Labels
    PROVE  Listed(l, Plan(s)) <=> s.profile[l] # None
<1>0. /\ Selected(s) \in Labels \union {Builtin} /\ Builtin \notin Labels /\ l # Builtin
      /\ Selected(s) \in Accounts /\ Builtin \in Accounts
  BY ViewAssumption DEF Stores, Accounts, Selected
<1>1. \A x : Listed(l, <<x>>) <=> l = x
  BY DEF Listed
<1>2. \A but \in Accounts : Listed(l, StoredBut(s, but)) <=> l # but /\ s.profile[l] # None
  BY StoredButTyped DEF Listed
<1>3. \A but \in Accounts : StoredBut(s, but) \in Seq(Accounts)
  <2>1. \A but \in Accounts : StoredBut(s, but) \in Seq(Labels)
    BY StoredButTyped
  <2> QED BY <2>1 DEF Accounts
<1>4. <<Builtin>> \in Seq(Accounts) /\ <<Selected(s)>> \in Seq(Accounts) /\ <<>> \in Seq(Accounts)
  BY <1>0
<1>5. CASE Selected(s) = Builtin
  <2>1. Plan(s) = <<Builtin>> \o StoredBut(s, Builtin)
    BY <1>5 DEF Plan
  <2> DEFINE q == StoredBut(s, Builtin)
  <2>2. q \in Seq(Accounts) /\ (Listed(l, q) <=> s.profile[l] # None)
    BY <1>0, <1>2, <1>3
  <2> HIDE DEF q
  <2>3. Listed(l, <<Builtin>> \o q) <=> Listed(l, <<Builtin>>) \/ Listed(l, q)
    BY <1>4, <2>2, ListedInJoined
  <2> QED BY <1>0, <1>1, <2>1, <2>2, <2>3 DEF q
<1>6. CASE Selected(s) # Builtin
  <2> DEFINE q == StoredBut(s, Selected(s))
             p == IF s.profile[Selected(s)] = None THEN <<>> ELSE <<Selected(s)>>
  <2>1. Plan(s) = (p \o q) \o <<Builtin>>
    BY <1>6 DEF Plan
  <2>2. p \in Seq(Accounts) /\ (Listed(l, p) <=> l = Selected(s) /\ s.profile[l] # None)
    BY <1>1, <1>4 DEF Listed
  <2>3. q \in Seq(Accounts) /\ (Listed(l, q) <=> l # Selected(s) /\ s.profile[l] # None)
    BY <1>0, <1>2, <1>3
  <2> HIDE DEF p, q
  <2>4. p \o q \in Seq(Accounts) /\ (Listed(l, p \o q) <=> Listed(l, p) \/ Listed(l, q))
    BY <2>2, <2>3, ListedInJoined
  <2> DEFINE r == p \o q
  <2>5. Listed(l, r \o <<Builtin>>) <=> Listed(l, r) \/ Listed(l, <<Builtin>>)
    <3>1. r \in Seq(Accounts)
      BY <2>4
    <3> HIDE DEF r
    <3> QED BY <1>4, <3>1, ListedInJoined
  <2> QED BY <1>0, <1>1, <2>1, <2>2, <2>3, <2>4, <2>5
<1> QED BY <1>5, <1>6

-----------------------------------------------------------------------------
(* The store schedule.                                                      *)

\* The task that runs is the first, and gives way to those behind it.
LEMMA Advance ==
    ASSUME NEW S, queue \in Seq(S), NEW t, Running(t)
    PROVE  /\ Dequeued(t) \in Seq(S)
           /\ 1 \in DOMAIN queue /\ queue[1] = t
           /\ \A i \in DOMAIN Dequeued(t) : i + 1 \in DOMAIN queue /\ Dequeued(t)[i] = queue[i + 1]
<1>1. Len(queue) \in Nat /\ Len(queue) # 0 /\ 1 \in 1..Len(queue) /\ queue[1] = t
  BY DEF Running
<1> DEFINE I == {i \in 1..Len(queue) : queue[i] = t}
<1>2. (CHOOSE x \in I : \A y \in I : x =< y) = 1
  BY <1>1
<1>3. Dequeued(t) = RemoveAt(queue, 1)
  <2>1. I # {} /\ \E i \in 1..Len(queue) : queue[i] = t
    BY <1>1
  <2> QED BY <1>2, <2>1 DEF Dequeued, RemoveFirst, SelectInSeq, Min
<1>4. Dequeued(t) = SubSeq(queue, 1, 0) \o SubSeq(queue, 2, Len(queue))
  BY <1>3 DEF RemoveAt
<1>5. SubSeq(queue, 1, 0) = <<>> /\ SubSeq(queue, 2, Len(queue)) \in Seq(S)
  BY <1>1
<1>6. Dequeued(t) = SubSeq(queue, 2, Len(queue))
  BY <1>4, <1>5
<1> QED BY <1>1, <1>5, <1>6

-----------------------------------------------------------------------------
(* The walk and its tasks.  A task of the walk in the queue is the only one *)
(* and belongs to the stage the walk is in; the switches that were asked    *)
(* for before the walk stand before its read, and none is asked for while   *)
(* it lasts, so that none runs after the read.                              *)

Jobs == [stage : {"none", "reading", "preparing", "fetching"},
         store : Stores, next : Positions \union {Len(Order) + 2},
         result : [Positions -> Results], previous : Accounts \union {None}]

\* Nothing but logins looked up for a reset.
Bare(q) == \A i \in DOMAIN q : q[i].do = "credential"

QueueFits(q, stage) ==
    /\ \A i \in DOMAIN q : /\ q[i].do = "read" => stage = "reading"
                           /\ q[i].do = "prepare" => stage = "preparing"
    /\ \A i, j \in DOMAIN q : {q[i].do, q[j].do} \subseteq {"read", "prepare"} => i = j
    /\ \A i, j \in DOMAIN q : q[i].do = "read" /\ q[j].do = "apply" => j < i
    /\ stage \in {"preparing", "fetching"} => \A i \in DOMAIN q : q[i].do # "apply"

LEMMA TaskTyped ==
    /\ \A do, on : Task(do, on).do = do /\ Task(do, on).on = on
    /\ Task("read", None) \in Tasks /\ Task("prepare", None) \in Tasks
    /\ \A a \in Accounts : Task("apply", a) \in Tasks
    /\ \A g \in Generations : Task("credential", g) \in Tasks
BY DEF Task, Tasks

LEMMA TaskKinds ==
    ASSUME NEW t \in Tasks
    PROVE  t.do \in {"read", "prepare", "apply", "credential"}
BY DEF Tasks

LEMMA BareFits ==
    ASSUME NEW q \in Seq(Tasks), Bare(q), NEW stage
    PROVE  QueueFits(q, stage)
BY DEF Bare, QueueFits

LEMMA QueueAdvances ==
    ASSUME queue \in Seq(Tasks), NEW t, Running(t), NEW stage, QueueFits(queue, stage)
    PROVE  /\ Dequeued(t) \in Seq(Tasks)
           /\ QueueFits(Dequeued(t), stage)
           /\ t.do \in {"read", "prepare"} => Bare(Dequeued(t))
<1> DEFINE q == Dequeued(t)
<1>1. /\ q \in Seq(Tasks) /\ 1 \in DOMAIN queue /\ queue[1] = t
      /\ \A i \in DOMAIN q : i + 1 \in DOMAIN queue /\ q[i] = queue[i + 1]
  BY Advance
<1> HIDE DEF q
<1>2. DOMAIN q = 1..Len(q) /\ Len(q) \in Nat
  BY <1>1
<1>3. QueueFits(q, stage)
  BY <1>1, <1>2 DEF QueueFits
<1>4. ASSUME t.do \in {"read", "prepare"} PROVE Bare(q)
  <2> SUFFICES ASSUME NEW i \in DOMAIN q PROVE q[i].do = "credential"
    BY DEF Bare
  <2>1. i + 1 \in DOMAIN queue /\ i + 1 # 1 /\ q[i] = queue[i + 1] /\ ~ (i + 1 < 1)
    BY <1>1, <1>2
  <2>2. q[i].do \in {"read", "prepare", "apply", "credential"}
    BY <1>1, TaskKinds
  <2>3. q[i].do \notin {"read", "prepare"}
    BY <1>1, <1>4, <2>1 DEF QueueFits
  <2>4. q[i].do # "apply"
    BY <1>1, <1>4, <2>1 DEF QueueFits
  <2> QED BY <2>2, <2>3, <2>4
<1> QED BY <1>1, <1>3, <1>4 DEF q

LEMMA QueueGrows ==
    ASSUME NEW q \in Seq(Tasks), NEW t \in Tasks
    PROVE  /\ Append(q, t) \in Seq(Tasks)
           /\ Bare(q) /\ t.do = "prepare" => QueueFits(Append(q, t), "preparing")
           /\ QueueFits(q, "none") /\ t.do = "read" => QueueFits(Append(q, t), "reading")
           /\ QueueFits(q, "none") /\ t.do = "apply" => QueueFits(Append(q, t), "none")
           /\ \A stage : QueueFits(q, stage) /\ t.do = "credential" => QueueFits(Append(q, t), stage)
           /\ \A i \in DOMAIN Append(q, t) : Append(q, t)[i] = t \/ (i \in DOMAIN q /\ Append(q, t)[i] = q[i])
<1> DEFINE r == Append(q, t)
           last == Len(q) + 1
<1>1. /\ r \in Seq(Tasks) /\ Len(q) \in Nat /\ DOMAIN q = 1..Len(q) /\ DOMAIN r = 1..last
      /\ r[last] = t
      /\ \A i \in DOMAIN q : r[i] = q[i]
  BY OneMore
<1>2. \A i \in DOMAIN r : i = last \/ (i \in DOMAIN q /\ i < last)
  BY <1>1
<1> HIDE DEF r, last
<1>3. ASSUME Bare(q), t.do = "prepare" PROVE QueueFits(r, "preparing")
  BY <1>1, <1>2, <1>3 DEF Bare, QueueFits
<1>4. ASSUME QueueFits(q, "none"), t.do = "read" PROVE QueueFits(r, "reading")
  BY <1>1, <1>2, <1>4 DEF QueueFits
<1>5. ASSUME QueueFits(q, "none"), t.do = "apply" PROVE QueueFits(r, "none")
  BY <1>1, <1>2, <1>5 DEF QueueFits
<1>6. ASSUME NEW stage, QueueFits(q, stage), t.do = "credential" PROVE QueueFits(r, stage)
  BY <1>1, <1>2, <1>6 DEF QueueFits
<1> QED BY <1>1, <1>2, <1>3, <1>4, <1>5, <1>6 DEF r

\* The walk goes on with a task of its own or with its fetches.
LEMMA WalkGoesOn ==
    ASSUME NEW j \in Jobs, NEW k \in Nat \ {0}, NEW q \in Seq(Tasks), Bare(q), Walk(j, k, q)
    PROVE  /\ job' \in Jobs /\ job'.store = j.store /\ job'.stage \in {"preparing", "fetching"}
           /\ job'.stage = "fetching" => job'.next = 1
           /\ queue' \in Seq(Tasks) /\ QueueFits(queue', job'.stage)
           /\ \A i \in DOMAIN queue' : queue'[i].do = "prepare" \/ (i \in DOMAIN q /\ queue'[i] = q[i])
<1> DEFINE plan == Plan(j.store)
           left == {i \in k..Len(plan) : plan[i] # Builtin}
           first == CHOOSE i \in left : \A o \in left : i <= o
<1>0. j.store \in Stores /\ Len(plan) \in 1..(Len(Order) + 1) /\ Len(Order) \in Nat
  BY PlanTyped, ViewAssumption DEF Jobs
<1>1. CASE left = {}
  <2>1. job' = [j EXCEPT !.stage = "fetching", !.next = 1] /\ queue' = q
    BY <1>1 DEF Walk
  <2>2. 1 \in Positions
    BY <1>0 DEF Positions
  <2>3. job' \in Jobs /\ job'.store = j.store /\ job'.stage = "fetching" /\ job'.next = 1
    BY <2>1, <2>2 DEF Jobs
  <2> QED BY <2>1, <2>3, BareFits
<1>2. CASE left # {}
  <2>1. /\ job' = [j EXCEPT !.stage = "preparing", !.next = first]
        /\ queue' = Append(q, Task("prepare", None))
    BY <1>2 DEF Walk
  <2>2. first \in left
    <3>1. left \in SUBSET Nat
      BY <1>0
    <3> HIDE DEF left
    <3>2. \E i \in left : \A o \in left : i <= o
      BY <1>2, <3>1, LeastElement
    <3> QED BY <3>2
  <2>3. first \in Positions
    BY <1>0, <2>2 DEF Positions
  <2> HIDE DEF first
  <2>4. job' \in Jobs /\ job'.store = j.store /\ job'.stage = "preparing"
    BY <2>1, <2>3 DEF Jobs
  <2> QED BY <2>1, <2>4, QueueGrows, TaskTyped
<1> QED BY <1>1, <1>2

-----------------------------------------------------------------------------
(* The reset flows within their bounds: a flow that can still be cancelled  *)
(* leaves the number that its cancellation takes.                           *)

Flows == [phase : {"none", "checking", "confirm", "redeeming"},
          account : Accounts \union {None}, grant : Grants \union {None}, gen : Generations \union {0}]
Lookups == [gen : Generations, account : Accounts, grant : Grants \union {None}]
Redeems == [gen : Generations, account : Accounts, grant : Grants,
            server : {"travelling", "spent", "refused", "unsent"},
            told : {"nothing", "used", "kept", "unconfirmed"}]

Questions == [gen : Generations, account : Accounts, grant : Grants]

ResetsTyped ==
    /\ flow \in Flows /\ flowGen \in Generations \union {0}
    /\ lookups \subseteq Lookups /\ redeems \in Seq(Redeems) /\ cancelled \subseteq Generations
    /\ questions \subseteq Questions
    /\ events \in 0..MaxEvents

FlowsFit ==
    /\ flowGen <= 2 * events
    /\ flow.phase \in {"checking", "confirm"} => flowGen < 2 * events
    /\ flow.phase = "confirm" => flow.grant \in Grants /\ flow.account \in Accounts

LEMMA NumbersFit ==
    /\ MaxEvents \in Nat
    /\ \A g \in Nat : g \in Generations <=> 1 <= g /\ g <= 2 * MaxEvents
    /\ Generations \subseteq Nat
BY ViewAssumption DEF Generations

LEMMA NoFlowTyped == NoFlow \in Flows /\ NoFlow.phase = "none"
BY DEF NoFlow, Flows

LEMMA CountedStep ==
    ASSUME ResetsTyped, Counted
    PROVE  events' \in 0..MaxEvents /\ events' = events + 1 /\ events < MaxEvents
BY NumbersFit DEF ResetsTyped, Counted

LEMMA ResetsQuiet ==
    ASSUME ResetsTyped, FlowsFit, UNCHANGED resets, events' = events \/ Counted
    PROVE  ResetsTyped' /\ FlowsFit'
<1>1. UNCHANGED <<flow, flowGen, lookups, questions, redeems, cancelled>>
  BY DEF resets
<1>2. /\ events' \in 0..MaxEvents /\ 2 * events <= 2 * events'
      /\ 2 * events \in Nat /\ 2 * events' \in Nat /\ flowGen \in Nat
  BY CountedStep, NumbersFit DEF ResetsTyped
<1>3. ResetsTyped'
  BY <1>1, <1>2 DEF ResetsTyped
<1>4. FlowsFit'
  <2> DEFINE b == 2 * events
             c == 2 * events'
  <2>1. b \in Nat /\ c \in Nat /\ b <= c
    BY <1>2
  <2>2. flowGen <= b /\ (flow.phase \in {"checking", "confirm"} => flowGen < b)
    BY DEF FlowsFit
  <2> HIDE DEF b, c
  <2>3. flowGen <= c /\ (flow.phase \in {"checking", "confirm"} => flowGen < c)
    BY <1>2, <2>1, <2>2
  <2> QED BY <1>1, <2>3 DEF FlowsFit, c
<1> QED BY <1>3, <1>4

LEMMA ResetsStart ==
    ASSUME ResetsTyped, FlowsFit, StartReset, Highlighted \in Accounts
    PROVE  /\ ResetsTyped' /\ FlowsFit'
           /\ flowGen' \in Generations /\ flowGen' = flowGen + 1
<1>1. /\ events' = events + 1 /\ events < MaxEvents /\ events \in Nat /\ MaxEvents \in Nat
      /\ events' \in 0..MaxEvents
  BY CountedStep, NumbersFit DEF StartReset, ResetsTyped
<1>2. flowGen \in Nat /\ flowGen <= 2 * events /\ flowGen' = flowGen + 1
  BY NumbersFit DEF ResetsTyped, FlowsFit, StartReset
<1>3. flowGen' \in Nat /\ 1 <= flowGen' /\ flowGen' < 2 * events' /\ flowGen' <= 2 * MaxEvents
  BY <1>1, <1>2
<1>4. flowGen' \in Generations
  BY <1>3, NumbersFit
<1>5. /\ flow' = [phase |-> "checking", account |-> Highlighted, grant |-> None, gen |-> flowGen']
      /\ UNCHANGED <<questions, redeems, cancelled>>
  BY <1>2 DEF StartReset, NoFlow
<1>6. PICK g \in {PiGrant, None} :
         lookups' = lookups \union {[gen |-> flowGen', account |-> Highlighted, grant |-> g]}
  BY <1>2 DEF StartReset
<1>7. ResetsTyped'
  <2>1. flow' \in Flows
    BY <1>4, <1>5 DEF Flows
  <2>2. lookups' \subseteq Lookups
    BY <1>4, <1>6, ViewAssumption DEF ResetsTyped, Lookups
  <2> QED BY <1>1, <1>4, <1>5, <2>1, <2>2 DEF ResetsTyped
<1>8. FlowsFit'
  <2>1. flowGen' <= 2 * events'
    BY <1>1, <1>3
  <2> QED BY <1>3, <1>5, <2>1 DEF FlowsFit
<1> QED BY <1>2, <1>4, <1>7, <1>8

LEMMA ResetsCancel ==
    ASSUME IInv, ResetsTyped, FlowsFit, Cancel
    PROVE  ResetsTyped' /\ FlowsFit'
<1>1. /\ flow.phase \in {"checking", "confirm"} /\ flow.gen = flowGen /\ flowGen # 0
      /\ cancelled' = cancelled \union {flow.gen} /\ flowGen' = flowGen + 1 /\ flow' = NoFlow
      /\ UNCHANGED <<lookups, questions, redeems, events>>
  BY DEF IInv, FlowIsLatest, Cancel
<1>2. /\ flowGen \in Nat /\ flowGen \in Generations /\ flowGen < 2 * events
      /\ events \in 0..MaxEvents /\ MaxEvents \in Nat
  BY <1>1, NumbersFit DEF ResetsTyped, FlowsFit
<1>3. flowGen' \in Nat /\ 1 <= flowGen' /\ flowGen' <= 2 * events' /\ flowGen' <= 2 * MaxEvents
  BY <1>1, <1>2
<1>4. flowGen' \in Generations
  BY <1>3, NumbersFit
<1>5. ResetsTyped'
  BY <1>1, <1>2, <1>4, NoFlowTyped DEF ResetsTyped
<1>6. FlowsFit'
  BY <1>1, <1>3, NoFlowTyped DEF FlowsFit
<1> QED BY <1>5, <1>6

LEMMA ResetsConfirm ==
    ASSUME IInv, ResetsTyped, FlowsFit, Confirm
    PROVE  ResetsTyped' /\ FlowsFit'
<1> DEFINE new == [gen |-> flow.gen, account |-> flow.account, grant |-> flow.grant,
                   server |-> "travelling", told |-> "nothing"]
<1>1. /\ flow.phase = "confirm" /\ redeems' = Append(redeems, new)
      /\ flow' = [flow EXCEPT !.phase = "redeeming"]
      /\ UNCHANGED <<flowGen, lookups, questions, cancelled, events>>
  BY DEF Confirm, RedeemGrant, AfterYes
<1>2. flow.grant \in Grants /\ flow.account \in Accounts /\ flow.gen \in Generations
  BY <1>1 DEF IInv, FlowIsLatest, ResetsTyped, FlowsFit, Flows
<1>3. new \in Redeems
  BY <1>2 DEF Redeems
<1>4. flow' \in Flows /\ flow'.phase = "redeeming"
  BY <1>1 DEF ResetsTyped, Flows
<1> HIDE DEF new
<1>5. redeems' \in Seq(Redeems)
  BY <1>1, <1>3 DEF ResetsTyped
<1> QED BY <1>1, <1>4, <1>5 DEF ResetsTyped, FlowsFit

LEMMA ResetsLookedUp ==
    ASSUME IInv, ResetsTyped, FlowsFit, NEW l \in lookups, NEW found, EndLookup(l, found), events' = events,
           \/ found = NoFlow
           \/ /\ l.grant # None
              /\ found = [phase |-> "confirm", account |-> l.account, grant |-> l.grant, gen |-> l.gen]
    PROVE  ResetsTyped' /\ FlowsFit'
<1>1. /\ lookups' = lookups \ {l} /\ UNCHANGED <<flowGen, redeems, cancelled>>
      /\ flow' \in {flow, found}
      /\ questions' = questions \/ (found.phase = "confirm" /\ questions' = questions \union {Question(found)})
  BY DEF EndLookup
<1>2. /\ found \in Flows
      /\ \/ found = NoFlow
         \/ found.phase = "confirm" /\ found.grant \in Grants /\ found.account \in Accounts
      /\ found.phase = "confirm" => Question(found) \in Questions
  <2>1. CASE found = NoFlow
    BY <2>1, NoFlowTyped DEF NoFlow
  <2>2. CASE /\ l.grant # None
             /\ found = [phase |-> "confirm", account |-> l.account, grant |-> l.grant, gen |-> l.gen]
    BY <2>2 DEF ResetsTyped, Lookups, Flows, Question, Questions
  <2> QED BY <2>1, <2>2
<1>3. flow' # flow => flowGen < 2 * events
  <2>1. flow' # flow => flow.phase = "checking"
    BY DEF EndLookup, Late, IInv, OneLookupEach
  <2> QED BY <2>1 DEF FlowsFit
<1>4. ResetsTyped'
  BY <1>1, <1>2 DEF ResetsTyped
<1>5. FlowsFit'
  BY <1>1, <1>2, <1>3, NoFlowTyped DEF FlowsFit
<1> QED BY <1>4, <1>5

LEMMA ResetsCredential ==
    ASSUME IInv, ResetsTyped, FlowsFit, NEW l \in lookups, Credential(l), store \in Stores, l.account \in Labels
    PROVE  ResetsTyped' /\ FlowsFit'
<1>1. CASE EndLookup(l, NoFlow)
  BY <1>1, ResetsLookedUp DEF Credential
<1>2. CASE /\ lookups' = (lookups \ {l}) \union {[l EXCEPT !.grant = store.profile[l.account]]}
           /\ UNCHANGED <<flow, flowGen, questions, redeems, cancelled>>
  <2>1. l \in Lookups /\ store.profile[l.account] \in Grants \union {None} /\ events' = events
    BY DEF ResetsTyped, Stores, Credential
  <2>2. [l EXCEPT !.grant = store.profile[l.account]] \in Lookups
    BY <2>1 DEF Lookups
  <2> QED BY <1>2, <2>1, <2>2 DEF ResetsTyped, FlowsFit
<1> QED BY <1>1, <1>2 DEF Credential

LEMMA ResetsLookup ==
    ASSUME IInv, ResetsTyped, FlowsFit, NEW l \in lookups, Lookup(l)
    PROVE  ResetsTyped' /\ FlowsFit'
BY ResetsLookedUp DEF Lookup

LEMMA ResetsServe ==
    ASSUME ResetsTyped, FlowsFit, NEW n \in DOMAIN redeems, Serve(n)
    PROVE  ResetsTyped' /\ FlowsFit'
<1>1. PICK s \in {"spent", "refused"} : redeems' = [redeems EXCEPT ![n].server = s]
  BY DEF Serve
<1> DEFINE new == [redeems[n] EXCEPT !.server = s]
<1>2. redeems \in Seq(Redeems) /\ redeems[n] \in Redeems /\ n \in 1..Len(redeems)
  BY DEF ResetsTyped
<1>3. new \in Redeems
  BY <1>2 DEF Redeems
<1>4. redeems' = [redeems EXCEPT ![n] = new]
  BY <1>1
<1> HIDE DEF new
<1>5. redeems' \in Seq(Redeems)
  BY <1>2, <1>3, <1>4, ExceptSeq
<1> QED BY <1>5 DEF Serve, ResetsTyped, FlowsFit

LEMMA ResetsRedeemed ==
    ASSUME ResetsTyped, FlowsFit, NEW n \in DOMAIN redeems, Redeemed(n)
    PROVE  ResetsTyped' /\ FlowsFit'
<1>1. PICK a \in Answers(redeems[n].server) :
         /\ redeems' = [redeems EXCEPT ![n].told = Told(a),
                                       ![n].server = IF a = "unsent" THEN "unsent" ELSE @]
         /\ IF disposed THEN flow' = flow ELSE flow' = NoFlow
  BY DEF Redeemed
<1> DEFINE now == IF a = "unsent" THEN "unsent" ELSE redeems[n].server
           new == [[redeems[n] EXCEPT !.told = Told(a)] EXCEPT !.server = now]
<1>2. redeems \in Seq(Redeems) /\ redeems[n] \in Redeems /\ n \in 1..Len(redeems)
  BY DEF ResetsTyped
<1>3. /\ Told(a) \in {"used", "kept", "unconfirmed"}
      /\ now \in {"travelling", "spent", "refused", "unsent"}
  BY <1>2 DEF Told, Redeems
<1>4. redeems' = [redeems EXCEPT ![n] = new]
  BY <1>1, <1>2 DEF Redeems
<1> HIDE DEF now
<1>5. new \in Redeems
  BY <1>2, <1>3 DEF Redeems
<1> HIDE DEF new
<1>6. redeems' \in Seq(Redeems)
  BY <1>2, <1>4, <1>5, ExceptSeq
<1> QED BY <1>1, <1>6, NoFlowTyped DEF Redeemed, ResetsTyped, FlowsFit

-----------------------------------------------------------------------------
(* The view: what it lists, where its cursor is, and whose headers it shows.*)

WalkTyped ==
    /\ store \in Stores /\ shown \in Stores /\ queue \in Seq(Tasks) /\ job \in Jobs
    /\ rows \in Seq(Accounts) /\ Len(rows) <= Len(Order) + 1 /\ cursor \in Positions
    /\ loading \in BOOLEAN /\ disposed \in BOOLEAN

\* Once the walk is over the cursor is on a row, if there is one; a walk starts
\* with none and has at most one for each slot that was drained.
RowsFit ==
    ~ disposed => /\ ~ loading => rows = <<>> \/ cursor \in DOMAIN rows
                  /\ job.stage \in {"reading", "preparing"} => rows = <<>>
                  /\ job.stage = "fetching" => Len(rows) < job.next

ViewInv == /\ WalkTyped
           /\ HeadersMatchTheWalk
           /\ RowsFit
           /\ QueueFits(queue, job.stage)

LEMMA CursorFits ==
    ASSUME NEW accounts \in Seq(Accounts), Len(accounts) <= Len(Order) + 1, NEW previous,
           cursor \in Positions
    PROVE  /\ Restored(accounts, previous) \in Positions
           /\ accounts = <<>> \/ Restored(accounts, previous) \in DOMAIN accounts
<1>1. Len(Order) \in Nat /\ DOMAIN accounts = 1..Len(accounts) /\ Len(accounts) \in Nat
  BY ViewAssumption
<1>2. DOMAIN accounts \subseteq Positions /\ 1 \in Positions /\ cursor \in Nat /\ 1 <= cursor
  BY <1>1 DEF Positions
<1>3. CASE previous \in ToSet(accounts)
  <2>1. \E i \in DOMAIN accounts : accounts[i] = previous
    BY <1>3 DEF ToSet
  <2> QED BY <1>2, <1>3, <2>1 DEF Restored
<1>4. CASE previous \notin ToSet(accounts) /\ accounts = <<>>
  BY <1>2, <1>4 DEF Restored
<1>5. CASE previous \notin ToSet(accounts) /\ accounts # <<>>
  <2>1. /\ Len(accounts) # 0
        /\ Restored(accounts, previous) = IF cursor > Len(accounts) THEN Len(accounts) ELSE cursor
    BY <1>5 DEF Restored
  <2>2. Restored(accounts, previous) \in 1..Len(accounts)
    BY <1>1, <1>2, <2>1
  <2> QED BY <1>1, <1>2, <2>2
<1> QED BY <1>3, <1>4, <1>5

LEMMA NoJobTyped == NoJob \in Jobs /\ NoJob.stage = "none"
<1>1. 1 \in Positions
  BY ViewAssumption DEF Positions
<1>2. NoStore \in Stores
  BY DEF NoStore, Stores, Accounts
<1>3. Reading(None) \in Jobs
  BY <1>1, <1>2 DEF Reading, Jobs, Results
<1> QED BY <1>3 DEF NoJob, Jobs

LEMMA ReadingTyped ==
    ASSUME NEW previous \in Accounts \union {None}
    PROVE  Reading(previous) \in Jobs /\ Reading(previous).stage = "reading"
<1>1. 1 \in Positions
  BY ViewAssumption DEF Positions
<1>2. NoStore \in Stores
  BY DEF NoStore, Stores, Accounts
<1> QED BY <1>1, <1>2 DEF Reading, Jobs, Results

\* A step that neither walks nor touches the view.
LEMMA ViewQuiet ==
    ASSUME ViewInv, UNCHANGED <<queue, job, view>>, store' \in Stores,
           flow'.phase # "none" => disposed \/ ~ loading
    PROVE  ViewInv'
BY DEF ViewInv, WalkTyped, HeadersMatchTheWalk, RowsFit, QueueFits, view

\* The queue alone grows or moves on.
LEMMA ViewQueues ==
    ASSUME ViewInv, UNCHANGED <<job, view, flow>>, store' \in Stores,
           queue' \in Seq(Tasks), QueueFits(queue', job.stage)
    PROVE  ViewInv'
<1>1. UNCHANGED <<job, rows, cursor, loading, shown, disposed, flow>>
  BY DEF view
<1>2. WalkTyped' /\ HeadersMatchTheWalk' /\ RowsFit'
  BY <1>1 DEF ViewInv, WalkTyped, HeadersMatchTheWalk, RowsFit
<1>3. QueueFits(queue, job.stage)'
  BY <1>1
<1> QED BY <1>2, <1>3 DEF ViewInv

LEMMA ViewLoads ==
    ASSUME ViewInv, ~ disposed, ~ loading, flow'.phase = "none", Load(queue), store' = store
    PROVE  ViewInv'
<1> DEFINE previous == IF cursor <= Len(rows) THEN rows[cursor] ELSE None
<1>1. /\ job' = Reading(previous) /\ rows' = <<>> /\ loading' = TRUE
      /\ queue' = Append(queue, Task("read", None)) /\ UNCHANGED <<cursor, disposed>>
      /\ shown' \in Stores
  BY ViewAssumption DEF Load, NoStore, Stores, Accounts
<1>2. job.stage = "none"
  BY DEF ViewInv, HeadersMatchTheWalk, WalkTyped, Jobs
<1>3. previous \in Accounts \union {None}
  <2>1. rows \in Seq(Accounts) /\ cursor \in Nat /\ 1 <= cursor
    BY ViewAssumption DEF ViewInv, WalkTyped, Positions
  <2> QED BY <2>1
<1> HIDE DEF previous
<1>4. job' \in Jobs /\ job'.stage = "reading"
  BY <1>1, <1>3, ReadingTyped
<1>5. queue' \in Seq(Tasks) /\ QueueFits(queue', "reading")
  BY <1>1, <1>2, QueueGrows, TaskTyped DEF ViewInv, WalkTyped
<1>6. WalkTyped'
  <2>1. <<>> \in Seq(Accounts) /\ Len(<<>>) <= Len(Order) + 1
    BY ViewAssumption
  <2> QED BY <1>1, <1>4, <1>5, <2>1 DEF ViewInv, WalkTyped
<1>7. HeadersMatchTheWalk' /\ RowsFit'
  BY <1>1, <1>4 DEF HeadersMatchTheWalk, RowsFit
<1>8. QueueFits(queue, job.stage)'
  BY <1>4, <1>5
<1> QED BY <1>6, <1>7, <1>8 DEF ViewInv

LEMMA ViewEndsLoad ==
    ASSUME ViewInv, NEW accounts \in Seq(Accounts), Len(accounts) <= Len(Order) + 1, NEW threw,
           EndLoad(accounts, threw), UNCHANGED <<store, flow>>,
           queue' \in Seq(Tasks), QueueFits(queue', "none")
    PROVE  ViewInv'
<1>1. job' = NoJob /\ job' \in Jobs /\ job'.stage = "none"
  BY NoJobTyped DEF EndLoad
<1>2. QueueFits(queue, job.stage)'
  BY <1>1
<1>3. CASE disposed
  <2>1. UNCHANGED <<rows, cursor, loading, shown, disposed>>
    BY <1>3 DEF EndLoad, view
  <2> QED BY <1>1, <1>2, <1>3, <2>1 DEF ViewInv, WalkTyped, HeadersMatchTheWalk, RowsFit
<1>4. CASE ~ disposed
  <2>1. /\ rows' = accounts /\ cursor' = Restored(accounts, job.previous) /\ loading' = FALSE
        /\ UNCHANGED <<shown, disposed>>
    BY <1>4 DEF EndLoad, LoadingAfter
  <2>2. cursor' \in Positions /\ (accounts = <<>> \/ cursor' \in DOMAIN accounts)
    BY <2>1, CursorFits DEF ViewInv, WalkTyped
  <2>3. WalkTyped'
    BY <1>1, <2>1, <2>2 DEF ViewInv, WalkTyped
  <2>4. HeadersMatchTheWalk' /\ RowsFit'
    BY <1>1, <2>1, <2>2 DEF HeadersMatchTheWalk, RowsFit
  <2> QED BY <1>2, <2>3, <2>4 DEF ViewInv
<1> QED BY <1>3, <1>4

LEMMA ViewReads ==
    ASSUME ViewInv, Read
    PROVE  ViewInv'
<1> DEFINE t == Task("read", None)
           q == Dequeued(t)
<1>1. Running(t) /\ t.do = "read" /\ UNCHANGED <<store, flow>>
  BY TaskTyped DEF Read, resets
<1>2. q \in Seq(Tasks) /\ Bare(q) /\ QueueFits(q, "none")
  BY <1>1, QueueAdvances, BareFits DEF ViewInv, WalkTyped
<1>3. job.stage = "reading" /\ (disposed \/ loading)
  <2>1. 1 \in DOMAIN queue /\ queue[1] = t
    BY <1>1, Advance DEF ViewInv, WalkTyped
  <2> QED BY <1>1, <2>1 DEF ViewInv, QueueFits, HeadersMatchTheWalk
<1> HIDE DEF t, q
<1>4. CASE EndLoad(rows, TRUE) /\ queue' = q
  BY <1>1, <1>2, <1>4, ViewEndsLoad DEF ViewInv, WalkTyped
<1>5. CASE disposed /\ job' = NoJob /\ queue' = q /\ UNCHANGED view
  BY <1>1, <1>2, <1>5, NoJobTyped DEF ViewInv, WalkTyped, HeadersMatchTheWalk, RowsFit, view
<1>6. CASE /\ ~ disposed /\ shown' = store /\ Walk([job EXCEPT !.store = store], 1, q)
           /\ UNCHANGED <<rows, cursor, loading, disposed>>
  <2> DEFINE j == [job EXCEPT !.store = store]
  <2>1. j \in Jobs /\ j.store = store
    BY DEF ViewInv, WalkTyped, Jobs
  <2>0. Walk(j, 1, q) /\ 1 \in Nat \ {0}
    BY <1>6
  <2> HIDE DEF j
  <2>2. /\ job' \in Jobs /\ job'.store = store /\ job'.stage \in {"preparing", "fetching"}
        /\ job'.stage = "fetching" => job'.next = 1
        /\ queue' \in Seq(Tasks) /\ QueueFits(queue', job'.stage)
    BY <1>2, <2>0, <2>1, WalkGoesOn
  <2>3. rows = <<>> /\ loading
    BY <1>3, <1>6 DEF ViewInv, RowsFit
  <2>4. WalkTyped'
    BY <1>1, <1>6, <2>2 DEF ViewInv, WalkTyped
  <2>5. HeadersMatchTheWalk' /\ RowsFit'
    BY <1>1, <1>6, <2>2, <2>3 DEF ViewInv, HeadersMatchTheWalk, RowsFit
  <2>6. QueueFits(queue, job.stage)'
    BY <2>2
  <2> QED BY <2>4, <2>5, <2>6 DEF ViewInv
<1> QED BY <1>4, <1>5, <1>6 DEF Read, t, q

LEMMA ViewPrepares ==
    ASSUME ViewInv, Prepare
    PROVE  ViewInv'
<1> DEFINE t == Task("prepare", None)
           q == Dequeued(t)
           k == job.next + 1
<1>1. /\ Running(t) /\ t.do = "prepare" /\ Walk(job, k, q)
      /\ UNCHANGED <<store, flow, rows, cursor, loading, shown, disposed>>
  BY TaskTyped DEF Prepare, view, resets
<1>2. q \in Seq(Tasks) /\ Bare(q)
  BY <1>1, QueueAdvances DEF ViewInv, WalkTyped
<1>3. job.stage = "preparing"
  <2>1. 1 \in DOMAIN queue /\ queue[1] = t
    BY <1>1, Advance DEF ViewInv, WalkTyped
  <2> QED BY <1>1, <2>1 DEF ViewInv, QueueFits
<1>4. job \in Jobs /\ k \in Nat \ {0}
  <2>1. Len(Order) \in Nat
    BY ViewAssumption
  <2> QED BY <2>1 DEF ViewInv, WalkTyped, Jobs, Positions
<1> HIDE DEF t, q, k
<1>5. /\ job' \in Jobs /\ job'.store = job.store /\ job'.stage \in {"preparing", "fetching"}
      /\ job'.stage = "fetching" => job'.next = 1
      /\ queue' \in Seq(Tasks) /\ QueueFits(queue', job'.stage)
  BY <1>1, <1>2, <1>4, WalkGoesOn
<1>6. WalkTyped'
  BY <1>1, <1>5 DEF ViewInv, WalkTyped
<1>7. HeadersMatchTheWalk' /\ RowsFit'
  BY <1>1, <1>3, <1>5 DEF ViewInv, HeadersMatchTheWalk, RowsFit
<1>8. QueueFits(queue, job.stage)'
  BY <1>5
<1> QED BY <1>6, <1>7, <1>8 DEF ViewInv

LEMMA ViewSettles ==
    ASSUME ViewInv, NEW i \in Positions, Settle(i)
    PROVE  ViewInv'
<1>1. /\ job.stage = "fetching"
      /\ UNCHANGED <<store, queue, rows, cursor, loading, shown, disposed, flow>>
  BY DEF Settle, view, resets
<1>2. PICK r \in Results : job' = [job EXCEPT !.result[i] = r]
  BY DEF Settle, Results
<1>3. job' \in Jobs /\ job'.stage = job.stage /\ job'.next = job.next /\ job'.store = job.store
  BY <1>2 DEF ViewInv, WalkTyped, Jobs
<1> QED BY <1>1, <1>3 DEF ViewInv, WalkTyped, HeadersMatchTheWalk, RowsFit

LEMMA ViewDrains ==
    ASSUME ViewInv, NEW i \in Positions, Drain(i)
    PROVE  ViewInv'
<1> DEFINE plan == Plan(job.store)
           drained == IF job.result[i] = "row" THEN Append(rows, plan[i]) ELSE rows
<1>1. /\ job.stage = "fetching" /\ job.next = i /\ i <= Len(plan)
      /\ UNCHANGED <<store, queue, flow>>
  BY DEF Drain, NextAnswered, resets
<1>2. /\ i \in Nat /\ 1 <= i /\ i <= Len(Order) + 1 /\ Len(Order) \in Nat
      /\ rows \in Seq(Accounts) /\ Len(rows) \in Nat
  BY ViewAssumption DEF ViewInv, WalkTyped, Positions
<1>3. plan \in Seq(Accounts) /\ plan[i] \in Accounts
  BY <1>1, <1>2, PlanTyped DEF ViewInv, WalkTyped, Jobs
<1>4. drained \in Seq(Accounts) /\ Len(drained) <= Len(rows) + 1 /\ Len(drained) \in Nat
  BY <1>2, <1>3
<1>5. ~ disposed => Len(rows) < i
  BY <1>1 DEF ViewInv, RowsFit
<1>6. queue' \in Seq(Tasks) /\ QueueFits(queue', "none")
  BY <1>1 DEF ViewInv, WalkTyped, QueueFits
<1> HIDE DEF drained
<1>7. CASE EndLoad(rows, TRUE)
  BY <1>1, <1>6, <1>7, ViewEndsLoad DEF ViewInv, WalkTyped
<1>8. CASE EndLoad(drained, FALSE)
  <2>1. CASE disposed
    <3>1. EndLoad(rows, FALSE)
      BY <1>8, <2>1 DEF EndLoad
    <3> QED BY <1>1, <1>6, <3>1, ViewEndsLoad DEF ViewInv, WalkTyped
  <2>2. CASE ~ disposed
    <3>1. Len(drained) <= Len(Order) + 1
      BY <1>2, <1>4, <1>5, <2>2
    <3> QED BY <1>1, <1>4, <1>6, <1>8, <3>1, ViewEndsLoad
  <2> QED BY <2>1, <2>2
<1>9. CASE /\ job' = [job EXCEPT !.next = @ + 1] /\ rows' = IF disposed THEN rows ELSE drained
           /\ UNCHANGED <<cursor, loading, shown, disposed>>
  <2>1. i + 1 \in Positions \union {Len(Order) + 2}
    BY <1>2 DEF Positions
  <2>2. job' \in Jobs /\ job'.stage = "fetching" /\ job'.next = i + 1 /\ job'.store = job.store
    BY <1>1, <1>9, <2>1 DEF ViewInv, WalkTyped, Jobs
  <2>3. ~ disposed => Len(drained) < i + 1 /\ Len(drained) <= Len(Order) + 1
    BY <1>2, <1>4, <1>5
  <2>4. WalkTyped'
    BY <1>1, <1>4, <1>9, <2>2, <2>3 DEF ViewInv, WalkTyped
  <2>5. HeadersMatchTheWalk' /\ RowsFit'
    BY <1>1, <1>9, <2>2, <2>3 DEF ViewInv, HeadersMatchTheWalk, RowsFit
  <2>6. QueueFits(queue, job.stage)'
    BY <1>1, <2>2 DEF ViewInv
  <2> QED BY <2>4, <2>5, <2>6 DEF ViewInv
<1> QED BY <1>7, <1>8, <1>9 DEF Drain, drained

LEMMA ViewMoves ==
    ASSUME ViewInv, Move
    PROVE  ViewInv'
<1>1. /\ cursor' \in DOMAIN rows /\ ~ loading
      /\ UNCHANGED <<store, queue, job, rows, loading, shown, disposed, flow>>
  BY DEF Move, Moved, Navigable, resets
<1>2. cursor' \in Positions
  <2>1. Len(Order) \in Nat
    BY ViewAssumption
  <2> QED BY <1>1, <2>1 DEF ViewInv, WalkTyped, Positions
<1> QED BY <1>1, <1>2 DEF ViewInv, WalkTyped, HeadersMatchTheWalk, RowsFit

LEMMA HighlightedTyped ==
    ASSUME ViewInv, Navigable, rows # <<>>
    PROVE  Highlighted \in Accounts /\ job.stage = "none"
BY DEF ViewInv, WalkTyped, RowsFit, HeadersMatchTheWalk, Navigable, Highlighted

LEMMA ViewEnters ==
    ASSUME ViewInv, Enter
    PROVE  ViewInv'
<1>1. /\ Navigable /\ rows # <<>> /\ queue' = Append(queue, Task("apply", Highlighted))
      /\ UNCHANGED <<store, job, view, flow>>
  BY DEF Enter, resets
<1>2. Highlighted \in Accounts /\ job.stage = "none"
  BY <1>1, HighlightedTyped
<1>3. queue' \in Seq(Tasks) /\ QueueFits(queue', "none")
  BY <1>1, <1>2, QueueGrows, TaskTyped DEF ViewInv, WalkTyped
<1> QED BY <1>1, <1>2, <1>3, ViewQueues DEF ViewInv, WalkTyped

\* No switch runs after the read of a walk.
LEMMA ViewApplies ==
    ASSUME ViewInv, NEW a \in Accounts, Apply(a)
    PROVE  ViewInv'
<1> DEFINE t == Task("apply", a)
<1>1. /\ Running(t) /\ t.do = "apply" /\ queue' = Dequeued(t)
      /\ UNCHANGED <<job, rows, cursor, loading, disposed, flow>>
  BY TaskTyped DEF Apply, resets
<1>2. store' \in Stores /\ shown' \in Stores
  <2>1. [store EXCEPT !.default = a] \in Stores
    BY DEF ViewInv, WalkTyped, Stores
  <2> QED BY <2>1 DEF Apply, ViewInv, WalkTyped
<1>3. queue' \in Seq(Tasks) /\ QueueFits(queue', job.stage)
  BY <1>1, QueueAdvances DEF ViewInv, WalkTyped
<1>4. job.stage \notin {"preparing", "fetching"}
  <2>1. 1 \in DOMAIN queue /\ queue[1] = t
    BY <1>1, Advance DEF ViewInv, WalkTyped
  <2> QED BY <1>1, <2>1 DEF ViewInv, QueueFits
<1> HIDE DEF t
<1>5. WalkTyped'
  BY <1>1, <1>2, <1>3 DEF ViewInv, WalkTyped
<1>6. HeadersMatchTheWalk' /\ RowsFit'
  BY <1>1, <1>4 DEF ViewInv, HeadersMatchTheWalk, RowsFit
<1>7. QueueFits(queue, job.stage)'
  BY <1>1, <1>3
<1> QED BY <1>5, <1>6, <1>7 DEF ViewInv

-----------------------------------------------------------------------------
(* The logins waited for are those of profiles, and of flows that began.    *)

CredentialsFit ==
    /\ \A i \in DOMAIN queue : queue[i].do = "credential" => queue[i].on \in 1..flowGen
    /\ \A l \in lookups, i \in DOMAIN queue :
          queue[i] = Task("credential", l.gen) => l.account # Builtin

\* The step queues no other login to look up.
Carried == \A i \in DOMAIN queue' : queue'[i].do = "credential" => \E k \in DOMAIN queue : queue'[i] = queue[k]

LEMMA CredentialsKept ==
    ASSUME CredentialsFit, Carried, flowGen \in Nat, flowGen' \in Nat, flowGen <= flowGen',
           \A m \in lookups' : \E l \in lookups : l.gen = m.gen /\ l.account = m.account
    PROVE  CredentialsFit'
<1>1. ASSUME NEW i \in DOMAIN queue', queue'[i].do = "credential" PROVE queue'[i].on \in 1..flowGen'
  BY <1>1 DEF CredentialsFit, Carried
<1>2. ASSUME NEW m \in lookups', NEW i \in DOMAIN queue', queue'[i] = Task("credential", m.gen)
      PROVE  m.account # Builtin
  <2>1. queue'[i].do = "credential"
    BY <1>2, TaskTyped
  <2> QED BY <1>2, <2>1 DEF CredentialsFit, Carried
<1> QED BY <1>1, <1>2 DEF CredentialsFit

LEMMA CarriedByTail ==
    ASSUME queue \in Seq(Tasks), NEW t, Running(t), queue' = Dequeued(t)
    PROVE  Carried
BY Advance DEF Carried

LEMMA CarriedByLoad ==
    ASSUME queue \in Seq(Tasks), Load(queue)
    PROVE  Carried
<1>1. /\ queue' = Append(queue, Task("read", None)) /\ Task("read", None) \in Tasks
      /\ Task("read", None).do = "read"
  BY TaskTyped DEF Load
<1> QED BY <1>1, QueueGrows DEF Carried

LEMMA CarriedByWalk ==
    ASSUME ViewInv, Read \/ Prepare
    PROVE  Carried
<1>1. PICK t \in {Task("read", None), Task("prepare", None)} :
         /\ Running(t)
         /\ queue' = Dequeued(t) \/ \E j \in Jobs, k \in Nat \ {0} : Walk(j, k, Dequeued(t))
  <2>1. [job EXCEPT !.store = store] \in Jobs /\ job.next + 1 \in Nat \ {0} /\ job \in Jobs
    <3>1. Len(Order) \in Nat
      BY ViewAssumption
    <3>2. [job EXCEPT !.store = store] \in Jobs
      BY DEF ViewInv, WalkTyped, Jobs
    <3> QED BY <3>1, <3>2 DEF ViewInv, WalkTyped, Jobs, Positions
  <2>2. CASE Read
    <3>1. \/ queue' = Dequeued(Task("read", None))
          \/ Walk([job EXCEPT !.store = store], 1, Dequeued(Task("read", None)))
      BY <2>2 DEF Read
    <3>2. 1 \in Nat \ {0} /\ Running(Task("read", None))
      BY <2>2 DEF Read
    <3> QED BY <2>1, <3>1, <3>2
  <2>3. CASE Prepare
    BY <2>1, <2>3 DEF Prepare
  <2> QED BY <2>2, <2>3
<1> DEFINE q == Dequeued(t)
<1>2. /\ q \in Seq(Tasks) /\ Bare(q)
      /\ \A i \in DOMAIN q : i + 1 \in DOMAIN queue /\ q[i] = queue[i + 1]
  BY <1>1, Advance, QueueAdvances, TaskTyped DEF ViewInv, WalkTyped
<1> HIDE DEF q
<1>3. CASE queue' = q
  BY <1>2, <1>3 DEF Carried
<1>4. ASSUME NEW j \in Jobs, NEW k \in Nat \ {0}, Walk(j, k, q) PROVE Carried
  <2>1. \A i \in DOMAIN queue' : queue'[i].do = "prepare" \/ (i \in DOMAIN q /\ queue'[i] = q[i])
    BY <1>2, <1>4, WalkGoesOn
  <2> QED BY <1>2, <2>1 DEF Carried
<1> QED BY <1>1, <1>3, <1>4 DEF q

-----------------------------------------------------------------------------

FullInv == /\ IInv
           /\ ResetsTyped
           /\ FlowsFit
           /\ ViewInv
           /\ CredentialsFit

\* What holds of a number of a flow and of the lookups of a step that starts none.
LEMMA Kept ==
    ASSUME FullInv, UNCHANGED resets, Carried
    PROVE  CredentialsFit'
<1>1. UNCHANGED <<flowGen, lookups>> /\ flowGen \in Nat /\ flowGen <= flowGen'
  BY DEF resets, FullInv, IInv, Shapes
<1> QED BY <1>1, CredentialsKept DEF FullInv

LEMMA FullInit == Init => FullInv
<1> SUFFICES ASSUME Init PROVE FullInv
  OBVIOUS
<1>1. ResetsTyped /\ FlowsFit
  <2>1. redeems \in Seq(Redeems) /\ events \in 0..MaxEvents
    BY NumbersFit DEF Init
  <2> QED BY <2>1, NoFlowTyped DEF Init, ResetsTyped, FlowsFit
<1>2. queue \in Seq(Tasks) /\ DOMAIN queue = {1} /\ queue[1] = Task("read", None)
  BY TaskTyped DEF Init
<1>3. job \in Jobs /\ job.stage = "reading"
  BY ReadingTyped DEF Init
<1>4. WalkTyped
  <2>1. 1 \in Positions /\ <<>> \in Seq(Accounts) /\ Len(<<>>) <= Len(Order) + 1
    BY ViewAssumption DEF Positions
  <2>2. NoStore \in Stores
    BY DEF NoStore, Stores, Accounts
  <2> QED BY <1>2, <1>3, <2>1, <2>2 DEF Init, WalkTyped
<1>5. HeadersMatchTheWalk /\ RowsFit
  BY <1>3, NoFlowTyped DEF Init, HeadersMatchTheWalk, RowsFit
<1>6. QueueFits(queue, job.stage) /\ CredentialsFit
  BY <1>2, <1>3, TaskTyped DEF Init, QueueFits, CredentialsFit
<1> QED BY <1>1, <1>4, <1>5, <1>6, InitIInv DEF FullInv, ViewInv

\* Steps that leave the reset flows alone.
LEMMA FullQuiet ==
    ASSUME FullInv,
           \/ Reload \/ Move \/ Enter \/ Read \/ Prepare \/ Dispose \/ Elsewhere
           \/ \E i \in Positions : Settle(i) \/ Drain(i)
           \/ \E a \in Accounts : Apply(a)
           \/ UNCHANGED vars
    PROVE  FullInv'
<1>1. IInv'
  BY QuietActions DEF FullInv
<1> USE DEF FullInv
<1>2. UNCHANGED resets /\ (events' = events \/ Counted)
  BY DEF Reload, Move, Enter, Read, Prepare, Dispose, Elsewhere, Settle, Drain, Apply, vars
<1>3. ResetsTyped' /\ FlowsFit'
  BY <1>2, ResetsQuiet
<1>4. flow' = flow /\ queue \in Seq(Tasks) /\ store \in Stores
  BY <1>2 DEF resets, ViewInv, WalkTyped
<1>5. ViewInv' /\ Carried
  <2>1. CASE Reload
    BY <2>1, <1>4, ViewLoads, CarriedByLoad DEF Reload, Navigable
  <2>2. CASE Move
    BY <2>2, ViewMoves DEF Move, Carried
  <2>3. CASE Enter
    <3>1. Navigable /\ rows # <<>> /\ queue' = Append(queue, Task("apply", Highlighted))
      BY <2>3 DEF Enter
    <3>2. Task("apply", Highlighted) \in Tasks /\ Task("apply", Highlighted).do = "apply"
      BY <3>1, HighlightedTyped, TaskTyped
    <3>3. Carried
      BY <1>4, <3>1, <3>2, QueueGrows DEF Carried
    <3> QED BY <2>3, <3>3, ViewEnters
  <2>4. CASE Read \/ Prepare
    BY <2>4, ViewReads, ViewPrepares, CarriedByWalk
  <2>5. CASE Dispose
    <3>1. disposed' = TRUE /\ UNCHANGED <<store, queue, job, rows, cursor, loading, shown>>
      BY <2>5 DEF Dispose
    <3> QED BY <3>1 DEF Carried, ViewInv, WalkTyped, HeadersMatchTheWalk, RowsFit
  <2>6. CASE Elsewhere
    <3>1. UNCHANGED <<queue, job, view>>
      BY <2>6 DEF Elsewhere
    <3>2. store' \in Stores
      <4>1. \A a \in Accounts : [store EXCEPT !.default = a] \in Stores
        BY <1>4 DEF Stores
      <4>2. \A l \in Labels, g \in Grants \union {None} : [store EXCEPT !.profile[l] = g] \in Stores
        BY <1>4 DEF Stores
      <4> QED BY <2>6, <4>1, <4>2 DEF Elsewhere
    <3>3. flow'.phase # "none" => disposed \/ ~ loading
      BY <1>4 DEF ViewInv, HeadersMatchTheWalk
    <3> QED BY <3>1, <3>2, <3>3, ViewQuiet DEF Carried
  <2>7. ASSUME NEW i \in Positions, Settle(i) \/ Drain(i) PROVE ViewInv' /\ Carried
    <3>1. queue' = queue
      BY <2>7 DEF Settle, Drain
    <3> QED BY <2>7, <3>1, ViewSettles, ViewDrains DEF Carried
  <2>8. ASSUME NEW a \in Accounts, Apply(a) PROVE ViewInv' /\ Carried
    BY <1>4, <2>8, ViewApplies, CarriedByTail DEF Apply
  <2>9. CASE UNCHANGED vars
    <3>1. flow'.phase # "none" => disposed \/ ~ loading
      BY <1>4 DEF ViewInv, HeadersMatchTheWalk
    <3> QED BY <1>4, <2>9, <3>1, ViewQuiet DEF vars, Carried
  <2> QED BY <2>1, <2>2, <2>3, <2>4, <2>5, <2>6, <2>7, <2>8, <2>9
<1>6. CredentialsFit'
  BY <1>2, <1>5, Kept
<1> QED BY <1>1, <1>3, <1>5, <1>6

LEMMA FullStartReset ==
    ASSUME FullInv, StartReset
    PROVE  FullInv'
<1> USE DEF FullInv
<1>1. Navigable /\ rows # <<>> /\ UNCHANGED <<store, job, view>>
  BY DEF StartReset
<1>2. /\ Highlighted \in Accounts /\ job.stage = "none" /\ ~ loading /\ queue \in Seq(Tasks)
      /\ store \in Stores
  BY <1>1, HighlightedTyped DEF Navigable, ViewInv, WalkTyped
<1>3. /\ IInv' /\ ResetsTyped' /\ FlowsFit' /\ flowGen' \in Generations
      /\ flowGen' = flowGen + 1 /\ flowGen \in Nat
  BY <1>2, StartResetStep, ResetsStart DEF IInv, Shapes
<1> DEFINE t == Task("credential", flowGen + 1)
<1>4. queue' = IF Highlighted = Builtin THEN queue ELSE Append(queue, t)
  BY DEF StartReset
<1>5. t \in Tasks /\ t.do = "credential" /\ t.on = flowGen + 1
  BY <1>3, TaskTyped
<1> HIDE DEF t
<1>6. queue' \in Seq(Tasks) /\ QueueFits(queue', "none")
  BY <1>2, <1>4, <1>5, QueueGrows DEF ViewInv
<1>7. ViewInv'
  BY <1>1, <1>2, <1>6 DEF ViewInv, WalkTyped, HeadersMatchTheWalk, RowsFit, view
<1>8. \A i \in DOMAIN queue' : (queue'[i] = t /\ Highlighted # Builtin) \/ (i \in DOMAIN queue /\ queue'[i] = queue[i])
  BY <1>2, <1>4, <1>5, QueueGrows
<1>9. PICK g : lookups' = lookups \union {[gen |-> flowGen + 1, account |-> Highlighted, grant |-> g]}
  BY DEF StartReset
<1>10. CredentialsFit'
  <2>1. ASSUME NEW i \in DOMAIN queue', queue'[i].do = "credential" PROVE queue'[i].on \in 1..flowGen'
    BY <1>3, <1>5, <1>8, <2>1 DEF CredentialsFit
  <2>2. ASSUME NEW m \in lookups', NEW i \in DOMAIN queue', queue'[i] = Task("credential", m.gen)
        PROVE  m.account # Builtin
    <3>1. queue'[i].do = "credential" /\ queue'[i].on = m.gen
      BY <2>2, TaskTyped
    <3>2. CASE m \in lookups
      <4>1. m.gen \in 1..flowGen
        BY <3>2 DEF IInv, OneLookupEach
      <4>2. i \in DOMAIN queue /\ queue'[i] = queue[i]
        BY <1>3, <1>5, <1>8, <3>1, <4>1
      <4> QED BY <2>2, <3>2, <4>2 DEF CredentialsFit
    <3>3. CASE m \notin lookups
      <4>1. m.gen = flowGen + 1 /\ m.account = Highlighted
        BY <1>9, <3>3
      <4>2. ~ (i \in DOMAIN queue /\ queue'[i] = queue[i])
        BY <1>3, <3>1, <4>1 DEF CredentialsFit
      <4> QED BY <1>8, <4>1, <4>2
    <3> QED BY <3>2, <3>3
  <2> QED BY <2>1, <2>2 DEF CredentialsFit
<1> QED BY <1>3, <1>7, <1>10

\* The other steps of a reset flow.
LEMMA FullFlow ==
    ASSUME FullInv, flow'.phase # "none" => disposed \/ ~ loading,
           IInv', ResetsTyped', FlowsFit', store' = store,
           flowGen <= flowGen', \A m \in lookups' : \E l \in lookups : l.gen = m.gen /\ l.account = m.account,
           UNCHANGED <<queue, job, view>>
    PROVE  FullInv'
<1>1. store' \in Stores /\ flowGen \in Nat /\ flowGen' \in Nat
  BY DEF FullInv, ViewInv, WalkTyped, IInv, Shapes
<1>2. ViewInv'
  BY <1>1, ViewQuiet DEF FullInv
<1>3. Carried
  BY DEF Carried
<1>4. CredentialsFit'
  BY <1>1, <1>3, CredentialsKept DEF FullInv
<1> QED BY <1>2, <1>4 DEF FullInv

LEMMA FullCancelConfirm ==
    ASSUME FullInv, Cancel \/ Confirm
    PROVE  FullInv'
<1>1. IInv' /\ ResetsTyped' /\ FlowsFit'
  BY CancelStep, ConfirmStep, ResetsCancel, ResetsConfirm DEF FullInv
<1>2. /\ flow.phase # "none" /\ ~ disposed /\ lookups' = lookups
      /\ UNCHANGED <<store, queue, job, view>>
  BY DEF Cancel, Confirm
<1>3. ~ loading
  BY <1>2 DEF FullInv, ViewInv, HeadersMatchTheWalk
<1>4. flowGen <= flowGen'
  BY DEF Cancel, Confirm, FullInv, IInv, Shapes
<1> QED BY <1>1, <1>2, <1>3, <1>4, FullFlow

LEMMA FullLookup ==
    ASSUME FullInv, NEW l \in lookups, Lookup(l)
    PROVE  FullInv'
<1>1. IInv' /\ ResetsTyped' /\ FlowsFit'
  BY LookupStep, ResetsLookup DEF FullInv
<1>2. PICK found : EndLookup(l, found) /\ UNCHANGED <<store, queue, job, view>>
  BY DEF Lookup
<1>3. ~ Late(l) => flow.phase = "checking"
  BY DEF Late, FullInv, IInv, OneLookupEach
<1>4. flow'.phase # "none" => disposed \/ ~ loading
  BY <1>2, <1>3 DEF EndLookup, FullInv, ViewInv, HeadersMatchTheWalk
<1>5. flowGen' = flowGen /\ lookups' \subseteq lookups /\ flowGen \in Nat
  BY <1>2 DEF EndLookup, FullInv, IInv, Shapes
<1> QED BY <1>1, <1>2, <1>4, <1>5, FullFlow

LEMMA FullCredential ==
    ASSUME FullInv, NEW l \in lookups, Credential(l)
    PROVE  FullInv'
<1> USE DEF FullInv
<1> DEFINE t == Task("credential", l.gen)
<1>1. /\ Running(t) /\ t.do = "credential" /\ queue' = Dequeued(t)
      /\ UNCHANGED <<store, job, view>> /\ queue \in Seq(Tasks) /\ store \in Stores
  BY TaskTyped DEF Credential, ViewInv, WalkTyped
<1>2. 1 \in DOMAIN queue /\ queue[1] = t
  BY <1>1, Advance
<1>3. l.account \in Labels
  <2>1. l.account # Builtin
    BY <1>2 DEF CredentialsFit
  <2> QED BY <2>1 DEF ResetsTyped, Lookups, Accounts
<1>4. IInv' /\ ResetsTyped' /\ FlowsFit'
  BY <1>1, <1>3, CredentialStep, ResetsCredential
<1>5. /\ flowGen' = flowGen /\ flowGen \in Nat
      /\ flow' = flow \/ flow' = NoFlow
      /\ \A m \in lookups' : \E o \in lookups : o.gen = m.gen /\ o.account = m.account
  <2>1. flowGen \in Nat
    BY DEF IInv, Shapes
  <2>2. CASE EndLookup(l, NoFlow)
    BY <2>1, <2>2 DEF EndLookup
  <2>3. CASE /\ lookups' = (lookups \ {l}) \union {[l EXCEPT !.grant = store.profile[l.account]]}
             /\ UNCHANGED <<flow, flowGen, questions, redeems, cancelled>>
    <3>1. l = [gen |-> l.gen, account |-> l.account, grant |-> l.grant]
      BY DEF IInv, Shapes
    <3>2. /\ [l EXCEPT !.grant = store.profile[l.account]].gen = l.gen
          /\ [l EXCEPT !.grant = store.profile[l.account]].account = l.account
      BY <3>1
    <3> QED BY <2>1, <2>3, <3>2
  <2> QED BY <2>2, <2>3 DEF Credential
<1>6. Carried
  BY <1>1, CarriedByTail
<1>7. CredentialsFit'
  BY <1>5, <1>6, CredentialsKept
<1>8. queue' \in Seq(Tasks) /\ QueueFits(queue', job.stage)
  BY <1>1, QueueAdvances DEF ViewInv
<1>9. ViewInv'
  <2>1. flow'.phase # "none" => disposed \/ ~ loading
    BY <1>5, NoFlowTyped DEF ViewInv, HeadersMatchTheWalk
  <2> HIDE DEF t
  <2> QED BY <1>1, <1>8, <2>1 DEF ViewInv, WalkTyped, HeadersMatchTheWalk, RowsFit, view
<1> QED BY <1>4, <1>7, <1>9

LEMMA FullRedeem ==
    ASSUME FullInv, NEW n \in DOMAIN redeems, Serve(n) \/ Redeemed(n)
    PROVE  FullInv'
<1>1. IInv' /\ ResetsTyped' /\ FlowsFit'
  BY ServeStep, RedeemedStep, ResetsServe, ResetsRedeemed DEF FullInv
<1>2. store' = store /\ UNCHANGED <<flowGen, lookups>> /\ flowGen \in Nat /\ flowGen' \in Nat
  BY DEF Serve, Redeemed, FullInv, IInv, Shapes
<1>3. flow.phase # "none" => disposed \/ ~ loading
  BY DEF FullInv, ViewInv, HeadersMatchTheWalk
<1>4. CASE UNCHANGED <<queue, job, view>> /\ (flow' = flow \/ flow' = NoFlow)
  <2>1. flow'.phase # "none" => disposed \/ ~ loading
    BY <1>3, <1>4, NoFlowTyped
  <2> QED BY <1>1, <1>2, <1>4, <2>1, FullFlow
<1>5. CASE Redeemed(n) /\ ~ disposed /\ flow' = NoFlow /\ Load(queue)
  <2>1. flow.phase = "redeeming"
    BY <1>5 DEF Redeemed, FullInv, IInv, RedeemsFollowYes
  <2>2. ~ loading /\ flow'.phase = "none"
    BY <1>3, <1>5, <2>1, NoFlowTyped
  <2>3. ViewInv'
    BY <1>2, <1>5, <2>2, ViewLoads DEF FullInv
  <2>4. Carried
    BY <1>5, CarriedByLoad DEF FullInv, ViewInv, WalkTyped
  <2>5. CredentialsFit'
    BY <1>2, <2>4, CredentialsKept DEF FullInv
  <2> QED BY <1>1, <2>3, <2>5 DEF FullInv
<1> QED BY <1>4, <1>5 DEF Serve, Redeemed

LEMMA FullInductive ==
    ASSUME FullInv, [Next]_vars
    PROVE  FullInv'
<1>1. CASE StartReset \/ Cancel \/ Confirm
  BY <1>1, FullStartReset, FullCancelConfirm
<1>2. ASSUME NEW l \in lookups, Credential(l) \/ Lookup(l) PROVE FullInv'
  BY <1>2, FullCredential, FullLookup
<1>3. ASSUME NEW n \in DOMAIN redeems, Serve(n) \/ Redeemed(n) PROVE FullInv'
  BY <1>3, FullRedeem
<1> QED BY <1>1, <1>2, <1>3, FullQuiet DEF Next, Keys, Work

LEMMA FullInvariance == Spec => []FullInv
BY FullInit, FullInductive, PTL DEF Spec

\* The headers and the rows of a walk describe one store, one walk runs at a time,
\* and none beside a reset flow.
THEOREM HeadersAlwaysMatchTheWalk == Spec => []HeadersMatchTheWalk
<1>1. FullInv => HeadersMatchTheWalk
  BY DEF FullInv, ViewInv
<1> QED BY <1>1, FullInvariance, PTL

\* The cursor, the rows, the tasks and the numbers of the flows stay within the
\* bounds that TypeOK sets them.
THEOREM ViewTypeCorrect == Spec => []TypeOK
<1>1. FullInv => TypeOK
  BY DEF FullInv, ViewInv, ResetsTyped, WalkTyped, TypeOK, Jobs, Flows, Lookups, Questions, Redeems
<1> QED BY <1>1, FullInvariance, PTL

-----------------------------------------------------------------------------
(* The rows are drained in walk order, whatever order the answers come in.  *)

Follows(r, plan, next) ==
    \E at \in [1..Len(r) -> 1..(next - 1)] :
        /\ \A k \in 1..Len(r) : r[k] = plan[at[k]]
        /\ \A k, m \in 1..Len(r) : k < m => at[k] < at[m]

\* During a walk the rows are slots of its plan that were drained, in the order
\* of the plan; and no account is ever listed twice, so that the row the cursor
\* is put back on after a walk is the one that was selected.
RowsFollowTheWalk ==
    /\ Apart(rows)
    /\ ~ disposed /\ job.stage = "fetching" => Follows(rows, Plan(job.store), job.next)

LEMMA DrainFollows ==
    ASSUME NEW S, NEW r \in Seq(S), NEW plan, NEW next \in Nat \ {0}, plan[next] \in S,
           Follows(r, plan, next)
    PROVE  Follows(r, plan, next + 1) /\ Follows(Append(r, plan[next]), plan, next + 1)
<1>1. PICK at \in [1..Len(r) -> 1..(next - 1)] :
         /\ \A k \in 1..Len(r) : r[k] = plan[at[k]]
         /\ \A k, m \in 1..Len(r) : k < m => at[k] < at[m]
  BY DEF Follows
<1>2. Len(r) \in Nat /\ next - 1 \in Nat /\ (next + 1) - 1 = next /\ next \in 1..next
  OBVIOUS
<1>3. \A x \in 1..(next - 1) : x \in 1..next /\ x < next
  OBVIOUS
<1>4. at \in [1..Len(r) -> 1..next]
  BY <1>1, <1>3
<1>5. Follows(r, plan, next + 1)
  BY <1>1, <1>2, <1>4 DEF Follows
<1> DEFINE last == Len(r) + 1
           new  == Append(r, plan[next])
           to   == [k \in 1..last |-> IF k = last THEN next ELSE at[k]]
<1>6. /\ Len(new) = last /\ new[last] = plan[next] /\ \A k \in 1..Len(r) : new[k] = r[k]
      /\ \A k \in 1..last : k = last \/ k \in 1..Len(r)
      /\ \A k \in 1..Len(r) : k \in 1..last /\ k # last /\ k < last
      /\ last \in 1..last
  BY <1>2
<1>7. /\ to \in [1..last -> 1..next] /\ to[last] = next
      /\ \A k \in 1..Len(r) : to[k] = at[k] /\ to[k] < next /\ to[k] \in Nat
  <2>1. \A k \in 1..Len(r) : at[k] \in 1..next /\ at[k] < next /\ at[k] \in Nat
    <3>1. \A k \in 1..Len(r) : at[k] \in 1..(next - 1)
      BY <1>1
    <3>2. \A x \in 1..next : x \in Nat
      OBVIOUS
    <3> QED BY <1>3, <3>1, <3>2
  <2> HIDE DEF last
  <2> QED BY <1>2, <1>6, <2>1
<1> HIDE DEF to, new
<1>8. \A k \in 1..last : new[k] = plan[to[k]]
  <2> HIDE DEF last
  <2> QED BY <1>1, <1>6, <1>7
<1>9. \A k, m \in 1..last : k < m => to[k] < to[m]
  <2>1. \A k, m \in 1..last : k < m => k \in 1..Len(r)
    BY <1>2
  <2> HIDE DEF last
  <2> QED BY <1>1, <1>6, <1>7, <2>1
<1>10. Follows(new, plan, next + 1)
  <2> HIDE DEF last
  <2> QED BY <1>2, <1>6, <1>7, <1>8, <1>9 DEF Follows
<1> QED BY <1>5, <1>10 DEF new

LEMMA FollowersApart ==
    ASSUME NEW S, NEW r \in Seq(S), NEW plan, NEW next \in Nat, next <= Len(plan) + 1,
           Len(plan) \in Nat, Apart(plan), Follows(r, plan, next)
    PROVE  Apart(r)
<1>1. PICK at \in [1..Len(r) -> 1..(next - 1)] :
         /\ \A k \in 1..Len(r) : r[k] = plan[at[k]]
         /\ \A k, m \in 1..Len(r) : k < m => at[k] < at[m]
  BY DEF Follows
<1> SUFFICES ASSUME NEW k \in 1..Len(r), NEW m \in 1..Len(r), r[k] = r[m] PROVE k = m
  BY DEF Apart
<1>2. at[k] \in 1..Len(plan) /\ at[m] \in 1..Len(plan)
  BY <1>1
<1>3. at[k] = at[m]
  BY <1>1, <1>2 DEF Apart
<1>4. ~ (k < m) /\ ~ (m < k)
  BY <1>1, <1>2, <1>3
<1> QED BY <1>4

LEMMA NothingFollows ==
    ASSUME NEW plan
    PROVE  Apart(<<>>) /\ Follows(<<>>, plan, 1)
<1>1. Len(<<>>) = 0 /\ 1..0 = {} /\ [k \in 1..0 |-> 1] \in [1..0 -> 1..(1 - 1)]
  OBVIOUS
<1> QED BY <1>1 DEF Apart, Follows

LEMMA RowsDrain ==
    ASSUME FullInv, RowsFollowTheWalk, NEW i \in Positions, Drain(i)
    PROVE  RowsFollowTheWalk'
<1> DEFINE plan == Plan(job.store)
           drained == IF job.result[i] = "row" THEN Append(rows, plan[i]) ELSE rows
<1>1. /\ job.stage = "fetching" /\ job.next = i /\ i <= Len(plan) /\ i \in Nat \ {0}
      /\ rows \in Seq(Accounts) /\ job.store \in Stores /\ job \in Jobs
  BY ViewAssumption DEF Drain, NextAnswered, FullInv, ViewInv, WalkTyped, Jobs, Positions
<1>2. plan \in Seq(Accounts) /\ Len(plan) \in Nat /\ Apart(plan) /\ plan[i] \in Accounts
  BY <1>1, PlanTyped
<1> HIDE DEF plan
<1>3. ASSUME ~ disposed PROVE Follows(drained, plan, i + 1) /\ Apart(drained)
  <2>1. Follows(rows, plan, i)
    BY <1>1, <1>3 DEF RowsFollowTheWalk, plan
  <2>2. Follows(drained, plan, i + 1) /\ drained \in Seq(Accounts)
    BY <1>1, <1>2, <2>1, DrainFollows
  <2> HIDE DEF drained
  <2>3. i + 1 \in Nat /\ i + 1 <= Len(plan) + 1
    BY <1>1, <1>2
  <2> QED BY <1>2, <2>2, <2>3, FollowersApart
<1> HIDE DEF drained
<1>4. ASSUME NEW accounts \in {rows, drained}, NEW threw, EndLoad(accounts, threw)
      PROVE  RowsFollowTheWalk'
  <2>1. job'.stage = "none" /\ rows' \in {rows, accounts} /\ (disposed => rows' = rows)
    BY <1>4, NoJobTyped DEF EndLoad, view
  <2>2. Apart(rows')
    BY <1>3, <1>4, <2>1 DEF RowsFollowTheWalk
  <2> QED BY <2>1, <2>2 DEF RowsFollowTheWalk
<1>5. CASE /\ job' = [job EXCEPT !.next = @ + 1] /\ rows' = IF disposed THEN rows ELSE drained
           /\ disposed' = disposed
  <2>1. job'.next = i + 1 /\ job'.store = job.store
    BY <1>1, <1>5 DEF Jobs
  <2>2. Apart(rows')
    BY <1>3, <1>5 DEF RowsFollowTheWalk
  <2>3. ~ disposed' => Follows(rows', plan, i + 1)
    BY <1>3, <1>5
  <2> QED BY <2>1, <2>2, <2>3 DEF RowsFollowTheWalk, plan
<1> QED BY <1>4, <1>5 DEF Drain, plan, drained

LEMMA FetchesFromOne ==
    ASSUME NEW j \in Jobs, NEW k, NEW q, Walk(j, k, q), job'.stage = "fetching"
    PROVE  job'.next = 1
BY DEF Walk, Jobs

LEMMA RowsStep ==
    ASSUME FullInv, FullInv', RowsFollowTheWalk, [Next]_vars
    PROVE  RowsFollowTheWalk'
<1> DEFINE Calm == /\ UNCHANGED <<rows, job>> \/ (rows' = <<>> /\ job'.stage = "reading")
                   /\ disposed => disposed'
<1>1. CASE Calm
  BY <1>1, NothingFollows DEF RowsFollowTheWalk
<1>2. ASSUME Load(queue) PROVE Calm
  BY <1>2, ReadingTyped DEF Load, Reading
<1>3. Keys \/ Dispose \/ Elsewhere \/ UNCHANGED vars => Calm
  BY <1>2 DEF Keys, Reload, Move, Enter, StartReset, Cancel, Confirm, Dispose, Elsewhere, view, vars
<1>4. ASSUME NEW n \in DOMAIN redeems, Serve(n) \/ Redeemed(n) PROVE Calm
  BY <1>2, <1>4 DEF Serve, Redeemed, Load, view
<1>5. ASSUME NEW l \in lookups, Credential(l) \/ Lookup(l) PROVE Calm
  BY <1>5 DEF Credential, Lookup, view
<1>6. ASSUME NEW a \in Accounts, Apply(a) PROVE Calm
  BY <1>6 DEF Apply
<1>7. ASSUME NEW i \in Positions, Settle(i) PROVE RowsFollowTheWalk'
  <2>1. PICK r : job' = [job EXCEPT !.result[i] = r] /\ UNCHANGED <<rows, disposed>>
    BY <1>7 DEF Settle, view
  <2>2. job'.stage = job.stage /\ job'.store = job.store /\ job'.next = job.next
    BY <2>1 DEF FullInv, ViewInv, WalkTyped, Jobs
  <2> QED BY <2>1, <2>2 DEF RowsFollowTheWalk
<1>8. CASE Read \/ Prepare
  <2>1. rows' = rows
    BY <1>8 DEF Read, Prepare, EndLoad, view
  <2>2. job'.stage = "fetching" => job'.next = 1
    <3>1. job \in Jobs /\ [job EXCEPT !.store = store] \in Jobs
      BY DEF FullInv, ViewInv, WalkTyped, Jobs
    <3>2. \/ job' = NoJob
          \/ \E j \in Jobs : \E k, q : Walk(j, k, q)
      BY <1>8, <3>1 DEF Read, Prepare, EndLoad
    <3> QED BY <3>2, NoJobTyped, FetchesFromOne
  <2>3. job'.stage = "fetching" /\ ~ disposed' => Len(rows') < 1 /\ rows' \in Seq(Accounts)
    BY <2>2 DEF FullInv, ViewInv, RowsFit, WalkTyped
  <2>4. job'.stage = "fetching" /\ ~ disposed' => rows' = <<>>
    BY <2>3
  <2> QED BY <2>1, <2>2, <2>4, NothingFollows DEF RowsFollowTheWalk
<1> QED BY <1>1, <1>3, <1>4, <1>5, <1>6, <1>7, <1>8, RowsDrain DEF Next, Work

\* The rows of a walk are its accounts in walk order, each of them once.
THEOREM RowsAlwaysFollowTheWalk == Spec => []RowsFollowTheWalk
<1>1. Init => RowsFollowTheWalk
  BY NothingFollows, ReadingTyped DEF Init, RowsFollowTheWalk
<1>2. FullInv /\ FullInv' /\ RowsFollowTheWalk /\ [Next]_vars => RowsFollowTheWalk'
  BY RowsStep
<1> QED BY <1>1, <1>2, FullInvariance, PTL DEF Spec

-----------------------------------------------------------------------------
(* Nothing is left out of a report: every stored profile gets a slot, every *)
(* slot of a profile gets a row, and the drain passes over none of them.    *)

WalkFits ==
    /\ job.stage \in {"reading", "preparing"} => \A i \in Positions : job.result[i] = "pending"
    /\ job.stage = "fetching" =>
          \A i \in 1..Len(Plan(job.store)) : Plan(job.store)[i] # Builtin =>
             /\ job.result[i] \in {"pending", "row"}
             /\ ~ disposed /\ i < job.next => Listed(Plan(job.store)[i], rows)

\* A walk that comes to its end, on a view that is still there and without a
\* login that cannot be read, leaves the rows of exactly the profiles that were
\* in the file when it began, although other sessions add and remove profiles
\* and the answers come in any order.
ReportIsComplete ==
    [][ /\ ~ disposed /\ job.stage = "fetching" /\ job'.stage # "fetching"
        /\ \A i \in 1..Len(Plan(job.store)) : job.result[i] # "throws"
        => \A l \in Labels : Listed(l, rows') <=> job.store.profile[l] # None ]_vars

LEMMA AppendLists ==
    ASSUME NEW S, NEW r \in Seq(S), NEW x \in S
    PROVE  Listed(x, Append(r, x)) /\ \A y : Listed(y, r) => Listed(y, Append(r, x))
<1>1. /\ Len(r) \in Nat /\ Len(r) + 1 \in 1..Len(Append(r, x)) /\ Append(r, x)[Len(r) + 1] = x
      /\ \A a \in 1..Len(r) : a \in 1..Len(Append(r, x)) /\ Append(r, x)[a] = r[a]
  OBVIOUS
<1> QED BY <1>1 DEF Listed

LEMMA WalkKeeps ==
    ASSUME NEW j \in Jobs, NEW k, NEW q, Walk(j, k, q)
    PROVE  job'.result = j.result /\ job'.store = j.store /\ job'.stage \in {"preparing", "fetching"}
BY DEF Walk, Jobs

LEMMA LoadIsAlone ==
    ASSUME FullInv, \/ Reload
                    \/ \E n \in DOMAIN redeems : Redeemed(n) /\ ~ disposed /\ Load(queue)
    PROVE  job.stage = "none"
<1>1. CASE Reload
  BY <1>1 DEF Reload, Navigable, FullInv, ViewInv, HeadersMatchTheWalk
<1>2. ASSUME NEW n \in DOMAIN redeems, Redeemed(n), ~ disposed PROVE job.stage = "none"
  <2>1. flow.phase = "redeeming"
    BY <1>2 DEF Redeemed, FullInv, IInv, RedeemsFollowYes
  <2> QED BY <1>2, <2>1 DEF FullInv, ViewInv, HeadersMatchTheWalk
<1> QED BY <1>1, <1>2

\* A step that is neither of the walk nor the start of one leaves it alone.
LEMMA WalkSteps ==
    ASSUME FullInv, [Next]_vars
    PROVE  \/ UNCHANGED <<rows, job>> /\ (disposed => disposed')
           \/ job.stage = "none" /\ Load(queue)
           \/ Read \/ Prepare
           \/ \E i \in Positions : Settle(i) \/ Drain(i)
<1> DEFINE Calm == UNCHANGED <<rows, job>> /\ (disposed => disposed')
<1>1. Move \/ Enter \/ StartReset \/ Cancel \/ Confirm \/ Dispose \/ Elsewhere \/ UNCHANGED vars => Calm
  BY DEF Move, Enter, StartReset, Cancel, Confirm, Dispose, Elsewhere, view, vars
<1>2. ASSUME NEW n \in DOMAIN redeems, Serve(n) \/ Redeemed(n)
      PROVE  Calm \/ (job.stage = "none" /\ Load(queue))
  <2>1. Calm \/ (Redeemed(n) /\ ~ disposed /\ Load(queue))
    BY <1>2 DEF Serve, Redeemed, view
  <2> QED BY <2>1, LoadIsAlone
<1>3. ASSUME NEW l \in lookups, Credential(l) \/ Lookup(l) PROVE Calm
  BY <1>3 DEF Credential, Lookup, view
<1>4. ASSUME NEW a \in Accounts, Apply(a) PROVE Calm
  BY <1>4 DEF Apply
<1>5. Reload => job.stage = "none" /\ Load(queue)
  BY LoadIsAlone DEF Reload
<1> HIDE DEF Calm
<1>6. \/ Calm \/ (job.stage = "none" /\ Load(queue))
      \/ Read \/ Prepare
      \/ \E i \in Positions : Settle(i) \/ Drain(i)
  BY <1>1, <1>2, <1>3, <1>4, <1>5 DEF Next, Keys, Work
<1> QED BY <1>6 DEF Calm

\* Reading and preparing come before fetching, and end in it.
LEMMA TasksBeforeFetches ==
    ASSUME FullInv, Read \/ Prepare
    PROVE  job.stage \in {"reading", "preparing"}
<1>1. ASSUME NEW t, t.do \in {"read", "prepare"}, Running(t)
      PROVE  job.stage \in {"reading", "preparing"}
  <2>1. 1 \in DOMAIN queue /\ queue[1] = t
    BY <1>1, Advance DEF FullInv, ViewInv, WalkTyped
  <2> QED BY <1>1, <2>1 DEF FullInv, ViewInv, QueueFits
<1>2. Running(Task("read", None)) \/ Running(Task("prepare", None))
  BY DEF Read, Prepare
<1>3. Task("read", None).do = "read" /\ Task("prepare", None).do = "prepare"
  BY DEF Task
<1> HIDE DEF Running
<1> QED BY <1>1, <1>2, <1>3

\* What a drain that goes on, or comes to the end, has listed.
LEMMA DrainLists ==
    ASSUME FullInv, WalkFits, ~ disposed, NEW i \in Positions,
           job.stage = "fetching", i <= Len(Plan(job.store)), NextAnswered(i),
           NEW s \in 1..Len(Plan(job.store)), s <= i, Plan(job.store)[s] # Builtin
    PROVE  Listed(Plan(job.store)[s],
                  IF job.result[i] = "row" THEN Append(rows, Plan(job.store)[i]) ELSE rows)
<1> DEFINE plan == Plan(job.store)
<1>1. /\ job.next = i /\ job.result[i] # "pending" /\ i \in 1..Len(plan)
      /\ rows \in Seq(Accounts) /\ plan \in Seq(Accounts) /\ plan[i] \in Accounts
  <2>1. job.store \in Stores /\ i \in Nat /\ 1 <= i /\ rows \in Seq(Accounts)
    BY ViewAssumption DEF FullInv, ViewInv, WalkTyped, Jobs, Positions
  <2>2. plan \in Seq(Accounts)
    BY <2>1, PlanTyped
  <2> HIDE DEF plan
  <2>3. i <= Len(plan)
    BY DEF plan
  <2> QED BY <2>1, <2>2, <2>3 DEF NextAnswered
<1>2. s < i => Listed(plan[s], rows)
  BY <1>1 DEF WalkFits
<1>3. plan[i] # Builtin => job.result[i] = "row"
  BY <1>1 DEF WalkFits
<1>4. Listed(plan[i], Append(rows, plan[i])) /\ \A y : Listed(y, rows) => Listed(y, Append(rows, plan[i]))
  <2> HIDE DEF plan
  <2> QED BY <1>1, AppendLists
<1>5. s < i \/ s = i
  BY <1>1
<1> QED BY <1>2, <1>3, <1>4, <1>5

LEMMA WalkFitsStep ==
    ASSUME FullInv, WalkFits, [Next]_vars
    PROVE  WalkFits'
<1>0. job \in Jobs /\ NoJob.stage = "none"
  BY NoJobTyped DEF FullInv, ViewInv, WalkTyped
<1>1. CASE UNCHANGED <<rows, job>> /\ (disposed => disposed')
  BY <1>1 DEF WalkFits
<1>2. CASE Load(queue)
  BY <1>2 DEF Load, Reading, WalkFits
<1>3. CASE Read \/ Prepare
  <2>1. \A i \in Positions : job.result[i] = "pending"
    BY <1>3, TasksBeforeFetches DEF WalkFits
  <2>2. job' = NoJob \/ (job'.result = job.result /\ (job'.stage = "fetching" => job'.next = 1))
    <3>1. [job EXCEPT !.store = store] \in Jobs /\ [job EXCEPT !.store = store].result = job.result
      BY DEF FullInv, ViewInv, WalkTyped, Jobs
    <3>2. \/ job' = NoJob
          \/ \E k, q : Walk(job, k, q)
          \/ \E k, q : Walk([job EXCEPT !.store = store], k, q)
      BY <1>3 DEF Read, Prepare, EndLoad
    <3> QED BY <1>0, <3>1, <3>2, WalkKeeps, FetchesFromOne
  <2>3. CASE job' = NoJob
    BY <1>0, <2>3 DEF WalkFits
  <2>4. CASE job'.result = job.result /\ (job'.stage = "fetching" => job'.next = 1)
    <3>1. job'.stage = "fetching" => job'.store \in Stores
      BY <1>3, FullQuiet DEF FullInv, ViewInv, WalkTyped, Jobs
    <3>2. job'.stage = "fetching" => \A i \in 1..Len(Plan(job'.store)) : i \in Positions /\ ~ (i < 1)
      <4> SUFFICES ASSUME job'.stage = "fetching"
                   PROVE  \A i \in 1..Len(Plan(job'.store)) : i \in Positions /\ ~ (i < 1)
        OBVIOUS
      <4>1. Len(Plan(job'.store)) \in 1..(Len(Order) + 1) /\ Len(Order) \in Nat
        BY <3>1, PlanTyped, ViewAssumption
      <4> QED BY <4>1 DEF Positions
    <3> QED BY <2>1, <2>4, <3>2 DEF WalkFits
  <2> QED BY <2>2, <2>3, <2>4
<1>4. ASSUME NEW i \in Positions, Settle(i) PROVE WalkFits'
  <2>1. PICK r : /\ job' = [job EXCEPT !.result[i] = r] /\ UNCHANGED <<rows, disposed>>
                 /\ Plan(job.store)[i] # Builtin => r = "row"
    BY <1>4 DEF Settle, view
  <2>2. /\ job'.stage = "fetching" /\ job'.store = job.store /\ job'.next = job.next
        /\ \A n \in Positions : job'.result[n] = IF n = i THEN r ELSE job.result[n]
    BY <1>0, <1>4, <2>1 DEF Settle, Jobs
  <2>3. \A n \in 1..Len(Plan(job.store)) : n \in Positions
    <3>1. Len(Plan(job.store)) \in 1..(Len(Order) + 1) /\ Len(Order) \in Nat
      BY <1>0, PlanTyped, ViewAssumption DEF Jobs
    <3> QED BY <3>1 DEF Positions
  <2> QED BY <1>4, <2>1, <2>2, <2>3 DEF WalkFits, Settle
<1>5. ASSUME NEW i \in Positions, Drain(i) PROVE WalkFits'
  <2> DEFINE drained == IF job.result[i] = "row" THEN Append(rows, Plan(job.store)[i]) ELSE rows
  <2>1. CASE job' = NoJob
    BY <1>0, <2>1 DEF WalkFits
  <2>2. CASE /\ job' = [job EXCEPT !.next = @ + 1]
             /\ rows' = IF disposed THEN rows ELSE drained
             /\ disposed' = disposed
    <3>1. job.stage = "fetching" /\ i <= Len(Plan(job.store)) /\ NextAnswered(i) /\ i \in Nat
      BY <1>5, ViewAssumption DEF Drain, Positions
    <3>2. /\ job'.stage = "fetching" /\ job'.store = job.store /\ job'.next = i + 1
          /\ job'.result = job.result
      BY <1>0, <2>2, <3>1 DEF Jobs, NextAnswered
    <3>3. ASSUME NEW s \in 1..Len(Plan(job.store)), s < i + 1, Plan(job.store)[s] # Builtin, ~ disposed
          PROVE  Listed(Plan(job.store)[s], rows')
      <4>1. s <= i
        BY <3>1, <3>3
      <4> QED BY <2>2, <3>1, <3>3, <4>1, DrainLists
    <3> HIDE DEF drained
    <3> QED BY <2>2, <3>1, <3>2, <3>3 DEF WalkFits
  <2> QED BY <1>5, <2>1, <2>2 DEF Drain, EndLoad
<1> QED BY <1>1, <1>2, <1>3, <1>4, <1>5, WalkSteps

LEMMA WalkAlwaysFits == Spec => []WalkFits
<1>1. Init => WalkFits
  BY DEF Init, Reading, WalkFits
<1>2. FullInv /\ WalkFits /\ [Next]_vars => WalkFits'
  BY WalkFitsStep
<1> QED BY <1>1, <1>2, FullInvariance, PTL DEF Spec

\* The rows of a walk that is over are slots of its plan.
LEMMA DrainedFollow ==
    ASSUME FullInv, RowsFollowTheWalk, ~ disposed, NEW i \in Positions,
           job.stage = "fetching", i <= Len(Plan(job.store)), NextAnswered(i), NEW l,
           Listed(l, IF job.result[i] = "row" THEN Append(rows, Plan(job.store)[i]) ELSE rows)
    PROVE  Listed(l, Plan(job.store))
<1> DEFINE plan == Plan(job.store)
           drained == IF job.result[i] = "row" THEN Append(rows, plan[i]) ELSE rows
<1>1. /\ job.next = i /\ i <= Len(plan) /\ i \in Nat \ {0}
      /\ rows \in Seq(Accounts) /\ job.store \in Stores
  BY ViewAssumption DEF NextAnswered, FullInv, ViewInv, WalkTyped, Jobs, Positions
<1>2. plan \in Seq(Accounts) /\ Len(plan) \in Nat /\ plan[i] \in Accounts
  BY <1>1, PlanTyped
<1>3. Follows(rows, plan, i)
  BY <1>1 DEF RowsFollowTheWalk
<1>4. Listed(l, drained)
  OBVIOUS
<1> HIDE DEF plan
<1>5. Follows(drained, plan, i + 1)
  BY <1>1, <1>2, <1>3, DrainFollows
<1> HIDE DEF drained
<1>6. PICK at \in [1..Len(drained) -> 1..((i + 1) - 1)] : \A k \in 1..Len(drained) : drained[k] = plan[at[k]]
  BY <1>5 DEF Follows
<1>7. PICK k \in 1..Len(drained) : drained[k] = l
  BY <1>4 DEF Listed
<1>8. at[k] \in 1..Len(plan)
  BY <1>1, <1>2, <1>6
<1>9. Listed(l, plan)
  BY <1>6, <1>7, <1>8 DEF Listed
<1> QED BY <1>9 DEF plan

\* The report of a walk lists the stored profiles, all of them and no other.
THEOREM ReportAlwaysComplete == Spec => ReportIsComplete
<1> DEFINE Ends == /\ ~ disposed /\ job.stage = "fetching" /\ job'.stage # "fetching"
                   /\ \A i \in 1..Len(Plan(job.store)) : job.result[i] # "throws"
           Whole == \A l \in Labels : Listed(l, rows') <=> job.store.profile[l] # None
<1>1. ASSUME FullInv, RowsFollowTheWalk, WalkFits, [Next]_vars, Ends PROVE Whole
  <2>1. PICK i \in Positions : Drain(i)
    <3>1. ~ (Read \/ Prepare) /\ ~ UNCHANGED job /\ job.stage # "none"
      BY <1>1, TasksBeforeFetches
    <3>2. ASSUME NEW i \in Positions PROVE ~ Settle(i)
      BY <1>1 DEF Settle, FullInv, ViewInv, WalkTyped, Jobs
    <3> QED BY <1>1, <3>1, <3>2, WalkSteps
  <2> DEFINE plan == Plan(job.store)
             drained == IF job.result[i] = "row" THEN Append(rows, plan[i]) ELSE rows
  <2>2. /\ job.store \in Stores /\ job \in Jobs /\ i \in Nat /\ 1 <= i
        /\ job.stage = "fetching" /\ i <= Len(plan) /\ NextAnswered(i)
    BY <1>1, <2>1, ViewAssumption DEF Drain, FullInv, ViewInv, WalkTyped, Jobs, Positions
  <2>3. Len(plan) \in Nat /\ i \in 1..Len(plan)
    BY <2>2, PlanTyped
  <2>4. i = Len(plan) /\ rows' = drained
    <3>1. job.result[i] # "throws"
      BY <1>1, <2>3
    <3>2. job' = [job EXCEPT !.next = @ + 1] => job'.stage = "fetching"
      BY <2>2 DEF Jobs
    <3>3. job.next = Len(plan) /\ EndLoad(drained, FALSE)
      BY <1>1, <2>1, <3>1, <3>2 DEF Drain
    <3> QED BY <1>1, <2>2, <3>3 DEF EndLoad, NextAnswered
  <2> SUFFICES ASSUME NEW l \in Labels PROVE Listed(l, rows') <=> job.store.profile[l] # None
    OBVIOUS
  <2>5. Listed(l, plan) <=> job.store.profile[l] # None
    BY <2>2, PlanComplete
  <2>6. Listed(l, rows') => Listed(l, plan)
    BY <1>1, <2>2, <2>4, DrainedFollow
  <2>7. ASSUME Listed(l, plan) PROVE Listed(l, rows')
    <3>1. PICK s \in 1..Len(plan) : plan[s] = l
      BY <2>7 DEF Listed
    <3>2. plan[s] # Builtin /\ s <= i
      BY <2>3, <2>4, <3>1, ViewAssumption
    <3>3. Listed(plan[s], drained)
      BY <1>1, <2>2, <3>1, <3>2, DrainLists
    <3> QED BY <2>4, <3>1, <3>3
  <2> HIDE DEF plan, drained
  <2> QED BY <2>5, <2>6, <2>7
<1>2. FullInv /\ RowsFollowTheWalk /\ WalkFits /\ [Next]_vars => [Ends => Whole]_vars
  BY <1>1
<1> QED BY <1>2, FullInvariance, RowsAlwaysFollowTheWalk, WalkAlwaysFits, PTL DEF Spec, ReportIsComplete

=============================================================================
