------------------------- MODULE SeatCommandsProofs -------------------------
(***************************************************************************)
(* Proofs about SeatCommands, for any names, tokens, actors and number of  *)
(* confirmation attempts.  First what each section operator preserves, one *)
(* lemma per operator; then the inductive invariant, one lemma per action; *)
(* then the theorems.                                                      *)
(***************************************************************************)
EXTENDS SeatCommands, TLAPS

\* A section seat.json may hold.
GoodSection(s) == /\ s \in Sections
                  /\ WellFormed(s)
                  /\ KeywordFree(s)
                  /\ OneLabelEach(s)

\* A command past its first step names something, and a login that has passed
\* its OAuth flow holds a token.
CmdsBound == \A x \in Actors : /\ pc[x] # "idle" => cmd[x].name \in Names
                               /\ pc[x] = "minted" => cmd[x].minted # None

\* The tokens logins hold are theirs alone.
MintsApart ==
    \A x \in Actors : cmd[x].minted # None =>
        /\ cmd[x].minted \notin Stored(store)
        /\ \A y \in Actors : cmd[y].minted = cmd[x].minted => x = y

\* The inductive invariant.  CmdsBound and MintsApart are what the step that
\* stores a login needs: the token it stores is real, and no other login nor
\* the store holds it.
IInv == /\ TypeOK
        /\ GoodSection(store)
        /\ CmdsBound
        /\ MintsApart

-----------------------------------------------------------------------------
(* The section operators.                                                  *)

\* Resolving a name gives a stored label or nothing.
LEMMA ResolveNameStored ==
    ASSUME NEW s, GoodSection(s), NEW n \in Names, ResolveName(s, n) # None
    PROVE  /\ ResolveName(s, n) \in Names
           /\ s.profiles[ResolveName(s, n)] # None
BY CommandsAssumption DEF GoodSection, ResolveName, WellFormed, Sections

\* The empty section is well formed.
LEMMA EmptySectionGood == GoodSection(EmptySection) /\ Stored(EmptySection) = {}
BY CommandsAssumption
DEF GoodSection, EmptySection, Sections, WellFormed, KeywordFree, OneLabelEach, Stored

\* Pointing free names at a stored label keeps a section well formed.
LEMMA WithAliasesGood ==
    ASSUME NEW s, GoodSection(s), NEW label \in Names, s.profiles[label] # None,
           NEW as \in SUBSET Names, ValidAliasNames(as), AliasesAssignable(s, label, as)
    PROVE  /\ GoodSection(WithAliases(s, label, as))
           /\ WithAliases(s, label, as).profiles = s.profiles
BY CommandsAssumption
DEF GoodSection, Sections, WellFormed, KeywordFree, OneLabelEach, WithAliases,
    ValidAliasNames, AliasesAssignable

\* Removing a profile takes its aliases and the default with it.
LEMMA WithoutProfileGood ==
    ASSUME NEW s, GoodSection(s), NEW label \in Names
    PROVE  /\ GoodSection(WithoutProfile(s, label))
           /\ Stored(WithoutProfile(s, label)) \subseteq Stored(s)
BY CommandsAssumption
DEF GoodSection, Sections, WellFormed, KeywordFree, OneLabelEach, WithoutProfile, Stored

\* Renaming to a free name moves the grant with its aliases and the default.
LEMMA RenamedGood ==
    ASSUME NEW s, GoodSection(s), NEW from \in Names, s.profiles[from] # None,
           NEW to \in ValidLabels \ {DefaultKeyword},
           s.profiles[to] = None, s.aliases[to] = None
    PROVE  /\ GoodSection(Renamed(s, from, to))
           /\ Stored(Renamed(s, from, to)) \subseteq Stored(s)
BY CommandsAssumption
DEF GoodSection, Sections, WellFormed, KeywordFree, OneLabelEach, Renamed, Stored

\* A fresh token under a stored label, or under a valid name that is no alias.
LEMMA WithGrantGood ==
    ASSUME NEW s, GoodSection(s), NEW label \in Names, NEW t \in Tokens,
           t \notin Stored(s), label \in ValidLabels \ {DefaultKeyword},
           s.aliases[label] = None
    PROVE  /\ GoodSection([s EXCEPT !.profiles[label] = t])
           /\ Stored([s EXCEPT !.profiles[label] = t]) \subseteq Stored(s) \union {t}
BY CommandsAssumption
DEF GoodSection, Sections, WellFormed, KeywordFree, OneLabelEach, Stored

\* Dropping an alias or the default disturbs nothing else.
LEMMA WithoutAliasGood ==
    ASSUME NEW s, GoodSection(s), NEW n \in Names
    PROVE  /\ GoodSection([s EXCEPT !.aliases[n] = None])
           /\ Stored([s EXCEPT !.aliases[n] = None]) = Stored(s)
           /\ GoodSection([s EXCEPT !.default = None])
           /\ Stored([s EXCEPT !.default = None]) = Stored(s)
<1>1. /\ Stored([s EXCEPT !.aliases[n] = None]) = Stored(s)
      /\ Stored([s EXCEPT !.default = None]) = Stored(s)
  BY DEF GoodSection, Sections, Stored
<1>2. /\ GoodSection([s EXCEPT !.aliases[n] = None])
      /\ GoodSection([s EXCEPT !.default = None])
  BY CommandsAssumption
  DEF GoodSection, Sections, WellFormed, KeywordFree, OneLabelEach
<1> QED BY <1>1, <1>2

-----------------------------------------------------------------------------
(* The steps.  Two shapes cover them: a mutation that leaves every dialog   *)
(* where it is, and a move of one dialog.                                  *)

\* A mutation that brings no token some login holds preserves IInv.
LEMMA QuietStep ==
    ASSUME IInv, GoodSection(store'), UNCHANGED <<pc, cmd>>,
           \A x \in Actors : cmd[x].minted # None => cmd[x].minted \notin Stored(store')
    PROVE  IInv'
BY DEF IInv, TypeOK, GoodSection, CmdsBound, MintsApart

\* Moving one dialog preserves IInv, if the command it moves to is bound and
\* the token it holds, if any, is held by nobody else.
LEMMA MoveStep ==
    ASSUME IInv, NEW a \in Actors, NEW w \in Pcs, NEW c \in Cmds, Goto(a, w, c),
           GoodSection(store'),
           w # "idle" => c.name \in Names,
           w = "minted" => c.minted # None,
           c.minted # None =>
               /\ c.minted \notin Stored(store')
               /\ \A y \in Actors \ {a} : cmd[y].minted # c.minted,
           \A y \in Actors \ {a} : cmd[y].minted # None => cmd[y].minted \notin Stored(store')
    PROVE  IInv'
<1>1. TypeOK'
  BY DEF IInv, TypeOK, GoodSection, Goto
<1>2. CmdsBound'
  BY DEF IInv, TypeOK, CmdsBound, Goto
<1>3. MintsApart'
  BY DEF IInv, TypeOK, MintsApart, Goto
<1> QED BY <1>1, <1>2, <1>3 DEF IInv

LEMMA NoCmdTyped == NoCmd \in Cmds /\ NoCmd.minted = None
BY CommandsAssumption DEF NoCmd, Cmds

\* Ending a dialog preserves IInv when the store gains no token but its own.
LEMMA EndStep ==
    ASSUME IInv, NEW a \in Actors, End(a), GoodSection(store'),
           Stored(store') \subseteq Stored(store) \union {cmd[a].minted}
    PROVE  IInv'
<1>1. \A y \in Actors \ {a} : cmd[y].minted # None => cmd[y].minted \notin Stored(store')
  BY DEF IInv, MintsApart
<1> QED BY <1>1, NoCmdTyped, MoveStep DEF End, Pcs

LEMMA UseStep ==
    ASSUME IInv, NEW a \in Actors, NEW n \in Names, NEW as \in AliasArgs, Use(a, n, as)
    PROVE  IInv'
<1> DEFINE label == ResolveName(store, n)
           s == WithAliases(store, label, as)
<1>1. label \in Names /\ store.profiles[label] # None
  BY ResolveNameStored DEF IInv, Use
<1>2. GoodSection(s) /\ s.profiles = store.profiles
  BY <1>1, WithAliasesGood DEF IInv, Use, AliasArgs
<1>3. store' = [s EXCEPT !.default = label]
  BY DEF Use
<1>4. GoodSection(store') /\ Stored(store') = Stored(store)
  <2> HIDE DEF s, label
  <2> QED BY <1>1, <1>2, <1>3
          DEF GoodSection, Sections, WellFormed, KeywordFree, OneLabelEach, Stored
<1> QED BY <1>4, QuietStep DEF IInv, MintsApart, Use

LEMMA ClearDefaultStep ==
    ASSUME IInv, NEW a \in Actors, ClearDefault(a)
    PROVE  IInv'
<1>1. GoodSection(store') /\ Stored(store') = Stored(store)
  <2> PICK n \in Names : TRUE
    BY CommandsAssumption
  <2> QED BY WithoutAliasGood DEF IInv, ClearDefault
<1> QED BY <1>1, QuietStep DEF IInv, MintsApart, ClearDefault

LEMMA RenameStep ==
    ASSUME IInv, NEW a \in Actors, NEW n \in Names, NEW to \in Names, Rename(a, n, to)
    PROVE  IInv'
<1>1. GoodSection(store') /\ Stored(store') \subseteq Stored(store)
  BY ResolveNameStored, RenamedGood DEF IInv, Rename
<1> QED BY <1>1, QuietStep DEF IInv, MintsApart, Rename

\* The steps of rm that mutate without asking.
LEMMA RmAtOnceStep ==
    ASSUME IInv, NEW a \in Actors, NEW n \in Names, RmAlias(a, n) \/ RmForced(a, n)
    PROVE  IInv'
<1>1. GoodSection(store') /\ Stored(store') \subseteq Stored(store)
  <2>1. CASE RmAlias(a, n)
    BY <2>1, WithoutAliasGood DEF IInv, RmAlias, RemoveAlias
  <2>2. CASE RmForced(a, n)
    BY <2>2, WithoutProfileGood DEF IInv, RmForced
  <2> QED BY <2>1, <2>2
<1> QED BY <1>1, QuietStep DEF IInv, MintsApart, RmAlias, RmForced

\* The steps of rm that only move its dialog.
LEMMA RmPromptStep ==
    ASSUME IInv, NEW a \in Actors,
           (\E n \in Names : RmAsk(a, n)) \/ RmAnswer(a)
    PROVE  IInv'
<1>1. CASE \E n \in Names : RmAsk(a, n)
  <2> PICK n \in Names : RmAsk(a, n)
    BY <1>1
  <2> DEFINE c == [NoCmd EXCEPT !.name = n, !.left = FirstAttempts,
                                !.seen = store.profiles[n]]
  <2>1. c \in Cmds /\ c.minted = None /\ c.name = n
    <3>1. FirstAttempts \in 0..RmAttempts
      BY CommandsAssumption DEF FirstAttempts
    <3> QED BY <3>1, CommandsAssumption DEF IInv, GoodSection, Sections, NoCmd, Cmds
  <2>2. Goto(a, "rmPrompt", c) /\ UNCHANGED store
    BY DEF RmAsk
  <2> QED
    <3> HIDE DEF c
    <3> QED BY <2>1, <2>2, MoveStep DEF IInv, MintsApart, Pcs, GoodSection
<1>2. CASE RmAnswer(a)
  <2>1. CASE End(a)
    BY <1>2, <2>1, EndStep DEF IInv, RmAnswer
  <2>2. CASE Goto(a, "rmConfirmed", cmd[a])
    BY <1>2, <2>2, MoveStep
    DEF IInv, TypeOK, MintsApart, CmdsBound, Pcs, RmAnswer
  <2> QED BY <1>2, <2>1, <2>2 DEF RmAnswer
<1> QED BY <1>1, <1>2

\* The locked mutation rm makes once the user has confirmed.
LEMMA RmConfirmedStep ==
    ASSUME IInv, NEW a \in Actors, RmConfirmed(a)
    PROVE  IInv'
<1> DEFINE n == cmd[a].name
<1>0. n \in Names /\ cmd[a] \in Cmds
  BY DEF IInv, TypeOK, CmdsBound, RmConfirmed
<1>1. CASE RmRemove(a)
  <2>1. GoodSection(store') /\ Stored(store') \subseteq Stored(store)
    BY <1>0, <1>1, WithoutProfileGood DEF IInv, RmRemove
  <2> QED BY <1>1, <2>1, EndStep DEF RmRemove
<1>2. CASE RmStale(a)
  <2> DEFINE c == [cmd[a] EXCEPT !.seen = store.profiles[n], !.left = NextAttempts(a)]
  <2>1. CASE NextAttempts(a) > 0
    <3>0. NextAttempts(a) \in 0..RmAttempts
      BY <1>0, <2>1, CommandsAssumption DEF Cmds, NextAttempts
    <3>1. c \in Cmds /\ c.minted = cmd[a].minted /\ c.name = n
      BY <1>0, <3>0 DEF IInv, GoodSection, Sections, Cmds
    <3>2. Goto(a, "rmPrompt", c) /\ UNCHANGED store
      BY <1>2, <2>1 DEF RmStale
    <3> HIDE DEF c
    <3> QED BY <1>0, <3>1, <3>2, MoveStep DEF IInv, MintsApart, Pcs, GoodSection
  <2>2. CASE ~ (NextAttempts(a) > 0)
    BY <1>2, <2>2, EndStep DEF IInv, RmStale
  <2> QED BY <2>1, <2>2
<1>3. CASE RmRaced(a)
  <2>1. GoodSection(store') /\ Stored(store') \subseteq Stored(store)
    <3>1. CASE RemoveAlias(n)
      BY <1>0, <3>1, WithoutAliasGood DEF IInv, RemoveAlias
    <3>2. CASE UNCHANGED store
      BY <3>2 DEF IInv, GoodSection, Stored
    <3> QED BY <1>3, <3>1, <3>2 DEF RmRaced
  <2> QED BY <1>3, <2>1, EndStep DEF RmRaced
<1> QED BY <1>1, <1>2, <1>3 DEF RmConfirmed

\* The steps of login up to its locked store.
LEMMA LoginDialogStep ==
    ASSUME IInv, NEW a \in Actors,
           \/ \E n \in Names, as \in AliasArgs : LoginBegin(a, n, as)
           \/ LoginAnswer(a)
           \/ LoginMint(a)
    PROVE  IInv'
<1>1. CASE \E n \in Names, as \in AliasArgs : LoginBegin(a, n, as)
  <2> PICK n \in Names, as \in AliasArgs : LoginBegin(a, n, as)
    BY <1>1
  <2> DEFINE c == [NoCmd EXCEPT !.name = n, !.aliases = as, !.seen = store.profiles[n]]
             w == IF store.profiles[n] # None THEN "overwritePrompt" ELSE "oauth"
  <2>1. c \in Cmds /\ c.minted = None /\ c.name = n
    <3>1. as \in SUBSET Names
      BY DEF AliasArgs
    <3>2. 0 \in 0..RmAttempts
      BY CommandsAssumption
    <3> QED BY <3>1, <3>2, CommandsAssumption DEF IInv, GoodSection, Sections, NoCmd, Cmds
  <2>2. w \in Pcs /\ w # "minted"
    BY DEF Pcs
  <2>3. Goto(a, w, c) /\ UNCHANGED store
    BY DEF LoginBegin
  <2> HIDE DEF c, w
  <2> QED BY <2>1, <2>2, <2>3, MoveStep DEF IInv, MintsApart, GoodSection
<1>2. CASE LoginAnswer(a)
  <2> DEFINE c == [cmd[a] EXCEPT !.confirmed = TRUE]
  <2>1. c \in Cmds /\ c.minted = cmd[a].minted /\ c.name \in Names
    BY <1>2 DEF IInv, TypeOK, CmdsBound, LoginAnswer, Cmds
  <2>2. CASE End(a)
    BY <1>2, <2>2, EndStep DEF IInv, LoginAnswer
  <2>3. CASE Goto(a, "oauth", c) /\ UNCHANGED store
    <3> HIDE DEF c
    <3> QED BY <2>1, <2>3, MoveStep DEF IInv, MintsApart, Pcs, GoodSection
  <2> QED BY <1>2, <2>2, <2>3 DEF LoginAnswer
<1>3. CASE LoginMint(a)
  <2>1. CASE End(a)
    BY <1>3, <2>1, EndStep DEF IInv, LoginMint
  <2>2. CASE \E t \in Tokens \ InUse : Goto(a, "minted", [cmd[a] EXCEPT !.minted = t])
    <3> PICK t \in Tokens \ InUse : Goto(a, "minted", [cmd[a] EXCEPT !.minted = t])
      BY <2>2
    <3> DEFINE c == [cmd[a] EXCEPT !.minted = t]
    <3>1. c \in Cmds /\ c.minted = t /\ c.name \in Names /\ t # None
      BY <1>3, CommandsAssumption DEF IInv, TypeOK, CmdsBound, LoginMint, Cmds
    <3>2. t \notin Stored(store) /\ \A y \in Actors : cmd[y].minted # t
      BY DEF InUse
    <3>3. Goto(a, "minted", c) /\ UNCHANGED store
      BY <1>3 DEF LoginMint
    <3> HIDE DEF c
    <3> QED BY <3>1, <3>2, <3>3, MoveStep DEF IInv, MintsApart, Pcs, GoodSection
  <2> QED BY <1>3, <2>1, <2>2 DEF LoginMint
<1> QED BY <1>1, <1>2, <1>3

\* The locked store of a login.
LEMMA LoginStoreStep ==
    ASSUME IInv, NEW a \in Actors, LoginStore(a)
    PROVE  IInv'
<1> DEFINE c == cmd[a]
           s == [store EXCEPT !.profiles[c.name] = c.minted]
<1>0. /\ c \in Cmds /\ c.name \in Names /\ c.minted \in Tokens
      /\ c.minted \notin Stored(store)
  BY DEF IInv, TypeOK, CmdsBound, MintsApart, LoginStore, Cmds
<1>1. CASE Loginable(a)
  <2>1. GoodSection(s) /\ Stored(s) \subseteq Stored(store) \union {c.minted}
    BY <1>0, <1>1, WithGrantGood DEF IInv, Loginable
  <2>2. s.profiles[c.name] # None /\ AliasesAssignable(s, c.name, c.aliases)
    BY <1>0, <1>1, CommandsAssumption
    DEF IInv, GoodSection, Sections, Loginable, AliasesAssignable
  <2>3. c.aliases \in SUBSET Names /\ ValidAliasNames(c.aliases)
    BY <1>0, <1>1 DEF Loginable, Cmds
  <2>4. store' = WithAliases(s, c.name, c.aliases)
    <3>1. store' = [WithAliases(store, c.name, c.aliases) EXCEPT !.profiles[c.name] = c.minted]
      BY <1>1 DEF LoginStore
    <3>2. store \in Sections
      BY DEF IInv, GoodSection
    <3> HIDE DEF c
    <3> QED BY <3>1, <3>2 DEF WithAliases, Sections
  <2>5. GoodSection(store') /\ store'.profiles = s.profiles
    <3> HIDE DEF s, c
    <3> QED BY <1>0, <2>1, <2>2, <2>3, <2>4, WithAliasesGood
  <2>6. Stored(store') \subseteq Stored(store) \union {c.minted}
    BY <2>1, <2>5 DEF Stored
  <2> QED BY <2>5, <2>6, EndStep DEF LoginStore
<1>2. CASE ~ Loginable(a)
  BY <1>2, EndStep DEF LoginStore, IInv
<1> QED BY <1>1, <1>2

\* A refresh that stores a rotated grant.
LEMMA RotateStep ==
    ASSUME IInv, NEW n \in Names, Rotate(n)
    PROVE  IInv'
<1> PICK t \in Tokens \ InUse : store' = [store EXCEPT !.profiles[n] = t]
  BY DEF Rotate
<1>1. /\ t \notin Stored(store)
      /\ \A x \in Actors : cmd[x].minted # t
  BY DEF InUse
<1>2. n \in ValidLabels \ {DefaultKeyword} /\ store.aliases[n] = None
  BY DEF IInv, GoodSection, WellFormed, KeywordFree, Rotate
<1>3. GoodSection(store') /\ Stored(store') \subseteq Stored(store) \union {t}
  BY <1>1, <1>2, WithGrantGood DEF IInv
<1> QED BY <1>1, <1>3, QuietStep DEF IInv, MintsApart, Rotate

-----------------------------------------------------------------------------
(* Which grants a step can drop.                                           *)

LEMMA UseDropsNothing ==
    ASSUME IInv, NEW a \in Actors, NEW n \in Names, NEW as \in AliasArgs, Use(a, n, as)
    PROVE  Stored(store) \subseteq Stored(store')
BY DEF IInv, GoodSection, Sections, Use, WithAliases, Stored

LEMMA RenameDropsNothing ==
    ASSUME IInv, NEW a \in Actors, NEW n \in Names, NEW to \in Names, Rename(a, n, to)
    PROVE  Stored(store) \subseteq Stored(store')
<1> DEFINE from == ResolveName(store, n)
<1>1. from \in Names /\ store.profiles[from] # None
  BY ResolveNameStored DEF IInv, Rename
<1>2. store' = Renamed(store, from, to) /\ store.profiles[to] = None
  BY DEF Rename
<1>3. store \in Sections
  BY DEF IInv, GoodSection
<1> HIDE DEF from
<1>4. /\ store'.profiles[to] = store.profiles[from]
      /\ \A m \in Names \ {from, to} : store'.profiles[m] = store.profiles[m]
  BY <1>1, <1>2, <1>3 DEF Renamed, Sections
<1> QED BY <1>1, <1>2, <1>4 DEF Stored

\* Replacing or clearing one profile drops at most the grant it held.
LEMMA DropsOne ==
    ASSUME NEW s \in Sections, NEW r \in Sections, NEW label \in Names,
           \A m \in Names \ {label} : r.profiles[m] = s.profiles[m],
           NEW t \in Stored(s) \ Stored(r)
    PROVE  s.profiles[label] = t
BY DEF Stored

LEMMA ConsentStep == IInv /\ IInv' /\ [Next]_vars
                       => \A t \in Stored(store) \ Stored(store') : Consented(t)
<1> SUFFICES ASSUME IInv, IInv', [Next]_vars, NEW t \in Stored(store) \ Stored(store')
             PROVE  Consented(t)
  OBVIOUS
<1>0. store \in Sections /\ store' \in Sections
  BY DEF IInv, GoodSection
<1>1. CASE UNCHANGED vars
  BY <1>1 DEF vars, Stored
<1>2. ASSUME NEW n \in Names, Rotate(n) PROVE Consented(t)
  <2>1. \A m \in Names \ {n} : store'.profiles[m] = store.profiles[m]
    BY <1>0, <1>2 DEF Rotate, Sections
  <2> QED BY <1>0, <1>2, <2>1, DropsOne DEF Consented
<1>3. ASSUME NEW a \in Actors, ClearDefault(a) PROVE Consented(t)
  BY <1>3 DEF ClearDefault, Stored
<1>4. ASSUME NEW a \in Actors, Continue(a) PROVE Consented(t)
  <2>1. CASE RmAnswer(a) \/ LoginAnswer(a) \/ LoginMint(a)
    BY <2>1 DEF RmAnswer, LoginAnswer, LoginMint, Stored
  <2>2. CASE RmConfirmed(a)
    <3>1. cmd[a].name \in Names
      BY <2>2 DEF IInv, CmdsBound, RmConfirmed
    <3>2. CASE RmRemove(a)
      <4>1. pc'[a] = "idle" /\ store.profiles[cmd[a].name] = cmd[a].seen
        BY <3>2 DEF RmRemove, End, Goto, Expected, IInv, TypeOK
      <4>2. \A m \in Names \ {cmd[a].name} : store'.profiles[m] = store.profiles[m]
        BY <1>0, <3>1, <3>2 DEF RmRemove, WithoutProfile, Sections
      <4> QED BY <1>0, <2>2, <3>1, <4>1, <4>2, DropsOne DEF RmConfirmed, Consented
    <3>3. CASE RmStale(a)
      BY <3>3 DEF RmStale, Stored
    <3>4. CASE RmRaced(a)
      BY <1>0, <3>4 DEF RmRaced, RemoveAlias, Stored, Sections
    <3> QED BY <2>2, <3>2, <3>3, <3>4 DEF RmConfirmed
  <2>3. CASE LoginStore(a)
    <3>1. pc[a] = "minted" /\ pc'[a] = "idle" /\ cmd[a].name \in Names
      BY <2>3 DEF LoginStore, End, Goto, IInv, TypeOK, CmdsBound
    <3>2. CASE Loginable(a)
      <4>1. \A m \in Names \ {cmd[a].name} : store'.profiles[m] = store.profiles[m]
        BY <1>0, <2>3, <3>1, <3>2 DEF LoginStore, WithAliases, Sections
      <4>2. store.profiles[cmd[a].name] = t
        BY <1>0, <3>1, <4>1, DropsOne
      <4>3. cmd[a].confirmed
        BY <3>2, <4>2 DEF Loginable, Stored
      <4> QED BY <3>1, <4>2, <4>3 DEF Consented
    <3>3. CASE ~ Loginable(a)
      BY <2>3, <3>3 DEF LoginStore, Stored
    <3> QED BY <3>2, <3>3
  <2> QED BY <1>4, <2>1, <2>2, <2>3 DEF Continue
<1>5. ASSUME NEW a \in Actors, NEW n \in Names, RmAlias(a, n) \/ RmForced(a, n) \/ RmAsk(a, n)
      PROVE  Consented(t)
  <2>1. CASE RmForced(a, n)
    <3>1. \A m \in Names \ {n} : store'.profiles[m] = store.profiles[m]
      BY <1>0, <2>1 DEF RmForced, WithoutProfile, Sections
    <3> QED BY <1>0, <2>1, <3>1, DropsOne DEF Consented
  <2>2. CASE RmAlias(a, n) \/ RmAsk(a, n)
    BY <1>0, <2>2 DEF RmAlias, RemoveAlias, RmAsk, Stored, Sections
  <2> QED BY <1>5, <2>1, <2>2
<1>6. ASSUME NEW a \in Actors, NEW n \in Names, NEW to \in Names, Rename(a, n, to)
      PROVE  Consented(t)
  BY <1>6, RenameDropsNothing
<1>7. ASSUME NEW a \in Actors, NEW n \in Names, NEW as \in AliasArgs,
             Use(a, n, as) \/ LoginBegin(a, n, as)
      PROVE  Consented(t)
  BY <1>7, UseDropsNothing DEF LoginBegin, Stored
<1> QED BY <1>1, <1>2, <1>3, <1>4, <1>5, <1>6, <1>7 DEF Next

-----------------------------------------------------------------------------
(* Which account a name reaches.                                           *)

\* Between s and r a name moves to another account only where its own label got
\* a new grant, and the default moves only with the grant it stood for.
NameKept(s, r, n) ==
    LET before == Reaches(s, n)
        after  == Reaches(r, n)
    IN  None \notin {before, after} /\ before # after
        => /\ before \notin Stored(r)
           /\ after \notin Stored(s)
           /\ ResolveName(s, n) = ResolveName(r, n)

DefaultKept(s, r) ==
    None \notin {s.default, r.default} /\ s.default # r.default
    => s.profiles[s.default] = r.profiles[r.default]

\* New aliases were free names, or aliases of the same label.
LEMMA WithAliasesKeeps ==
    ASSUME NEW s, GoodSection(s), NEW label \in Names, NEW d \in Names \union {None},
           NEW as \in SUBSET Names, AliasesAssignable(s, label, as), NEW n \in Names
    PROVE  NameKept(s, [WithAliases(s, label, as) EXCEPT !.default = d], n)
BY CommandsAssumption
DEF GoodSection, Sections, WellFormed, WithAliases, AliasesAssignable,
    NameKept, Reaches, ResolveName

\* What is left of a section without one of its profiles.
LEMMA WithoutProfileKeeps ==
    ASSUME NEW s, GoodSection(s), NEW label \in Names, NEW n \in Names
    PROVE  /\ NameKept(s, WithoutProfile(s, label), n)
           /\ DefaultKept(s, WithoutProfile(s, label))
BY CommandsAssumption
DEF GoodSection, Sections, WellFormed, WithoutProfile, NameKept, DefaultKept, Reaches, ResolveName

\* A rename carries the aliases and the default along; the old name reaches
\* nothing any more.
LEMMA RenamedKeeps ==
    ASSUME NEW s, GoodSection(s), NEW from \in Names, s.profiles[from] # None,
           NEW to \in Names, s.profiles[to] = None, s.aliases[to] = None, NEW n \in Names
    PROVE  /\ NameKept(s, Renamed(s, from, to), n)
           /\ DefaultKept(s, Renamed(s, from, to))
BY CommandsAssumption
DEF GoodSection, Sections, WellFormed, Renamed, NameKept, DefaultKept, Reaches, ResolveName

\* An alias that is dropped leaves its name without a meaning.
LEMMA WithoutAliasKeeps ==
    ASSUME NEW s, GoodSection(s), NEW x \in Names, NEW n \in Names
    PROVE  /\ NameKept(s, [s EXCEPT !.aliases[x] = None], n)
           /\ DefaultKept(s, [s EXCEPT !.aliases[x] = None])
           /\ NameKept(s, [s EXCEPT !.default = None], n)
           /\ DefaultKept(s, [s EXCEPT !.default = None])
BY CommandsAssumption
DEF GoodSection, Sections, WellFormed, NameKept, DefaultKept, Reaches, ResolveName

\* A fresh grant under a label changes what the label and its aliases reach, and
\* the grant they reached is gone.
LEMMA WithGrantKeeps ==
    ASSUME NEW s, GoodSection(s), NEW label \in Names, s.aliases[label] = None,
           NEW t \in Tokens, t \notin Stored(s),
           NEW as \in SUBSET Names, AliasesAssignable(s, label, as),
           NEW r \in Sections, r.profiles = [s.profiles EXCEPT ![label] = t],
           r.aliases = [m \in Names |-> IF m \in as THEN label ELSE s.aliases[m]],
           NEW n \in Names
    PROVE  NameKept(s, r, n)
<1> DEFINE l == ResolveName(s, n)
<1>0. s \in Sections /\ t # None
  BY CommandsAssumption DEF GoodSection
<1>1. CASE l # label /\ n \notin as
  <2>1. n # label \/ s.profiles[label] = None
    BY <1>1 DEF ResolveName
  <2>2. Reaches(s, n) = None \/ Reaches(r, n) = Reaches(s, n)
    BY <1>0, <1>1, CommandsAssumption DEF Reaches, ResolveName, Sections
  <2> QED BY <2>2 DEF NameKept
<1>2. CASE l = label \/ n \in as
  <2>1. ResolveName(r, n) = label
    BY <1>0, <1>2, CommandsAssumption
    DEF ResolveName, AliasesAssignable, Sections, GoodSection, WellFormed
  <2>2. Reaches(r, n) = t
    BY <1>0, <2>1, CommandsAssumption DEF Reaches, Sections
  <2>3. Reaches(s, n) # None => l = label /\ s.profiles[label] # None
    BY <1>0, <1>2, CommandsAssumption DEF Reaches, ResolveName, AliasesAssignable, Sections
  <2>4. s.profiles[label] # None => s.profiles[label] \notin Stored(r)
    BY <1>0 DEF Stored, GoodSection, OneLabelEach, Sections
  <2>5. Reaches(s, n) # None => Reaches(s, n) = s.profiles[label]
    BY <2>3, CommandsAssumption DEF Reaches
  <2> QED BY <2>1, <2>2, <2>3, <2>4, <2>5 DEF NameKept
<1> QED BY <1>1, <1>2

\* What the step of an action does to the names and to the default.
StepKeeps == (\A n \in Names : NameKept(store, store', n)) /\ DefaultKept(store, store')

LEMMA UnchangedKeeps == UNCHANGED store => StepKeeps
BY DEF StepKeeps, NameKept, DefaultKept

LEMMA RotateKeeps ==
    ASSUME IInv, NEW l \in Names, Rotate(l)
    PROVE  StepKeeps
<1>1. PICK t \in Tokens \ InUse : store' = [store EXCEPT !.profiles[l] = t]
  BY DEF Rotate
<1>2. store \in Sections /\ store.aliases[l] = None /\ t \notin Stored(store)
  BY DEF IInv, GoodSection, WellFormed, Rotate, InUse
<1>3. AliasesAssignable(store, l, {}) /\ store' \in Sections
  BY <1>1, <1>2 DEF AliasesAssignable, Sections
<1>4. store'.profiles = [store.profiles EXCEPT ![l] = t] /\ store'.default = store.default
  BY <1>1, <1>2 DEF Sections
<1>5. store'.aliases = [m \in Names |-> IF m \in {} THEN l ELSE store.aliases[m]]
  BY <1>1, <1>2 DEF Sections
<1>6. \A n \in Names : NameKept(store, store', n)
  BY <1>2, <1>3, <1>4, <1>5, WithGrantKeeps DEF IInv
<1> QED BY <1>4, <1>6 DEF StepKeeps, DefaultKept

LEMMA LoginStoreKeeps ==
    ASSUME IInv, NEW a \in Actors, LoginStore(a)
    PROVE  StepKeeps
<1> DEFINE c == cmd[a]
<1>1. CASE Loginable(a)
  <2>1. /\ c \in Cmds /\ c.name \in Names /\ c.minted \in Tokens
        /\ c.minted \notin Stored(store) /\ c.aliases \in SUBSET Names
    BY DEF IInv, TypeOK, CmdsBound, MintsApart, LoginStore, Cmds
  <2>2. /\ store \in Sections /\ store.aliases[c.name] = None
        /\ AliasesAssignable(store, c.name, c.aliases)
    BY <1>1 DEF IInv, GoodSection, Loginable
  <2>3. store' = [WithAliases(store, c.name, c.aliases) EXCEPT !.profiles[c.name] = c.minted]
    BY <1>1 DEF LoginStore
  <2> HIDE DEF c
  <2>4. /\ store' \in Sections /\ store'.default = store.default
        /\ store'.profiles = [store.profiles EXCEPT ![c.name] = c.minted]
        /\ store'.aliases = [m \in Names |-> IF m \in c.aliases THEN c.name ELSE store.aliases[m]]
    BY <2>1, <2>2, <2>3 DEF WithAliases, Sections
  <2>5. \A n \in Names : NameKept(store, store', n)
    BY <2>1, <2>2, <2>4, WithGrantKeeps DEF IInv
  <2> QED BY <2>4, <2>5 DEF StepKeeps, DefaultKept
<1>2. CASE ~ Loginable(a)
  BY <1>2, UnchangedKeeps DEF LoginStore
<1> QED BY <1>1, <1>2

LEMMA RmConfirmedKeeps ==
    ASSUME IInv, NEW a \in Actors, RmConfirmed(a)
    PROVE  StepKeeps
<1>1. cmd[a].name \in Names /\ GoodSection(store)
  BY DEF IInv, CmdsBound, RmConfirmed
<1>2. CASE RmRemove(a)
  BY <1>1, <1>2, WithoutProfileKeeps DEF RmRemove, StepKeeps
<1>3. CASE RmStale(a)
  BY <1>3, UnchangedKeeps DEF RmStale
<1>4. CASE RmRaced(a)
  <2>1. CASE RemoveAlias(cmd[a].name)
    BY <1>1, <2>1, WithoutAliasKeeps DEF RemoveAlias, StepKeeps
  <2>2. CASE UNCHANGED store
    BY <2>2, UnchangedKeeps
  <2> QED BY <1>4, <2>1, <2>2 DEF RmRaced
<1> QED BY <1>2, <1>3, <1>4 DEF RmConfirmed

LEMMA UseKeepsNames ==
    ASSUME IInv, NEW a \in Actors, NEW x \in Names, NEW as \in AliasArgs, Use(a, x, as)
    PROVE  \A n \in Names : NameKept(store, store', n)
<1>1. ResolveName(store, x) \in Names /\ GoodSection(store)
  BY ResolveNameStored DEF IInv, Use
<1>2. as \in SUBSET Names
  BY DEF AliasArgs
<1> QED BY <1>1, <1>2, WithAliasesKeeps DEF Use

\* Every step keeps the names; every step but `use` keeps the default.
LEMMA NextKeeps ==
    ASSUME IInv, [Next]_vars
    PROVE  /\ \A n \in Names : NameKept(store, store', n)
           /\ \/ \E a \in Actors, n \in Names, as \in AliasArgs : Use(a, n, as)
              \/ DefaultKept(store, store')
<1>0. SUFFICES ASSUME \A a \in Actors, n \in Names, as \in AliasArgs : ~ Use(a, n, as)
               PROVE  StepKeeps
  BY UseKeepsNames DEF StepKeeps
<1>1. CASE UNCHANGED vars
  BY <1>1, UnchangedKeeps DEF vars
<1>2. ASSUME NEW l \in Names, Rotate(l) PROVE StepKeeps
  BY <1>2, RotateKeeps
<1>3. ASSUME NEW a \in Actors, ClearDefault(a) PROVE StepKeeps
  <2>1. GoodSection(store) /\ store' = [store EXCEPT !.default = None]
    BY <1>3 DEF IInv, ClearDefault
  <2>2. \A n \in Names : NameKept(store, store', n)
    BY <2>1, WithoutAliasKeeps
  <2>3. store'.default = None
    BY <2>1 DEF GoodSection, Sections
  <2> QED BY <2>2, <2>3 DEF StepKeeps, DefaultKept
<1>4. ASSUME NEW a \in Actors, Continue(a) PROVE StepKeeps
  BY <1>4, RmConfirmedKeeps, LoginStoreKeeps, UnchangedKeeps
  DEF Continue, RmAnswer, LoginAnswer, LoginMint
<1>5. ASSUME NEW a \in Actors, NEW l \in Names, RmAlias(a, l) \/ RmForced(a, l) \/ RmAsk(a, l)
      PROVE  StepKeeps
  <2>1. CASE RmAlias(a, l)
    BY <2>1, WithoutAliasKeeps DEF IInv, RmAlias, RemoveAlias, StepKeeps
  <2>2. CASE RmForced(a, l)
    BY <2>2, WithoutProfileKeeps DEF IInv, RmForced, StepKeeps
  <2>3. CASE RmAsk(a, l)
    BY <2>3, UnchangedKeeps DEF RmAsk
  <2> QED BY <1>5, <2>1, <2>2, <2>3
<1>6. ASSUME NEW a \in Actors, NEW x \in Names, NEW to \in Names, Rename(a, x, to)
      PROVE  StepKeeps
  BY <1>6, ResolveNameStored, RenamedKeeps DEF IInv, Rename, StepKeeps
<1>7. ASSUME NEW a \in Actors, NEW l \in Names, NEW as \in AliasArgs, LoginBegin(a, l, as)
      PROVE  StepKeeps
  BY <1>7, UnchangedKeeps DEF LoginBegin
<1> QED BY <1>0, <1>1, <1>2, <1>3, <1>4, <1>5, <1>6, <1>7 DEF Next

-----------------------------------------------------------------------------
(* The theorems.                                                           *)

LEMMA InitIInv == Init => IInv
<1> SUFFICES ASSUME Init PROVE IInv
  OBVIOUS
<1>1. GoodSection(store)
  BY EmptySectionGood DEF Init
<1> QED BY <1>1, NoCmdTyped
        DEF Init, IInv, TypeOK, GoodSection, CmdsBound, MintsApart, Pcs

LEMMA StepIInv == IInv /\ [Next]_vars => IInv'
<1> SUFFICES ASSUME IInv, [Next]_vars PROVE IInv'
  OBVIOUS
<1>1. CASE UNCHANGED vars
  BY <1>1, QuietStep DEF vars, IInv, MintsApart
<1>2. ASSUME NEW n \in Names, Rotate(n) PROVE IInv'
  BY <1>2, RotateStep
<1>3. ASSUME NEW a \in Actors, ClearDefault(a) PROVE IInv'
  BY <1>3, ClearDefaultStep
<1>4. ASSUME NEW a \in Actors, Continue(a) PROVE IInv'
  BY <1>4, RmPromptStep, RmConfirmedStep, LoginDialogStep, LoginStoreStep DEF Continue
<1>5. ASSUME NEW a \in Actors, NEW n \in Names, RmAlias(a, n) \/ RmForced(a, n) \/ RmAsk(a, n)
      PROVE  IInv'
  BY <1>5, RmAtOnceStep, RmPromptStep
<1>6. ASSUME NEW a \in Actors, NEW n \in Names, NEW to \in Names, Rename(a, n, to) PROVE IInv'
  BY <1>6, RenameStep
<1>7. ASSUME NEW a \in Actors, NEW n \in Names, NEW as \in AliasArgs,
             Use(a, n, as) \/ LoginBegin(a, n, as)
      PROVE  IInv'
  BY <1>7, UseStep, LoginDialogStep
<1> QED BY <1>1, <1>2, <1>3, <1>4, <1>5, <1>6, <1>7 DEF Next

THEOREM Invariance == Spec => []IInv
BY InitIInv, StepIInv, PTL DEF Spec

\* Every reachable state is typed: what the handlers store and remember has
\* the shape the code declares.
THEOREM TypeCorrect == Spec => []TypeOK
BY Invariance, PTL DEF IInv

\* The seat.json the commands write is always one that parseStore accepts,
\* whatever dialogs interleave.
THEOREM StoreAlwaysParses == Spec => []StoreParses
<1>1. IInv => StoreParses
  BY DEF IInv, GoodSection, StoreParses
<1> QED BY <1>1, Invariance, PTL

\* No command ever creates a label or alias named "default".
THEOREM KeywordAlwaysReserved == Spec => []KeywordStaysReserved
<1>1. IInv => KeywordStaysReserved
  BY DEF IInv, GoodSection, KeywordStaysReserved
<1> QED BY <1>1, Invariance, PTL

\* No interleaving of dialogs makes the store drop a grant its owner did not
\* agree to lose.
THEOREM ConsentAlways == Spec => GrantLeavesByConsent
<1>1. IInv /\ IInv' /\ [Next]_vars
        => [\A t \in Stored(store) \ Stored(store') : Consented(t)]_vars
  BY ConsentStep
<1> QED BY <1>1, Invariance, PTL DEF Spec, GrantLeavesByConsent

\* No two labels, and no login in flight, ever share a grant.
THEOREM GrantsNeverShared == Spec => []EachGrantOnce
<1>1. IInv => EachGrantOnce
  BY DEF IInv, GoodSection, MintsApart, EachGrantOnce
<1> QED BY <1>1, Invariance, PTL

\* No command lets a name slide from one account to another: where a name reaches
\* another grant, its own label was refreshed or overwritten.
THEOREM NamesAlwaysKeepTheirGrant == Spec => NamesKeepTheirGrant
<1>1. IInv /\ [Next]_vars
        => [\A n \in Names :
              LET before == Reaches(store, n)
                  after  == Reaches(store', n)
              IN  None \notin {before, after} /\ before # after
                  => /\ before \notin Stored(store')
                     /\ after \notin Stored(store)
                     /\ ResolveName(store, n) = ResolveName(store', n)]_vars
  BY NextKeeps DEF NameKept
<1> QED BY <1>1, Invariance, PTL DEF Spec, NamesKeepTheirGrant

\* The default changes account by `use` alone.
THEOREM DefaultAlwaysFollows == Spec => DefaultFollowsItsGrant
<1>1. IInv /\ [Next]_vars
        => [LET d == store.default  e == store'.default IN
            None \notin {d, e} /\ d # e
            => \/ \E a \in Actors, n \in Names, as \in AliasArgs : Use(a, n, as)
               \/ store.profiles[d] = store'.profiles[e]]_vars
  BY NextKeeps DEF DefaultKept
<1> QED BY <1>1, Invariance, PTL DEF Spec, DefaultFollowsItsGrant

=============================================================================
