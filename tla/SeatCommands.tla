---------------------------- MODULE SeatCommands ----------------------------
(***************************************************************************)
(* The mutating commands of seat (use, login, rm, rename) over the section *)
(* of one provider in seat.json, run by any number of concurrent actors:   *)
(* pi sessions and CLI processes.  Every locked read-mutate-commit cycle   *)
(* (runMutation) is one atomic step; StoreLock models the lock that makes  *)
(* it so.  What is interleaved here is everything a command does OUTSIDE   *)
(* the lock: the prompts it waits on, the OAuth login it runs, and the     *)
(* re-check it makes when it comes back.                                   *)
(*                                                                         *)
(* A command that throws changes nothing, so it is a stuttering step, or,  *)
(* when it was half way through a dialog, a step that only ends it.        *)
(***************************************************************************)
EXTENDS FiniteSets, Naturals

CONSTANTS
    Names,           \* what can be typed as a label or alias
    ValidLabels,     \* those isValidLabel accepts
    DefaultKeyword,  \* the reserved name "default"
    Tokens,          \* refresh tokens; a token stands for its whole credential
    Actors,          \* pi sessions and CLI processes
    Clis,            \* the actors that are CLI processes
    RmAttempts,      \* confirmations one rm asks for (5 in the code)
    MaxAliases,      \* bound: aliases one command line attaches
    None             \* JavaScript's undefined

ASSUME CommandsAssumption ==
    /\ ValidLabels \subseteq Names
    /\ DefaultKeyword \in ValidLabels
    /\ Clis \subseteq Actors
    /\ RmAttempts \in Nat \ {0}
    /\ MaxAliases \in Nat
    /\ None \notin Names \union Tokens

VARIABLES
    store,  \* the provider's ProviderSection as seat.json holds it
    pc,     \* where each actor's command stands
    cmd     \* the command's arguments and what it remembers across a wait

vars == <<store, pc, cmd>>

-----------------------------------------------------------------------------
(* The data: one provider section and the operators over it.  A definition *)
(* whose comment starts with "Bug:" is not part of the specification: it is *)
(* what the definition below it would be if the code had that bug, used to *)
(* confirm that a property notices it.                                     *)

Sections == [profiles : [Names -> Tokens \union {None}],
             aliases  : [Names -> Names \union {None}],
             default  : Names \union {None}]

EmptySection == [profiles |-> [n \in Names |-> None],
                 aliases  |-> [n \in Names |-> None],
                 default  |-> None]

Stored(s) == {s.profiles[n] : n \in Names} \ {None}

ResolveName(s, n) == IF s.profiles[n] # None THEN n ELSE s.aliases[n]

ValidAliasNames(as) == as \subseteq ValidLabels \ {DefaultKeyword}

\* Bug: an alias of another profile is taken over.
AliasesStealable(s, label, as) ==
    \A n \in as : n # label /\ s.profiles[n] = None

AliasesAssignable(s, label, as) ==
    \A n \in as : /\ n # label
                  /\ s.profiles[n] = None
                  /\ s.aliases[n] \in {None, label}

WithAliases(s, label, as) ==
    [s EXCEPT !.aliases = [n \in Names |-> IF n \in as THEN label ELSE @[n]]]

\* Bug: the aliases of the removed profile stay behind.
WithDanglingAliases(s, label) ==
    [s EXCEPT !.profiles[label] = None,
              !.default = IF @ = label THEN None ELSE @]

WithoutProfile(s, label) ==
    [profiles |-> [s.profiles EXCEPT ![label] = None],
     aliases  |-> [n \in Names |-> IF s.aliases[n] = label THEN None ELSE s.aliases[n]],
     default  |-> IF s.default = label THEN None ELSE s.default]

\* Bug: the old label keeps the grant.
RenamedByCopy(s, from, to) ==
    [profiles |-> [s.profiles EXCEPT ![to] = s.profiles[from]],
     aliases  |-> [n \in Names |-> IF s.aliases[n] = from THEN to ELSE s.aliases[n]],
     default  |-> IF s.default = from THEN to ELSE s.default]

\* Bug: the renamed profile becomes the default whatever the default was.
RenamedToDefault(s, from, to) ==
    [profiles |-> [s.profiles EXCEPT ![to] = s.profiles[from], ![from] = None],
     aliases  |-> [n \in Names |-> IF s.aliases[n] = from THEN to ELSE s.aliases[n]],
     default  |-> to]

Renamed(s, from, to) ==
    [profiles |-> [s.profiles EXCEPT ![to] = s.profiles[from], ![from] = None],
     aliases  |-> [n \in Names |-> IF s.aliases[n] = from THEN to ELSE s.aliases[n]],
     default  |-> IF s.default = from THEN to ELSE s.default]

-----------------------------------------------------------------------------
(* The commands in flight.                                                 *)

NoCmd == [name |-> None, aliases |-> {}, confirmed |-> FALSE,
          seen |-> None, left |-> 0, minted |-> None]

\* `seen` is the grant that was stored under `name` when the question was
\* asked.  rm carries it through the prompt (expectedRefresh); login does not,
\* its actions never read it and only the properties compare with it.
Cmds == [name : Names \union {None}, aliases : SUBSET Names, confirmed : BOOLEAN,
         seen : Tokens \union {None}, left : 0..RmAttempts,
         minted : Tokens \union {None}]

Pcs == {"idle", "rmPrompt", "rmConfirmed", "overwritePrompt", "oauth", "minted"}

TypeOK == /\ store \in Sections
          /\ pc \in [Actors -> Pcs]
          /\ cmd \in [Actors -> Cmds]

AliasArgs == {as \in SUBSET Names : Cardinality(as) <= MaxAliases}

\* A server never issues a token twice: a fresh one is nowhere in use.
InUse == Stored(store) \union {cmd[a].seen : a \in Actors}
                       \union {cmd[a].minted : a \in Actors}

Init == /\ store = EmptySection
        /\ pc = [a \in Actors |-> "idle"]
        /\ cmd = [a \in Actors |-> NoCmd]

Goto(a, where, c) == /\ pc' = [pc EXCEPT ![a] = where]
                     /\ cmd' = [cmd EXCEPT ![a] = c]

End(a) == Goto(a, "idle", NoCmd)

-----------------------------------------------------------------------------
(* use: one locked mutation.                                               *)

Use(a, n, as) ==
    LET label == ResolveName(store, n) IN
    /\ pc[a] = "idle"
    /\ n # DefaultKeyword
    /\ ValidAliasNames(as)
    /\ label # None
    /\ AliasesAssignable(store, label, as)
    /\ store' = [WithAliases(store, label, as) EXCEPT !.default = label]
    /\ UNCHANGED <<pc, cmd>>

ClearDefault(a) ==
    /\ pc[a] = "idle"
    /\ store' = [store EXCEPT !.default = None]
    /\ UNCHANGED <<pc, cmd>>

-----------------------------------------------------------------------------
(* rename: one locked mutation.                                            *)

Rename(a, n, to) ==
    LET from == ResolveName(store, n) IN
    /\ pc[a] = "idle"
    /\ to \in ValidLabels \ {DefaultKeyword}
    /\ from # None
    /\ store.profiles[to] = None
    /\ store.aliases[to] = None
    /\ store' = Renamed(store, from, to)
    /\ UNCHANGED <<pc, cmd>>

-----------------------------------------------------------------------------
(* rm: a locked probe, then prompt and locked removal in a bounded loop.   *)

RemoveAlias(n) == store' = [store EXCEPT !.aliases[n] = None]

RmAlias(a, n) ==
    /\ pc[a] = "idle"
    /\ store.aliases[n] # None
    /\ RemoveAlias(n)
    /\ UNCHANGED <<pc, cmd>>

\* Bug: `attempt <= 5` in the loop.
OneAttemptTooMany == RmAttempts + 1

FirstAttempts == RmAttempts

\* --force (and, in a pi session, --no-input) skips the prompt.
RmForced(a, n) ==
    /\ pc[a] = "idle"
    /\ store.aliases[n] = None
    /\ store.profiles[n] # None
    /\ store' = WithoutProfile(store, n)
    /\ UNCHANGED <<pc, cmd>>

RmAsk(a, n) ==
    /\ pc[a] = "idle"
    /\ store.aliases[n] = None
    /\ store.profiles[n] # None
    /\ Goto(a, "rmPrompt", [NoCmd EXCEPT !.name = n, !.left = FirstAttempts,
                                         !.seen = store.profiles[n]])
    /\ UNCHANGED store

RmAnswer(a) ==
    /\ pc[a] = "rmPrompt"
    /\ \/ Goto(a, "rmConfirmed", cmd[a])
       \/ End(a)
    /\ UNCHANGED store

\* Bug: the removal carries no fingerprint.
WhateverIsThere(a) == store.profiles[cmd[a].name]

\* The grant the removal was confirmed for.
Expected(a) == cmd[a].seen

RmRemove(a) ==
    LET n == cmd[a].name IN
    /\ store.aliases[n] = None
    /\ store.profiles[n] # None
    /\ store.profiles[n] = Expected(a)
    /\ store' = WithoutProfile(store, n)
    /\ End(a)

NextAttempts(a) == cmd[a].left - 1

\* The grant changed while the question was open: ask again about the new one,
\* or give up after the last attempt.
RmStale(a) ==
    LET n == cmd[a].name IN
    /\ store.aliases[n] = None
    /\ store.profiles[n] \notin {None, Expected(a)}
    /\ IF NextAttempts(a) > 0
       THEN Goto(a, "rmPrompt", [cmd[a] EXCEPT !.seen = store.profiles[n],
                                               !.left = NextAttempts(a)])
       ELSE End(a)
    /\ UNCHANGED store

\* The name turned into an alias, or into nothing: the command ends with an
\* error, but removeSelection has already removed the alias.
RmRaced(a) ==
    LET n == cmd[a].name IN
    /\ \/ store.aliases[n] # None /\ RemoveAlias(n)
       \/ store.aliases[n] = None /\ store.profiles[n] = None /\ UNCHANGED store
    /\ End(a)

RmConfirmed(a) == pc[a] = "rmConfirmed" /\ (RmRemove(a) \/ RmStale(a) \/ RmRaced(a))

-----------------------------------------------------------------------------
(* login: an overwrite check, the provider's OAuth flow, a locked store.   *)

\* /seat login validates before the browser opens; the CLI leaves it to
\* loginProfile.
Prechecked(a, n, as) ==
    a \in Clis \/ (n # DefaultKeyword /\ as \subseteq ValidLabels)

LoginBegin(a, n, as) ==
    /\ pc[a] = "idle"
    /\ Prechecked(a, n, as)
    /\ Goto(a, IF store.profiles[n] # None THEN "overwritePrompt" ELSE "oauth",
            [NoCmd EXCEPT !.name = n, !.aliases = as, !.seen = store.profiles[n]])
    /\ UNCHANGED store

LoginAnswer(a) ==
    /\ pc[a] = "overwritePrompt"
    /\ \/ Goto(a, "oauth", [cmd[a] EXCEPT !.confirmed = TRUE])
       \/ End(a)
    /\ UNCHANGED store

LoginMint(a) ==
    /\ pc[a] = "oauth"
    /\ \/ \E t \in Tokens \ InUse : Goto(a, "minted", [cmd[a] EXCEPT !.minted = t])
       \/ End(a)
    /\ UNCHANGED store

\* loginProfile stores nothing unless every rule holds and an overwrite was
\* confirmed.
Loginable(a) ==
    LET c == cmd[a] IN
    /\ c.name \in ValidLabels \ {DefaultKeyword}
    /\ ValidAliasNames(c.aliases)
    /\ store.aliases[c.name] = None
    /\ store.profiles[c.name] = None \/ c.confirmed
    /\ AliasesAssignable(store, c.name, c.aliases)

LoginStore(a) ==
    LET c == cmd[a] IN
    /\ pc[a] = "minted"
    /\ IF Loginable(a)
       THEN store' = [WithAliases(store, c.name, c.aliases)
                        EXCEPT !.profiles[c.name] = c.minted]
       ELSE UNCHANGED store
    /\ End(a)

-----------------------------------------------------------------------------
(* A locked refresh by any process replaces the grant under a label.       *)

Rotate(n) ==
    /\ store.profiles[n] # None
    /\ \E t \in Tokens \ InUse : store' = [store EXCEPT !.profiles[n] = t]
    /\ UNCHANGED <<pc, cmd>>

-----------------------------------------------------------------------------

Continue(a) == RmAnswer(a) \/ RmConfirmed(a) \/ LoginAnswer(a) \/ LoginMint(a) \/ LoginStore(a)

Next ==
    \/ \E a \in Actors :
         \/ ClearDefault(a)
         \/ Continue(a)
         \/ \E n \in Names : RmAlias(a, n) \/ RmForced(a, n) \/ RmAsk(a, n)
         \/ \E n, to \in Names : Rename(a, n, to)
         \/ \E n \in Names, as \in AliasArgs : Use(a, n, as) \/ LoginBegin(a, n, as)
    \/ \E n \in Names : Rotate(n)

Spec == Init /\ [][Next]_vars

-----------------------------------------------------------------------------
(* Properties.                                                             *)

\* What parseProviderSection demands of a section: valid names, aliases that
\* point at stored profiles and never share a name with one, a default that
\* names a stored profile.
WellFormed(s) ==
    /\ \A n \in Names : s.profiles[n] # None => n \in ValidLabels
    /\ \A n \in Names : s.aliases[n] # None =>
           /\ n \in ValidLabels
           /\ s.profiles[n] = None
           /\ s.profiles[s.aliases[n]] # None
    /\ s.default # None => s.profiles[s.default] # None

\* No sequence of commands, however their prompts interleave, writes a
\* seat.json that the next read would reject: a rejected store fails every
\* session and every command closed until it is repaired by hand.
StoreParses == WellFormed(store)

\* "default" is never a label or an alias, so `use default` can only mean
\* "clear the default".
KeywordFree(s) == s.profiles[DefaultKeyword] = None /\ s.aliases[DefaultKeyword] = None

KeywordStaysReserved == KeywordFree(store)

\* No grant sits under two labels, nor in a login that has yet to store it: a
\* refresh of one label would kill the other's copy.
OneLabelEach(s) ==
    \A m, n \in Names : s.profiles[m] # None /\ s.profiles[m] = s.profiles[n] => m = n

EachGrantOnce ==
    /\ OneLabelEach(store)
    /\ \A a \in Actors : cmd[a].minted # None => cmd[a].minted \notin Stored(store)

\* A grant leaves the store only because it was rotated, because rm was forced,
\* because a user confirmed the removal of that very grant, or because a user
\* agreed to overwrite the label it sits under.
Consented(t) ==
    \/ \E n \in Names : Rotate(n) /\ store.profiles[n] = t
    \/ \E a \in Actors, n \in Names : RmForced(a, n) /\ store.profiles[n] = t
    \/ \E a \in Actors : pc[a] = "rmConfirmed" /\ pc'[a] = "idle" /\ cmd[a].seen = t
    \/ \E a \in Actors : /\ pc[a] = "minted" /\ pc'[a] = "idle"
                         /\ cmd[a].confirmed
                         /\ store.profiles[cmd[a].name] = t

GrantLeavesByConsent == [][\A t \in Stored(store) \ Stored(store') : Consented(t)]_vars

\* A name that reaches a grant before and after a step reaches the same one,
\* unless the step refreshed that grant or overwrote that profile: no command
\* lets a name, the default included, slide from one account to another.
Reaches(s, n) == LET l == ResolveName(s, n) IN IF l = None THEN None ELSE s.profiles[l]

NamesKeepTheirGrant ==
    [][\A n \in Names :
          LET before == Reaches(store, n)
              after  == Reaches(store', n)
          IN  None \notin {before, after} /\ before # after
              => /\ before \notin Stored(store')
                 /\ after \notin Stored(store)
                 /\ ResolveName(store, n) = ResolveName(store', n)]_vars

\* The default changes account only through `use`: rename carries it along, rm
\* clears it, nothing re-points it.
DefaultFollowsItsGrant ==
    [][LET d == store.default  e == store'.default IN
       None \notin {d, e} /\ d # e
       => \/ \E a \in Actors, n \in Names, as \in AliasArgs : Use(a, n, as)
          \/ store.profiles[d] = store'.profiles[e]]_vars

\* What the doc of removeSelection says: if what the name holds is no longer the
\* grant the user was asked about, the confirmed mutation is rejected.
ChangedGrantRefusesRemoval ==
    [][\A a \in Actors :
          pc[a] = "rmConfirmed" /\ pc'[a] # pc[a]
          /\ store.profiles[cmd[a].name] # cmd[a].seen
          => UNCHANGED store]_vars

=============================================================================
