# A verification model of pi-seat

pi-seat keeps several OAuth logins ("profiles") per provider in one file,
`seat.json`, and makes every turn and every request of a Pi session run on the
one that is selected. What can go wrong is mostly about sharing: refresh tokens
work once, several Pi sessions and the CLI use the same file at the same time,
the runtime that holds the key is not ours, and users sit in front of prompts
for minutes. This directory models that in TLA+, checks it with TLC on small
instances and proves the central invariants with TLAPS for every size.

Paths below are relative to the repository (`src/...` is its `src/` directory).

## 1. Inventory

| Component | State | Operations | Talks to |
|---|---|---|---|
| Locked storage (`src/store/storage.ts`) | `seat.json`, the directory `seat.json.lock`, an open handle per section | `read`, `withLock`, `withLockAsync`, acquire, take over, fence, publish, release | file system, proper-lockfile |
| Schema and parser (`src/store/schema.ts`) | the decoded store | `parseStore`, `parseProviderSection`, `encodeStore` | storage |
| Selector (`src/store/selector.ts`) | none | selectors, `PI_SEAT`, name and selection resolution | commands, coordinator |
| Single-flight refresh (`src/store/refresh.ts`) | none of its own; holds the lock across a network call | `ensureFreshProfile` | storage, OAuth adapter |
| Store schedule (`src/store/scheduler.ts`) | one promise chain per extension instance | enqueue a task | everything in the extension that touches the store |
| Mutations (`src/extension/commands.ts`), `/seat` (`seat-command.ts`), CLI (`cli/main.ts`) | what a command remembers across a prompt | use, clear, login, rm, rename | storage, user, OAuth |
| Runtime coordinator (`src/extension/runtime-auth.ts`) | `blocked`, `appliedIdentity`, `overlayActive` | `syncIdle`, `syncTurn`, `requestAuth`, `owns`, fail-closed | schedule, refresh, Pi's runtime, Codex sockets |
| Registered provider (`src/extension/provider-auth.ts`) | the skip marks, the installed wrappers | refresh, toAuth, check, resolve, install, uninstall | coordinator, Pi's auth.json |
| Extension entry (`src/extension/index.ts`) | pins, startup error, one coordinator | init read, session_start, turn_start, session_shutdown | all of the above |
| Usage view (`usage-view.ts`), report, fetch, resets (`src/usage/`) | rows, cursor, the reset dialogue | load, move, use, reset, redeem | schedule, provider APIs |
| Pure helpers (pace, layout, cells, render, pin badge, redaction) | none | | the view, the CLI |

How they meet. Inside a Pi process every store access is a task on one
schedule; across processes only the lock directory excludes. A turn resolves
its selection on the schedule, then applies the key to Pi's runtime outside of
it, because Pi calls back into the registered provider, which queues on the same
schedule. Requests of subagent children resolve on the schedule at any time.
Commands wait for their user with no lock held and re-check under the lock.

What is hard: the lock can be lost while its holder still runs; a process may
stop between any two system calls; the only copy of a rotated refresh token
travels in one response; the selected profile can be renamed, removed, replaced
or refused between the read and the use; Pi may reject or forget a key; the
extension is reloaded in front of a runtime that is not.

What makes each part correct is stated per run in section 3; the places where
it can fail are the `hazards` of `PROJECT.json`, each at its line.

## 2. Modules

| Module | Models | Kind |
|---|---|---|
| `SeatCommands` | use, login, rm, rename by several sessions and CLIs over one provider section | specification |
| `AtomicStore` | what the storage promises: each change is one mutation of the current content | abstract specification |
| `StoreLock` | the lock protocol that keeps the promise; refines `AtomicStore` | specification |
| `GrantRegister` | what refreshes promise: the credential is a register that a rotation replaces in one step | abstract specification |
| `SeatRefresh` | `ensureFreshProfile` by several processes against a provider with single-use tokens; refines `GrantRegister` | specification |
| `SeatAuth` | the coordinator of one session with its schedule, its requests, Pi's runtime and the other sessions, for one provider | specification |
| `SeatTurns` | the session's turns over all providers: which failure aborts which turn | specification |
| `SeatProcess` | one Pi process: the instances of the extension around a `/reload`, the provider each registers, the requests of child runtimes, the schedules on one event loop | specification |
| `UsageView` | the usage view: walk, keys, switch of the default, banked resets, dispose | specification |
| `UsageRows` | what one meter looks like: layout tiers, cell clipping, labels, countdown, burn-rate colour | specification of pure functions |
| `...Proofs` | theorems about the module they are named after | proofs |
| `MC...` | small instances of these | model checking |

The modules are layers with one abstraction between each two. `StoreLock` shows
that a locked section is one atomic step unless it is raced (section 2.2);
`SeatCommands` and `SeatRefresh` use sections as steps, except that the section
of a refresh is opened up in `SeatRefresh` because a network call is inside.
`SeatRefresh` shows what a refresh does to a grant; in `SeatAuth` it is one step
with those outcomes. `SeatTurns` takes a whole resolution of `SeatAuth` as one
choice among key, Pi's own login and failure, and looks at the loop over the
providers around it. `SeatProcess` looks at the same coordinator from the other
side: not which key a turn rides, but which hook of the registered provider
answers a request, and who waits for whom on the event loop. `UsageView` is a
client of the schedule, and `UsageRows` what it draws.

Definitions whose comment starts with `Bug:` are not used by the specifications.
Each is what the definition below it would be with a plausible bug, and is there
to confirm that a property notices.

### 2.1 SeatCommands

`store` is one `ProviderSection`: `profiles` (label to grant), `aliases`,
`default`. A grant is a token that stands for the refresh token. Each actor is a
Pi session or a CLI process, with a program counter and `cmd`, what the code
remembers across its waits: the fingerprint shown by the rm prompt
(`expectedRefresh`), the attempt number, the confirmed overwrite, the credential
minted by the browser flow.

Every locked mutation is one action (`Use`, `ClearDefault`, `Rename`, `RmAlias`,
`RmForced`, `RmRemove`, `LoginStore`); the waits between them are states, so
anything of another actor happens there. `RmAsk`, `RmAnswer`, `RmRemove`,
`RmStale`, `RmRaced` and `RmConfirmed` are the loop of `handleRm`: show, ask,
remove if the fingerprint still fits, else ask again, at most `RmAttempts`
times. `Rotate` is the only thing the rest of the system does to this section:
a refresh replaces a grant's token.

`StoreParses` is what `parseProviderSection` demands of a file. A section that
breaks it makes every later read of every session throw, so it matters that no
interleaving of valid commands writes one.

### 2.2 StoreLock and AtomicStore

The lock is a directory that is made, touched, found stale and removed *by
path*; `dir` is that directory, with its inode and the process that made it,
`old` whether it is stale. `own` is the inode of the handle a holder keeps open;
inode numbers are recycled, but not while a handle is open (`FreeInodes`).
Content is the set of processes that have mutated the file an odd number of
times: enough to see any lost update, and finite.

Every removal of the directory (`TakeOver`, `ReleaseRmdir`, `Exit`) is by path, at
any time, and unasked, as it is in proper-lockfile. The fence is a check followed
by an act, and such a removal may fall in between:

| Window (`Windows`) | Where | What a removal in it can cost |
|---|---|---|
| `acquired` | `src/store/storage.ts:165`, lock acquired, handle not yet opened | the handle is opened on a successor's directory, and both pass the fence: an update |
| `checked` | `src/store/storage.ts:350`, ownership checked, not yet renamed | the successor's update |
| `unlinking` | `src/store/storage.ts:229`, ownership checked, directory not yet removed | the successor's lock |

The first needs no process that stands still for long: two waiters that have both
seen one stale lock are enough. One removes it and makes its own; the second's
removal is still pending and takes away the directory the first has just made.
(proper-lockfile probes the file system's mtime between the mkdir and its return;
that probe is not modelled, it only widens this window.) The other two need a
removal that was decided on earlier, by a late takeover or a late release, or a
holder that stands still past the stale threshold there. A commit of a section
that was raced is made under a lock another section owns, so that section counts
as raced from then on as well (`Rename`).

`raced` is a history variable, read by no step, that records to whom this has
happened. The properties say how far the damage goes: an update is lost only by a
raced section (`AtomicCommits`); a release removes a successor's lock only from a
raced section, and an exit only in the middle of one's own section
(`RemovalSparesSuccessors`). Such an exit costs its successor the lock, and hence
its commit, which the fence refuses, but no update unless it falls into one of the
windows too. Each of these exceptions is
necessary: without any one of them TLC finds a behaviour of the code that breaks
the property.

`registered` is proper-lockfile's list of the locks its exit handler removes.
`release` takes the lock off it before its rmdir, a refused release through an
adapter that removes nothing (`AfterRefusal`), the updater when it finds the lock
lost. `Exit` happens only where the event loop turns (`Stoppable`): between two
sections, or at an await of an asynchronous one. `Capture` may fail to open its
handle; such a section can neither commit nor release, and its lock stays until it
is stale (`LocksAreReturned` is about the others).

### 2.3 SeatRefresh

`stored` is the credential, `valid` the tokens the provider still accepts.
`FastRead` is the unlocked fast path, `LockAndReread` the re-check under the
lock, `Receive`, `Timeout` and `Commit` the end of the call. `Answer` is the
provider: a valid token is spent and replaced, any other is `invalid_grant`. An
aborted request is not withdrawn: it becomes a stray that may still spend its
token. `Suspendable` are the processes that may stand still past the stale
threshold; their lock can be taken over, and the fence then refuses their commit.
The token such a process was sent is then lost, and so is one whose answer, or
whose receiver, is lost: `lost` remembers them.

`GrantRegister` is the promise to which all this comes down. Its `live` tokens are
those the provider honours *or* whose replacement is on its way to the store
(`LiveTokens` in the mapping): the moment the provider spends a token and the
moment the store learns the replacement are two steps of `SeatRefresh` and one
`Rotate` of the register.

### 2.4 SeatAuth

One coordinator, the slot of Codex (the provider that also has sockets).
`queue` is the store schedule, `pc` says where the sync (`Turn`) and each request
stand. `Start` is the entry read of `resolveSeat` with the block check,
`Refreshed`, `NotRefreshed` and `Refused` the outcomes of the refresh; then the
sync leaves the schedule and applies: `Close` (sockets), `SetKey`, `Checked` or
`CheckFails` (Pi's availability check, a task of its own on the schedule, which
reads the store and throws when it cannot: `setRuntimeApiKey` then rejects with the
key in place), `Verify`; or
`Release` when nothing is selected; or the fail-closed path, `SetSentinel` for a
failure that does not abort and `Poison` for the sentinel of an aborted turn,
which nobody awaits. `pin` is `PI_SEAT`, resolved once. `Login`, `Use`,
`ClearDefault`, `RenameTo`, `Remove`, `Expire` and `Revoke` are what other
sessions, time and the provider do meanwhile.

`Faults` is what may go wrong around a key: Pi rejects it, forgets it, or its check
fails. `ReadBack` says whether this Pi has `getApiKeyForProvider`; without it the
coordinator takes a key for stored (`src/extension/runtime-auth.ts:373-374`), so a Pi
that forgets keys is assumed to have it. `orphaned` marks an overlay the coordinator
does not know of. There are two ways to one, and `LiveTurnRidesItsOwn` names both as
exceptions: it was set before a `/reload`, or its check failed while this instance
owned none, the sentinel was rejected as well, and the selection was cleared before
the next turn (section 5).

`sockets` holds identities of sockets opened in *calm*, that is, by a request
that resolved while no sync was under way and the selection was the applied one.
A socket opened by a request that races a switch may ride the old account until
the next change of identity; `docs/architecture.md` (DEC-013, Limits) accepts
that, so the property leaves it out.

### 2.5 SeatTurns

`SyncAll` is entered by `SessionStart` and by `TurnStart`; the loop of `syncAll`
is `at` (the provider) and `step` (where `syncProvider` stands). `active` is the
failure policy: the provider of the session's current model, everyone when that
cannot be told, nobody at session start. `FailClosed` either aborts at once and
leaves the sentinel to itself (`Land` and `Mark`, the two halves of the call
nobody awaits), or sets the sentinel, reads it back and escalates to an abort if
it is not there (AC-032). `target` is the provider the turn's request really goes
to: Pi takes it when the turn begins, the handler reads `ctx.model` later, and
`SwitchModel` may fall in between (T046).

Pi's runtime stores a key, refuses it, (`sound = FALSE`) returns without having
stored it, or stores it and rejects because seat's own availability check failed
(`Set`). A provider to which the last happens while the coordinator owns no overlay
there is `orphaned`, a history variable: when nothing is selected any more the sync
leaves that key in place, and `Vouched` admits it for that provider. This Pi has a
read-back, as `ReadBack = TRUE` in `SeatAuth`. Outside of the model is a Pi that gives
effect to a call after it has returned it.

### 2.6 SeatProcess

`registered` is what Pi holds for the provider id, the outermost wrapper first;
`instance` and `phase` are the life of the extension (`Reload`, `SessionStart`,
`Shutdown`), `given` the instances whose wrapper a child runtime may still hold.
`Installed` and `Uninstalled` are `install` and `uninstall` of
`src/extension/provider-auth.ts`. `broken` are the instances whose load ended
with a startup error: `requireCoordinator` throws for all their requests, which
are therefore never queued.

A request goes `Begin`, then the hook Pi calls: `Owns` (the refresh hook, for an
entry that is due), `PiRefreshEnds` (Pi refreshes its own grant, as seat does not
own the provider), `Ask` (toAuth and resolve), `Acquire` and `RefreshEnds` (the
locked refresh of a profile that is due). `skipped` are the entries whose refresh
seat told Pi to skip. `queue` has one schedule per instance
(`src/store/scheduler.ts`); `Running` is its head. Every store access begins with
a *synchronous* lock, so a task that meets a lock held by a refresh of its own
process freezes the event loop (`Freeze`) until `LockTimeout`. `Session` is all
of the session's own store work, one task at a time; `Load` the unscheduled read
of an extension that is being loaded.

Assumed of Pi: a stored entry owns the provider and an expired one is refreshed
first; each request has an entry object of its own; the latest registration wins;
a child runtime keeps what its parent held. Pi's own lock on auth.json is left
out: no task of seat takes it.

### 2.7 UsageView

`job` is the walk of `collectUsage` with the load around it: `Read`, one
`Prepare` per stored profile on the schedule, then `Settle` (answers in any
order) and `Drain` (rows in walk order). `Pin` is the `PI_SEAT` selection of the
process, which leads the plan before the default does (`Selected`); the run has none (a
pinned process was checked as well), the theorems hold for any. `rows`, `cursor`, `loading` and `shown` (the store the
headers describe, none from `Load` until its read) are the view's. `flow`, `flowGen` and `lookups`
are the reset dialogue with its generation counter: `StartReset`, `Credential`,
`Lookup`, `Cancel`, `Confirm`, then the request's two ends, `Serve` at the
provider and `Redeemed` at the caller, which may come in either order or not at
all. `questions` is a history variable: the confirmations that were on the screen,
each with its account and the login that was looked up for it. `Enter` queues a switch and `Apply` does it; `Dispose` may fall anywhere, and
`Elsewhere` is what other sessions do to the store.

Left out: the timer, the status line's text, the choice among several offers, and
a read that fails right after a switch that succeeded.

### 2.8 UsageRows

The state is what a row depends on: the terminal's `width`, the `meter` (a Claude
limit or a Codex window), the share that is `used`, and the time `left` until the
reset. Its steps are what changes that: `Resize`, `Wait`, `Spend`, and `Renew`,
which takes a reset time off the wire through `ParseReset`, readable or not. All
else are functions: `PlanLayout` is the tier table of `src/usage/layout.ts`,
`ClipCells` and `LineStops` the cell arithmetic of `cells.ts` and the line writer
of `render.ts`, `EvaluatePace` and `MeterColor` the burn rate of `pace.ts`. A text
is how many narrow and how many wide glyphs it has; a wide glyph that does not fit
leaves a cell to pad. Its narrow glyphs come before its wide ones. A percentage is
not clipped to its column (`NumberCells`): from 999.5 percent on it takes a cell
more, and a row that fills its line then loses one cell at its end.

Shares are whole tenths of a percent and times whole minutes, so projections are
compared without division; the code divides floating-point numbers, and a
projection within its rounding error of 90 or 100 percent may be on the other
side there. `ColorFollowsSpending` notices the guard of `evaluatePace` against a
nearly empty meter; its guards against too little elapsed time and a window that is
over decide only whether there is a verdict, and no property depends on them. A reset
ten or more days away would need 21 cells in its long
form, one more than the column has; times that long are left out.

## 3. What the runs show

| Run | Bounds | Properties |
|---|---|---|
| `commands` | 5 names (one the keyword, one invalid as a label), 4 tokens, 1 session and 1 CLI, 2 rm attempts, 1 new alias per command | `TypeOK`; `StoreParses` the file always parses; `EachGrantOnce` no grant under two labels; `GrantLeavesByConsent` a grant leaves only by rotation, force, or a consent for it; `NamesKeepTheirGrant` a name never slides to another account; `DefaultFollowsItsGrant` |
| `commands_rm_doc` | as `commands` | violated: `ChangedGrantRefusesRemoval` |
| `lock` | 2 processes (one async), 3 inodes | `TypeOK`; `AtomicCommits` an update is lost only by a section raced in a window of the fence (else refines `AtomicStore`); `RemovalSparesSuccessors`; `LocksAreReturned` a section leaves no lock of its own behind; `LockNeverStuck` |
| `refresh` | 2 processes, one suspendable, 4 tokens | `TypeOK`; `SingleFlight`; `InvalidGrantMeansLoss` refreshes alone never make a grant look dead; `RotatesAtomically` (refines `GrantRegister`); `CallsEnd` |
| `auth` | 2 labels, 2 accounts, 1 request, 2 tokens, Pi rejects and forgets, its check fails | `TypeOK`; `LiveTurnRidesItsOwn`; `CalmSocketsFollow`; `HeadMakesProgress`; `RefusalRemembered` |
| `auth_dead_grant` | as `auth`, Pi without faults | violated: `DeadGrantStaysBlocked` |
| `auth_reload` | as `auth`, Pi without faults | violated: `BuiltinUntouched` |
| `turns` | 2 providers, 2 keys, 1 sentinel under way for each provider | `TypeOK`; `CallsRideTheLastSync` no request rides what an earlier turn left; `OnlyItsOwnFailureAborts` |
| `process` | 1 child request, the session's own work, 2 instances, 2 foreign registrations | `TypeOK`; `OneScheduleNeverFreezes`; `OwnershipDecides` who owns the provider throughout a request answers it, or it fails; `NoSkippedTokenSent`; `WrapsOneKeepsOthers`; `RequestsEnd` |
| `process_frozen` | as `process` | violated: `NeverFrozen` |
| `usage_view` | 2 profiles and Pi's own login, 2 logins, 2 queued tasks at Enter, 2 flows, reloads or changes elsewhere | `TypeOK`; `SpendsWhatWasConfirmed`; `OutcomeIsTrue`; `HeadersMatchTheWalk`; `NothingLateIsHeard` neither a cancelled flow nor a closed view; `KeyboardReturns` |
| `usage_rows` | 22 widths, 16 shares and 27 times around every threshold, 5 limits, 4 windows, 4 texts | `TypeOK` no unreadable time gets in; `RowsKeepTheirColumns`; `WiderShowsNoLess`; `ColorFollowsSpending` |

Why the bounds are enough. *commands*: every interference is between two actors;
two profiles, their aliases and one spare label are needed for a rename, a
re-login under the freed label and an alias in its place, and four tokens allow
two grants, one rotation and one login on top. *lock*: a takeover needs a loser
and a taker; the loser restarts, so the third party of the classic three-process
problem is the first process in a later life. Three inodes are one per open
handle and one free, so that recycling and not recycling both happen; three
processes on four inodes, explored up to depth 38 (14 million states, not all there
are), broke nothing either. *refresh*:
four tokens are two rotations of a grant and a login in between; the invariants
also hold with both processes suspendable. *auth*: two labels for a switch, two
accounts for a socket, two tokens for a rotation or a replacement. *turns*: two
providers are one that the turn runs on and one it does not, in either order;
two keys are the one of this sync and one left by an earlier one; two sentinels
under way give nothing new (checked as well). *process*: a freeze has one waiter
and one holder, so one child and the session are enough, and two instances make
one `/reload` with a child of the former instance alive across it. *usage_view*:
two profiles and the built-in login make a walk order that the default changes;
two events are a flow cancelled and followed by another, a flow and a change
elsewhere, or a reload and a change. *usage_rows*: the functions are piecewise,
and every piece has a width, share and time inside it and on each side of its
ends. For most of this the theorems of section 4 remove the bound altogether.

Fairness. `SeatCommands`, `SeatAuth`, `SeatTurns`, `UsageRows`: none, their
properties are safety. `StoreLock`: a process that has begun a section goes on
unless it crashes, and time passes, so an untouched lock gets stale.
`SeatRefresh`: a call's own steps, among them its timeout; nothing is assumed of
the provider, of other processes, or that anyone gives up. `SeatProcess`: the
synchronous wait ends at its timeout (weak), and what is a callback runs
eventually although the loop may be frozen again and again before (strong): the
loop runs what is ready when it turns, and the refreshes of seat and of Pi time
out. `UsageView`: the tasks run in turn and every request answers or times out
(weak, on the work as a whole); nobody need press a key, and a redeem need not
arrive at the provider.

Deadlock is checked in every run but `usage_view`: there the view may be closed
with all its work done, which is its proper end.

## 4. What is proved

Each module of theorems EXTENDS its specification and follows one pattern: an
inductive invariant `IInv` (type correctness, the properties, and what they need
from the rest of the state), one lemma per action saying that the action keeps
it, one step per conjunct the action can disturb, and from `Spec => []IInv` the
theorems. The constants are restricted only by the specification's own
assumption, which TLC evaluates in every run.

* **`SeatCommandsProofs`**: `TypeCorrect`; `StoreAlwaysParses` and
  `KeywordAlwaysReserved`, one step per mutation, each from the lemma that says
  what its section operator returns; `GrantsNeverShared`, whose invariant adds that
  a pending login's grant is in no profile and in no other pending login;
  `ConsentAlways`, from what the commands remember (`Consented`);
  `NamesAlwaysKeepTheirGrant` and `DefaultAlwaysFollows`, from a section that
  parses: an alias of a parsed section points to a profile and shadows none, so
  that a name cannot change what it reaches by losing what it was.
* **`StoreLockProofs`**, with every window of the fence open. `LockTypeCorrect`.
  `OwnershipExclusive` and `OwnerAlwaysCurrent`: among sections that were not raced
  one at most can prove ownership, and it has read what the file still holds.
  Neither is inductive alone: a process that has made the directory but not yet
  opened it must be known to be its only maker (`FreshLock`), and the proof must last
  from the check to the act (`CheckedOwns`, `UnlinkingOwns`); these are the parts of
  `FenceInv`. `UpdatesLostOnlyByRaces`: a `Rename` of an unraced section is a
  `Mutate`, and no other step changes the content. `SuccessorsKeepTheirLock`: the
  inode number a release compares, though recycled, is that of the directory it made
  itself (`ProofIsGenuine`), and who is registered is in a section (`Tidy`).
  `LocksAlwaysReturned`: while the directory is a section's own, the handle it opened
  is that directory's (`Tidy` again, which holds of raced sections too). A corollary,
  `UnracedLockIsAtomic`: a behaviour in which no section is ever raced implements
  `AtomicStore`.
* **`SeatRefreshProofs`**: `RefreshTypeCorrect`; `AlwaysSingleFlight`;
  `StoredTokenAlwaysWorks`; `RefusalMeansLoss`; `RefreshImplementsRegister`:
  `Spec => G!Spec`, a refinement step by step. The invariant says that a sender
  holds the lock or stood still while it did, that nobody writes the credential
  under its holder (`HolderReread`), that a token that was replaced is replaced
  once (`SpentOnce`), and that a replacement is known to nobody but the process
  that is to store it (`ReplacementsFresh`): this is what keeps two processes from
  spending one token, and a refused commit from being anything but a loss.
* **`SeatAuthProofs`**: `AuthTypeCorrect`; `LiveTurnAlwaysRidesItsOwn`;
  `CalmSocketsAlwaysFollow`; `HeadAlwaysMakesProgress`; `RefusalAlwaysRemembered`.
  Nobody is on the schedule twice and only its head is at store work
  (`QueueFits`), so a block set by one user is seen by every later one before it
  sends (`BlockHolds`); a seat key in Pi's runtime is the coordinator's, about to
  be, or one of a former instance (`Accounted`), so that what `Release` leaves in
  place is no key of this instance; from the moment the sockets were closed until
  the new identity is applied there are none (`SocketsFit`).
* **`SeatTurnsProofs`**: `TurnsTypeCorrect`; `CallsAlwaysVouched`; `AbortsAreOwn`,
  for any number of providers in any order and any number of late sentinels. The
  loop has settled the providers before `at` well as long as the turn is alive
  (`LoopInOrder`), and a sentinel that lands late can only replace a key by one
  that authenticates nothing.
* **`SeatProcessProofs`**: `ProcessTypeCorrect`; `NeverFrozenByOneSchedule`;
  `OwnershipAlwaysDecides`; `SkippedTokenNeverSent`; `WrapsOneAlways`, for any
  number of children, instances and reloads. The lock's holder and whoever waits
  for it synchronously are both heads of their schedules (`HolderRuns`,
  `FrozenWaits`), and one schedule has one head.
* **`UsageViewProofs`**, in two parts. The reset flows:
  `AlwaysSpendsWhatWasConfirmed`; `OutcomeAlwaysTrue`; `LateIsNeverHeard`.
  Generations never come back: an open flow is the last one started
  (`FlowIsLatest`), it has one lookup (`OneLookupEach`), and a flow that still asks
  has sent no redeem (`RedeemsFollowYes`); once a flow has put its question its lookup
  is over (`QuestionsEndLookups`), so that no second answer replaces the login. The walk: `HeadersAlwaysMatchTheWalk`;
  `ViewTypeCorrect`. A task of the walk in the queue is the only one and belongs to
  the walk's stage, the switches asked for before a walk stand before its read, and
  none is asked for while it lasts (`QueueFits`), so that nothing but reset logins
  is left behind a task of the walk (`Bare`); the cursor is on a row whenever keys
  are answered and a walk has at most one row for each slot it drained
  (`RowsFit`); a login is looked up for profiles only (`CredentialsFit`).
  `RowsAlwaysFollowTheWalk`: whatever order the answers come in, the rows are slots
  of the plan in its order, and since no account is in a plan twice none is listed
  twice: the row that `Restored` puts the cursor back on is the only one of it.
  `ReportAlwaysComplete`: a walk that ends on a view that is still there, and without
  a login that cannot be read, leaves rows for all the profiles that were stored when
  it began and for no other. The plan has exactly those (`PlanComplete`), a profile's
  slot is answered by a row and the drain, which goes past a slot only after its
  answer, has listed every slot behind it (`WalkFits`).
* **`UsageRowsProofs`**: `RowsTypeCorrect`; `WiderNeverShowsLess`, from the table
  of widths at which each tier begins to fit; `ColorAlwaysFollowsSpending`, from
  monotonicity of the projection in the share and in the time elapsed. Both are
  over all integers, not only those of the run. `RowsNeverWrap`: no row is longer
  than its line, whatever it says; `RowsAlwaysKeepTheirColumns`: from 27 cells on
  nothing of a meter is cut and its columns are those of the layout. The second
  assumes `ResetsFit`, that a reset is less than ten days off: the column has 20
  cells and the longest limit is a week (`src/usage/layout.ts:15`); a reset further
  away is cut at the end of the line, and the first theorem still holds.

Two operators are recursive functions over a list, `LineStops` along a row and
`StoredBut` along the profiles, and the proofs need what they compute for every
list. The library's induction theorems take an operator, which the provers cannot
instantiate. Here the induction is over a set of numbers instead (`SetInduction`: a
set that has 0 and every next number, from the fact that a non-empty set of
naturals has a least element), a function that satisfies the recursive equation is
built one argument at a time, and the definition's CHOOSE is equal to it.

`OneProvenOwner`, `ProvenOwnerIsCurrent`, `KeywordStaysReserved`,
`StoredTokenWorks`, `RowsStayInside`, `RowsFollowTheWalk` and `ReportIsComplete` are
stated by theorems only. `Invariance` and the lemmas
`Always` hold the inductive invariants themselves.

Model-checked only is all liveness (`LockNeverStuck`, `CallsEnd`, `RequestsEnd`,
`KeyboardReturns`): fairness and ENABLED are out of the prover's reach. So are the
four violations of section 5, which are counterexamples.

## 5. Where the code and its documents disagree

1. `commands_rm_doc`: `removeSelection` looks for an alias before it compares the
   fingerprint, so a confirmed rm whose label has become an alias in the meantime
   removes the alias (`src/extension/commands.ts:221`).
2. `auth_dead_grant`: a refused token is sent again after a rename of its profile
   or another refusal (`src/extension/runtime-auth.ts:276`).
3. `auth_reload`: after `/reload` an overlay set by the former instance stays
   although nothing is selected (`src/extension/runtime-auth.ts:222`), against
   AC-006. The run has a Pi without faults; with one whose availability check may
   fail there is a second way to the same state (below).
4. `process_frozen`: the schedule is one per *instance* of the extension
   (`src/extension/index.ts:52`) and the read at load is on none (`:63`), against
   `src/store/scheduler.ts:9-10`. After `/reload` a synchronous wait can meet a
   refresh of the former instance; both stand until the 5 s timeout, and an
   instance whose load ran into it starts with a startup error.

Seen while reading, and not the subject of a run:

* The comment at `src/store/storage.ts:108-109` says that the held handle keeps a
  successor's lock from being taken for one's own. That is so from the moment the
  handle is open; before, a second waiter that saw the same stale lock may have
  removed the directory and a third party's may stand in its place (window
  `acquired` of section 2.2).
* The fence is a check before the rename and not part of it
  (`src/store/storage.ts:350`, window `checked`), and before the rmdir (`:229`,
  window `unlinking`). "Never issue two concurrent refresh requests for the same
  grant" (`docs/specs/behavior.md:31`) does not survive a process that stands still
  past the stale threshold; `SingleFlight` and `InvalidGrantMeansLoss` name exactly
  that exception.
* A pi session that is told to stop in the middle of an asynchronous section, after
  it lost its lock and before its updater noticed, removes the successor's lock
  through proper-lockfile's exit handler (`src/store/storage.ts:222-224` speaks of
  the refused release only).
* A handle that cannot be opened (`src/store/storage.ts:265-267`) is not an error: the
  section runs, its commit is refused, and its lock stays until it is stale.
* An availability check that cannot read the store makes `setRuntimeApiKey` reject
  with the key in place and `overlayActive` unset
  (`src/extension/runtime-auth.ts:241-242`, `src/extension/provider-auth.ts:108`). If
  the sentinel is rejected too and the selection is cleared before the next turn, that
  turn runs on the key although nothing is selected. `SeatAuth` and `SeatTurns` have
  the behaviour, and their properties name it.
* The confirmation of a login overwrite names a label, not a grant, although the
  comment at `src/extension/seat-command.ts:151-152` says the locked store
  re-detects any race.
* REQ-011 (`docs/specs/behavior.md:185`) lists exactly four cases without a
  trustworthy projection; `evaluatePace` has a fifth, a window that is already
  over.
* The header of `src/usage/layout.ts:4-6` says that no column ever gets worse as
  the terminal grows; the bar shrinks at widths 38, 43 and 60, where a richer tier
  begins. `WiderShowsNoLess` states what is true.
* `cmdUse` of the CLI reads the store again after it has committed
  (`src/cli/main.ts:217-222`): if that read fails the command reports an error
  although the default is switched.
* The startup errors speak of "all seat-managed provider turns"
  (`src/extension/index.ts:66,74`); `turn_start` then aborts every turn, those on
  other providers' models too.
* A module load that fails once is memoised as a failure by
  `src/extension/oauth.ts`.

## 6. What is not modelled, and why

* JSON syntax, file modes, symlink checks and wording: no property here depends on
  them.
* The in-memory backend of the tests.
* The second provider in `SeatAuth`: the same code on another slot of each map.
  What two providers do to one turn is in `SeatTurns`; besides that they meet only
  on the schedule, where a second request stands for the other.
* In `SeatAuth` a lost or refused refresh is a single step; `SeatRefresh` has its
  inside. A startup error (an unreadable store or a bad `PI_SEAT`) is a state in
  which no turn runs; `SeatAuth` starts after it, `SeatTurns` and `SeatProcess`
  have it.
* The second provider in `SeatProcess` and `UsageView`: a second copy of the
  registration, and a second plan walked after the first.
* What the usage endpoints return and how a row words it; which of several banked
  offers is redeemed next; floating-point rounding of the projection.
* The grammar of selectors and of `PI_SEAT`, and the CLI's argument parsing: pure
  text, with no state between two calls.
* The components listed as `not_modelled` in `PROJECT.json`.

## 7. Plan

Done: the modules of section 2 with their theorems. Left, in this order:

1. The grammar of selectors and of `PI_SEAT`, and the choice among several banked
   offers, as pure functions against reference definitions.
2. The second provider inside `SeatAuth`, composed with the loop of `SeatTurns`.
