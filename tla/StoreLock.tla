----------------------------- MODULE StoreLock ------------------------------
(***************************************************************************)
(* The lock protocol around seat.json: FileSeatStorageBackend over         *)
(* proper-lockfile.  The lock is the directory seat.json.lock.  It is made *)
(* by mkdir, removed BY PATH, and taken over by a waiter that finds it     *)
(* stale (not touched for 30 s).  A holder may be slow, suspended or dead, *)
(* so any lock may turn stale at any time.  What protects a commit after a *)
(* takeover is the fence: an open handle on the lock directory, compared   *)
(* with the directory at the path right before the rename and right before *)
(* the release.                                                            *)
(*                                                                         *)
(* The fence is not airtight.  A process whose lock is removed between the *)
(* mkdir and the opening of its handle, between the check and the rename,  *)
(* or between the check and the rmdir, acts on an outdated proof.  The     *)
(* specification lets every removal happen in those windows; the history   *)
(* variable `raced` records which sections it happened to, so that the     *)
(* properties can say how far the damage goes.                             *)
(***************************************************************************)
EXTENDS Naturals, FiniteSets

CONSTANTS
    Procs,   \* processes that open seat.json
    Asyncs,  \* those whose sections are withLockAsync (a token refresh)
    Inodes,  \* inode numbers the file system hands out, and recycles
    None

ASSUME LockAssumption ==
    /\ Asyncs \subseteq Procs
    /\ None \notin Procs \union Inodes
    /\ \A c \in SUBSET Procs : None # c
    /\ \A d \in [ino : Inodes, by : Procs] : None # d

VARIABLES
    file,         \* content of seat.json, None while it does not exist
    dir,          \* the directory at seat.json.lock, None while there is none
    old,          \* that directory's mtime is past the stale threshold
    pc,           \* where each process stands
    commits,      \* its section is a mutation (not a read)
    own,          \* the inode it holds open as proof of ownership
    base,         \* the content its section read
    compromised,  \* its updater has reported the lock compromised
    registered    \* the processes whose exit handler would remove the lock

\* History: the sections that lost the lock in one of the fence's windows.  No
\* step depends on it.
VARIABLE raced

section == <<commits, own, base, compromised>>

vars == <<file, dir, old, pc, commits, own, base, compromised, registered, raced>>

\* A definition whose comment starts with "Bug:" is not part of the
\* specification: it is what the definition below it would be if the code had
\* that bug, used to confirm that a property notices it.

\* Bug: a missing file is decoded as a store with an entry for nobody.
Placeholder == IF file = None THEN {None} ELSE file

Content == IF file = None THEN {} ELSE file

A == INSTANCE AtomicStore WITH content <- Content

-----------------------------------------------------------------------------

Pcs == {"idle", "probeFile", "probeLock", "probeAgain", "waiting", "sawStale",
        "retry", "acquired", "owned", "read", "wrote", "checked", "releasing",
        "unlinking", "dead"}

\* `by` stands for the mtime proper-lockfile remembers: it tells the directory
\* a process made from the one a successor made.
Dirs == [ino : Inodes, by : Procs]

TypeOK == /\ file \in (SUBSET Procs) \union {None}
          /\ dir \in Dirs \union {None}
          /\ old \in BOOLEAN
          /\ pc \in [Procs -> Pcs]
          /\ commits \in [Procs -> BOOLEAN]
          /\ own \in [Procs -> Inodes \union {None}]
          /\ base \in [Procs -> SUBSET Procs]
          /\ compromised \in [Procs -> BOOLEAN]
          /\ registered \subseteq Procs
          /\ raced \subseteq Procs

Init == /\ file = None
        /\ dir = None
        /\ old = FALSE
        /\ pc = [p \in Procs |-> "idle"]
        /\ commits = [p \in Procs |-> FALSE]
        /\ own = [p \in Procs |-> None]
        /\ base = [p \in Procs |-> {}]
        /\ compromised = [p \in Procs |-> FALSE]
        /\ registered = {}
        /\ raced = {}

At(p, here) == pc[p] = here
Goto(p, there) == pc' = [pc EXCEPT ![p] = there]

\* An inode is free once no directory entry and no open handle refers to it.
FreeInodes == {i \in Inodes : /\ dir = None \/ dir.ino # i
                              /\ \A p \in Procs : own[p] # i}

\* Where a process goes by something it has found out about its lock before.
Windows == {"acquired", "checked", "unlinking"}

\* The raced sections once p has removed what is at the path.
RacedByRemoval(p) == IF dir = None THEN raced
                     ELSE raced \union {q \in Procs \ {p} : pc[q] \in Windows}

\* stillOwnsLock: the handle is the directory at the path.
StillOwns(p) == /\ own[p] # None
                /\ dir # None
                /\ dir.ino = own[p]

-----------------------------------------------------------------------------
(* Beginning a section.                                                    *)

MutateBegin(p) ==
    /\ At(p, "idle")
    /\ Goto(p, "waiting")
    /\ commits' = [commits EXCEPT ![p] = TRUE]
    /\ UNCHANGED <<file, dir, old, own, base, compromised, registered, raced>>

\* A read looks for the file, the lock, and the file again; when there is none
\* of them it answers "no store" without locking.
ReadBegin(p) ==
    /\ At(p, "idle")
    /\ Goto(p, "probeFile")
    /\ UNCHANGED <<file, dir, old, section, registered, raced>>

Probe(p) ==
    /\ \/ At(p, "probeFile") /\ Goto(p, IF file # None THEN "waiting" ELSE "probeLock")
       \/ At(p, "probeLock") /\ Goto(p, IF dir # None THEN "waiting" ELSE "probeAgain")
       \/ At(p, "probeAgain") /\ Goto(p, IF file # None THEN "waiting" ELSE "idle")
    /\ UNCHANGED <<file, dir, old, section, registered, raced>>

-----------------------------------------------------------------------------
(* proper-lockfile: acquiring, touching, and losing the lock.              *)

Mkdir(p) ==
    /\ dir = None
    /\ \E i \in FreeInodes : dir' = [ino |-> i, by |-> p]
    /\ old' = FALSE
    /\ Goto(p, "acquired")
    /\ registered' = registered \union {p}
    /\ UNCHANGED <<file, section, raced>>

Acquire(p) == At(p, "waiting") /\ Mkdir(p)

\* Bug: a lock is waited for however old it is.
NeverStale == FALSE

StaleLock == dir # None /\ old

SeeStale(p) ==
    /\ At(p, "waiting")
    /\ StaleLock
    /\ Goto(p, "sawStale")
    /\ UNCHANGED <<file, dir, old, section, registered, raced>>

\* The takeover removes whatever is at the path by now.
TakeOver(p) ==
    /\ At(p, "sawStale")
    /\ dir' = None
    /\ raced' = RacedByRemoval(p)
    /\ Goto(p, "retry")
    /\ UNCHANGED <<file, old, section, registered>>

\* One more mkdir; if somebody else was faster, back to waiting.
Retry(p) ==
    /\ At(p, "retry")
    /\ \/ Mkdir(p)
       \/ /\ dir # None
          /\ Goto(p, "waiting")
          /\ UNCHANGED <<file, dir, old, section, registered, raced>>

\* ELOCKED after the last retry: the section fails before it starts.
GiveUp(p) ==
    /\ At(p, "waiting")
    /\ Goto(p, "idle")
    /\ commits' = [commits EXCEPT ![p] = FALSE]
    /\ UNCHANGED <<file, dir, old, own, base, compromised, registered, raced>>

\* The updater of an async section: refresh the mtime of a lock that is still
\* ours, report the loss of one that is not.
Touch(p) ==
    /\ p \in Asyncs
    /\ At(p, "acquired") \/ At(p, "read")
    /\ ~ compromised[p]
    /\ IF dir # None /\ dir.by = p
       THEN old' = FALSE /\ UNCHANGED <<compromised, registered>>
       ELSE /\ compromised' = [compromised EXCEPT ![p] = TRUE]
            /\ registered' = registered \ {p}
            /\ UNCHANGED old
    /\ UNCHANGED <<file, dir, pc, commits, own, base, raced>>

\* Nobody touched the lock for 30 s.
Age == /\ dir # None
       /\ old' = TRUE
       /\ UNCHANGED <<file, dir, pc, section, registered, raced>>

-----------------------------------------------------------------------------
(* The section.                                                            *)

\* The handle is opened by path: it is whatever stands there by now, or nothing
\* when nothing does or the open fails.
Capture(p) ==
    /\ At(p, "acquired")
    /\ IF compromised[p]
       THEN Goto(p, "releasing") /\ UNCHANGED own
       ELSE /\ Goto(p, "owned")
            /\ \/ UNCHANGED own
               \/ dir # None /\ own' = [own EXCEPT ![p] = dir.ino]
    /\ UNCHANGED <<file, dir, old, commits, base, compromised, registered, raced>>

Read(p) ==
    /\ At(p, "owned")
    /\ Goto(p, "read")
    /\ base' = [base EXCEPT ![p] = Content]
    /\ UNCHANGED <<file, dir, old, commits, own, compromised, registered, raced>>

\* A read, an unchanged result, an error, or a lock reported compromised.
SkipCommit(p) ==
    /\ At(p, "read")
    /\ Goto(p, "releasing")
    /\ UNCHANGED <<file, dir, old, section, registered, raced>>

WriteTemp(p) ==
    /\ At(p, "read")
    /\ commits[p] /\ ~ compromised[p]
    /\ Goto(p, "wrote")
    /\ UNCHANGED <<file, dir, old, section, registered, raced>>

\* Bug: the rename is not fenced.
Unfenced(p) == TRUE

FencePasses(p) == StillOwns(p)

AssertOwnership(p) ==
    /\ At(p, "wrote")
    /\ Goto(p, IF FencePasses(p) THEN "checked" ELSE "releasing")
    /\ UNCHANGED <<file, dir, old, section, registered, raced>>

\* Whoever owns the lock that a raced section commits under is raced by it.
Rename(p) ==
    /\ At(p, "checked")
    /\ file' = A!Toggled(base[p], p)
    /\ raced' = IF p \in raced THEN raced \union {q \in Procs : StillOwns(q)} ELSE raced
    /\ Goto(p, "releasing")
    /\ UNCHANGED <<dir, old, section, registered>>

-----------------------------------------------------------------------------
(* Leaving the section.                                                    *)

\* The section is over: its variables are gone, its handle is closed.
Leave(p, there) ==
    /\ Goto(p, there)
    /\ commits' = [commits EXCEPT ![p] = FALSE]
    /\ own' = [own EXCEPT ![p] = None]
    /\ base' = [base EXCEPT ![p] = {}]
    /\ compromised' = [compromised EXCEPT ![p] = FALSE]

\* Bug: the handle is closed before it is asked about.
HandleClosedFirst(p) == FALSE

MayRelease(p) == StillOwns(p)

\* Bug: a refused release leaves proper-lockfile's bookkeeping in place.
KeepsBookkeeping(p) == registered

AfterRefusal(p) == registered \ {p}

\* release() drops the registration before its rmdir; a refused release drops
\* it through an adapter that removes nothing.
ReleaseCheck(p) ==
    /\ At(p, "releasing")
    /\ IF MayRelease(p)
       THEN /\ Goto(p, "unlinking")
            /\ registered' = registered \ {p}
            /\ UNCHANGED <<section, raced>>
       ELSE /\ Leave(p, "idle")
            /\ registered' = AfterRefusal(p)
            /\ raced' = raced \ {p}
    /\ UNCHANGED <<file, dir, old>>

\* The rmdir is by path.  release() refuses when the updater dropped the lock.
ReleaseRmdir(p) ==
    /\ At(p, "unlinking")
    /\ Leave(p, "idle")
    /\ IF compromised[p]
       THEN dir' = dir /\ raced' = raced \ {p}
       ELSE dir' = None /\ raced' = RacedByRemoval(p) \ {p}
    /\ UNCHANGED <<file, old, registered>>

\* Between these steps the event loop turns, and a process may be told to stop:
\* a synchronous section has no such place.
Stoppable(p) == \/ At(p, "idle")
                \/ p \in Asyncs /\ pc[p] \in {"waiting", "sawStale", "retry", "acquired", "read"}

\* The exit handler removes every registered lock, by path and unasked.
Exit(p) ==
    /\ Stoppable(p)
    /\ Leave(p, "dead")
    /\ registered' = registered \ {p}
    /\ IF p \in registered
       THEN dir' = None /\ raced' = RacedByRemoval(p) \ {p}
       ELSE dir' = dir /\ raced' = raced \ {p}
    /\ UNCHANGED <<file, old>>

\* The process is killed: the lock stays behind.
Crash(p) ==
    /\ ~ At(p, "dead")
    /\ Leave(p, "dead")
    /\ registered' = registered \ {p}
    /\ raced' = raced \ {p}
    /\ UNCHANGED <<file, dir, old>>

Restart(p) ==
    /\ At(p, "dead")
    /\ Goto(p, "idle")
    /\ UNCHANGED <<file, dir, old, section, registered, raced>>

-----------------------------------------------------------------------------

\* What a running process does by itself once a section has begun.
Run(p) == \/ Probe(p) \/ Acquire(p) \/ SeeStale(p) \/ TakeOver(p) \/ Retry(p)
          \/ Capture(p) \/ Read(p) \/ SkipCommit(p) \/ WriteTemp(p)
          \/ AssertOwnership(p) \/ Rename(p) \/ ReleaseCheck(p) \/ ReleaseRmdir(p)

Next == \/ \E p \in Procs :
             \/ MutateBegin(p) \/ ReadBegin(p) \/ Run(p)
             \/ GiveUp(p) \/ Touch(p) \/ Exit(p) \/ Crash(p) \/ Restart(p)
        \/ Age

Spec == Init /\ [][Next]_vars

\* Processes keep running unless they crash, and time passes.
FairSpec == Spec /\ WF_vars(Age) /\ \A p \in Procs : WF_vars(Run(p))

-----------------------------------------------------------------------------
(* Properties.                                                             *)

\* The ownership proof is exclusive: two processes can both prove that the
\* directory at the path is the one they acquired only if one of them was raced.
OneProvenOwner ==
    \A p, q \in Procs : StillOwns(p) /\ StillOwns(q) => p = q \/ {p, q} \intersect raced # {}

\* Whoever can prove ownership has read the file as it still is: after any
\* number of takeovers, the mutation it is about to publish loses nothing.
ProvenOwnerIsCurrent ==
    \A p \in Procs \ raced : pc[p] \in {"read", "wrote", "checked"} /\ StillOwns(p)
                              => base[p] = Content

\* An update is lost in no other way than through the fence's windows: every
\* change of seat.json by a section that was not raced is one mutation of the
\* current content, however long its process stood still, however often the lock
\* was taken over or removed by an exit, and whatever inode numbers come back.
AtomicCommits ==
    [][Content' # Content => \E p \in Procs : Rename(p) /\ (p \in raced \/ A!Mutate(p))]_vars

InSection == {"acquired", "owned", "read", "wrote", "checked", "releasing", "unlinking"}

\* A lock that a successor made is removed by the release of a section that was
\* raced, or by a process that is stopped in the middle of its own section: never
\* by any other release, and never by the exit of a process that is done.
RemovalSparesSuccessors ==
    [][\A p \in Procs : dir # None /\ dir' = None /\ dir.by # p =>
           /\ ReleaseRmdir(p) => p \in raced
           /\ Exit(p) => pc[p] \in InSection]_vars

\* A section that could open its handle leaves no lock of its own behind, which
\* would keep everybody else waiting until it is stale.
LocksAreReturned ==
    [][\A p \in Procs : pc[p] \in InSection /\ pc'[p] = "idle" /\ own[p] # None /\ dir' # None
                         => dir'.by # p]_vars

\* A lock left by a crash blocks nobody for good: whoever waits for the lock
\* stops waiting or sees it gone.
Wanting(p) == pc[p] \in {"waiting", "sawStale", "retry"}
LockNeverStuck == \A p \in Procs : Wanting(p) ~> (~ Wanting(p) \/ dir = None)

=============================================================================
