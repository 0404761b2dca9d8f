-------------------------- MODULE StoreLockProofs ---------------------------
(***************************************************************************)
(* What the fence around seat.json guarantees, for any number of           *)
(* processes, crashes, takeovers, exits and recycled inode numbers.        *)
(* Nothing is assumed of the fence's windows: any removal may fall into    *)
(* them, and the results say that a section must have been raced there     *)
(* before it can lose an update or remove a successor's lock.              *)
(***************************************************************************)
EXTENDS StoreLock, TLAPS

\* Two processes hold the same inode open only if one of them was raced.
HandlesDistinct ==
    \A p, q \in Procs : own[p] # None /\ own[p] = own[q] => p = q \/ {p, q} \intersect raced # {}

\* The directory a process has just made is still the one at the path, and
\* nobody holds it open yet.
FreshLock == \A p \in Procs \ raced : pc[p] = "acquired" =>
                 /\ dir # None
                 /\ dir.by = p
                 /\ \A q \in Procs \ raced : own[q] # dir.ino

\* A process about to rename still owns the lock.
CheckedOwns == \A p \in Procs \ raced : pc[p] = "checked" => StillOwns(p)

\* A process about to remove its lock still owns it.
UnlinkingOwns == \A p \in Procs \ raced : pc[p] = "unlinking" => StillOwns(p)

\* The fence compares inode numbers, which are recycled: equal numbers do mean
\* that the directory at the path is the one the process made.
ProofIsGenuine == \A p \in Procs \ raced : StillOwns(p) => dir.by = p

\* What holds of the sections that were not raced.  HandlesDistinct makes the
\* ownership proof exclusive, FreshLock is what Capture needs to preserve it, and
\* CheckedOwns and UnlinkingOwns carry the proof across the windows that follow.
FenceInv == /\ HandlesDistinct /\ FreshLock
            /\ CheckedOwns /\ ProvenOwnerIsCurrent
            /\ UnlinkingOwns /\ ProofIsGenuine

\* Outside a section nothing is held, reported or registered; inside one, the
\* registration goes before the rmdir, the own lock is the one held open, and a
\* lock reported compromised is lost.  This is true of raced sections as well.
Tidy(p) == /\ pc[p] \notin InSection => /\ own[p] = None
                                        /\ ~ compromised[p]
                                        /\ p \notin registered
           /\ pc[p] = "unlinking" => p \notin registered
           /\ pc[p] = "acquired" => own[p] = None
           /\ own[p] # None /\ dir # None /\ dir.by = p => dir.ino = own[p]
           /\ compromised[p] => dir = None \/ dir.by # p

SectionInv == \A p \in Procs : Tidy(p)

\* The inductive invariant.
IInv == TypeOK /\ FenceInv /\ SectionInv

-----------------------------------------------------------------------------

LEMMA NoneApart == /\ None \notin Inodes
                   /\ \A i \in Inodes, p \in Procs : [ino |-> i, by |-> p] # None
                   /\ \A c \in SUBSET Procs : None # c
<1>1. \A i \in Inodes, p \in Procs : [ino |-> i, by |-> p] \in [ino : Inodes, by : Procs]
  OBVIOUS
<1> QED BY <1>1, LockAssumption

LEMMA ContentTyped == TypeOK => Content \in SUBSET Procs
<1> SUFFICES ASSUME TypeOK PROVE Content \in SUBSET Procs
  OBVIOUS
<1>1. CASE file = None
  <2>1. Content = {}
    BY <1>1 DEF Content
  <2> QED BY <2>1
<1>2. CASE file # None
  BY <1>2 DEF Content, TypeOK
<1> QED BY <1>1, <1>2

\* Only the owner of a handle proves ownership.
LEMMA OwnerUnique == HandlesDistinct => OneProvenOwner
BY DEF HandlesDistinct, OneProvenOwner, StillOwns

\* A removal never forgets that a section was raced.
LEMMA RacedGrows == \A p \in Procs : raced \subseteq RacedByRemoval(p)
BY DEF RacedByRemoval

LEMMA RacedTyped == TypeOK => \A p \in Procs : RacedByRemoval(p) \subseteq Procs
BY DEF TypeOK, RacedByRemoval

-----------------------------------------------------------------------------
(* Types.                                                                  *)

LEMMA InitTyped == Init => TypeOK
<1>1. [p \in Procs |-> {}] \in [Procs -> SUBSET Procs]
  OBVIOUS
<1>2. [p \in Procs |-> None] \in [Procs -> Inodes \union {None}]
  OBVIOUS
<1>3. [p \in Procs |-> "idle"] \in [Procs -> Pcs]
  BY DEF Pcs
<1> QED BY <1>1, <1>2, <1>3 DEF Init, TypeOK

\* Leaving a section keeps every variable typed.
LEMMA LeaveTyped ==
    ASSUME TypeOK, NEW p \in Procs, NEW there \in Pcs, Leave(p, there)
    PROVE  /\ pc' = [pc EXCEPT ![p] = there] /\ own' = [own EXCEPT ![p] = None]
           /\ base' = [base EXCEPT ![p] = {}] /\ compromised' = [compromised EXCEPT ![p] = FALSE]
           /\ pc' \in [Procs -> Pcs]
           /\ commits' \in [Procs -> BOOLEAN]
           /\ own' \in [Procs -> Inodes \union {None}]
           /\ base' \in [Procs -> SUBSET Procs]
           /\ compromised' \in [Procs -> BOOLEAN]
<1>1. base' \in [Procs -> SUBSET Procs]
  <2>1. {} \in SUBSET Procs
    OBVIOUS
  <2> QED BY <2>1 DEF TypeOK, Leave
<1> QED BY <1>1 DEF TypeOK, Leave, Goto

LEMMA MkdirTyped ==
    ASSUME TypeOK, NEW p \in Procs, Mkdir(p)
    PROVE  TypeOK'
<1>1. PICK i \in FreeInodes : dir' = [ino |-> i, by |-> p]
  BY DEF Mkdir
<1>2. dir' \in Dirs
  BY <1>1 DEF FreeInodes, Dirs
<1>3. UNCHANGED <<file, commits, own, base, compromised, raced>>
  BY DEF Mkdir, section
<1> QED BY <1>2, <1>3 DEF TypeOK, Pcs, Mkdir, Goto

\* The four ways out of a section, seen from the outside.
LEMMA LeavingShape ==
    ASSUME TypeOK, NEW p \in Procs,
           \/ ReleaseCheck(p) /\ ~ MayRelease(p)
           \/ ReleaseRmdir(p) \/ Exit(p) \/ Crash(p)
    PROVE  /\ UNCHANGED <<file, old>>
           /\ registered' \in {registered, registered \ {p}}
           /\ \/ dir' = dir /\ raced' = raced \ {p}
              \/ dir' = None /\ raced' = RacedByRemoval(p) \ {p}
           /\ \E there \in {"idle", "dead"} : Leave(p, there)
BY DEF ReleaseCheck, AfterRefusal, ReleaseRmdir, Exit, Crash

LEMMA LeavingTyped ==
    ASSUME TypeOK, NEW p \in Procs,
           \/ ReleaseCheck(p) /\ ~ MayRelease(p)
           \/ ReleaseRmdir(p) \/ Exit(p) \/ Crash(p)
    PROVE  TypeOK'
<1>1. PICK there \in {"idle", "dead"} : Leave(p, there)
  BY LeavingShape
<1>2. there \in Pcs
  BY DEF Pcs
<1>3. raced' \subseteq Procs /\ dir' \in {dir, None} /\ UNCHANGED <<file, old>>
  BY LeavingShape, RacedTyped DEF TypeOK
<1>4. registered' \subseteq Procs
  BY LeavingShape DEF TypeOK
<1> QED BY <1>1, <1>2, <1>3, <1>4, LeaveTyped DEF TypeOK

\* The steps inside a section.
LEMMA SectionTyped ==
    ASSUME TypeOK, NEW p \in Procs,
           \/ Capture(p) \/ Read(p) \/ WriteTemp(p) \/ AssertOwnership(p) \/ Rename(p)
           \/ ReleaseCheck(p) /\ MayRelease(p)
    PROVE  TypeOK'
<1>1. CASE Capture(p)
  BY <1>1 DEF TypeOK, Dirs, Pcs, Capture, Goto
<1>2. CASE Read(p)
  <2>1. base' \in [Procs -> SUBSET Procs]
    BY <1>2, ContentTyped DEF TypeOK, Read
  <2> QED BY <1>2, <2>1 DEF TypeOK, Pcs, Read, Goto
<1>3. CASE WriteTemp(p) \/ AssertOwnership(p)
  BY <1>3 DEF TypeOK, Pcs, WriteTemp, AssertOwnership, Goto, section
<1>4. CASE Rename(p)
  <2>1. file' \in SUBSET Procs
    BY <1>4 DEF TypeOK, Rename, A!Toggled
  <2>2. raced' \subseteq Procs
    BY <1>4 DEF TypeOK, Rename
  <2> QED BY <1>4, <2>1, <2>2 DEF TypeOK, Pcs, Rename, Goto, section
<1>5. CASE ReleaseCheck(p) /\ MayRelease(p)
  BY <1>5 DEF TypeOK, Pcs, ReleaseCheck, Goto, section
<1> QED BY <1>1, <1>2, <1>3, <1>4, <1>5

\* The steps that only move a process along outside its section, or out of it.
LEMMA OutsideStep ==
    ASSUME TypeOK, NEW p \in Procs,
           \/ MutateBegin(p) \/ ReadBegin(p) \/ Probe(p) \/ SeeStale(p) \/ GiveUp(p)
           \/ SkipCommit(p) \/ Restart(p)
           \/ Retry(p) /\ ~ Mkdir(p)
    PROVE  /\ TypeOK'
           /\ UNCHANGED <<file, dir, own, base, compromised, registered, raced>>
           /\ \E there \in {"waiting", "probeFile", "probeLock", "probeAgain", "idle",
                             "sawStale", "releasing"} :
                  /\ pc' = [pc EXCEPT ![p] = there]
                  /\ pc[p] \in InSection <=> there \in InSection
<1>1. PICK there \in {"waiting", "probeFile", "probeLock", "probeAgain", "idle", "sawStale",
                      "releasing"} :
         Goto(p, there) /\ (pc[p] \in InSection <=> there \in InSection)
  BY DEF MutateBegin, ReadBegin, Probe, SeeStale, GiveUp, SkipCommit, Restart, Retry, InSection, At
<1>2. UNCHANGED <<file, dir, old, own, base, compromised, registered, raced>>
  BY DEF MutateBegin, ReadBegin, Probe, SeeStale, GiveUp, SkipCommit, Restart, Retry, section
<1>3. commits' \in [Procs -> BOOLEAN]
  BY DEF TypeOK, MutateBegin, ReadBegin, Probe, SeeStale, GiveUp, SkipCommit, Restart, Retry, section
<1>4. TypeOK'
  BY <1>1, <1>2, <1>3 DEF TypeOK, Pcs, Goto
<1> QED BY <1>1, <1>2, <1>4 DEF Goto

LEMMA TakeOverTyped ==
    ASSUME TypeOK, NEW p \in Procs, TakeOver(p)
    PROVE  TypeOK'
<1>1. raced' \subseteq Procs
  BY RacedTyped DEF TakeOver
<1> QED BY <1>1 DEF TypeOK, Pcs, TakeOver, Goto, section

LEMMA StepTyped ==
    ASSUME TypeOK, [Next]_vars
    PROVE  TypeOK'
<1>1. CASE UNCHANGED vars
  BY <1>1 DEF vars, TypeOK
<1>2. ASSUME NEW p \in Procs, Run(p) PROVE TypeOK'
  BY <1>2, TakeOverTyped, OutsideStep, MkdirTyped, SectionTyped, LeavingTyped DEF Run, Acquire
<1>3. ASSUME NEW p \in Procs,
             \/ MutateBegin(p) \/ ReadBegin(p) \/ GiveUp(p) \/ Restart(p)
             \/ Exit(p) \/ Crash(p)
      PROVE  TypeOK'
  BY <1>3, OutsideStep, LeavingTyped
<1>4. ASSUME NEW p \in Procs, Touch(p) PROVE TypeOK'
  BY <1>4 DEF TypeOK, Touch
<1>5. CASE Age
  BY <1>5 DEF TypeOK, Age, section
<1> QED BY <1>1, <1>2, <1>3, <1>4, <1>5 DEF Next

-----------------------------------------------------------------------------
(* The fence, by the shape of the step.                                    *)

\* A step of p leaves every other process where it is.
OthersStand(p) == \A q \in Procs \ {p} :
    /\ pc'[q] = pc[q]
    /\ own'[q] = own[q]
    /\ base'[q] = base[q]

\* p claims nothing after the step.
ClaimsNothing(p) == pc'[p] \notin {"acquired", "read", "wrote", "checked", "unlinking"}

\* A step of p that leaves the file and the directory entry alone, takes no new
\* handle, and moves p, if anywhere, to a place where nothing is claimed of it.
LEMMA QuietStep ==
    ASSUME TypeOK, FenceInv, TypeOK', NEW p \in Procs, UNCHANGED <<file, dir>>, OthersStand(p),
           \/ own'[p] = own[p] /\ raced' = raced
           \/ own'[p] = None /\ raced' \in {raced, raced \ {p}},
           UNCHANGED <<pc, own, base, raced>> \/ ClaimsNothing(p)
    PROVE  FenceInv'
<1>1. HandlesDistinct'
  BY DEF FenceInv, HandlesDistinct, OthersStand
<1>2. FreshLock'
  BY NoneApart DEF FenceInv, TypeOK, Dirs, FreshLock, OthersStand, ClaimsNothing
<1>3. CheckedOwns' /\ UnlinkingOwns' /\ ProofIsGenuine'
  BY DEF FenceInv, CheckedOwns, UnlinkingOwns, ProofIsGenuine, StillOwns, OthersStand, ClaimsNothing
<1>4. ProvenOwnerIsCurrent'
  BY DEF FenceInv, ProvenOwnerIsCurrent, StillOwns, Content, OthersStand, ClaimsNothing
<1> QED BY <1>1, <1>2, <1>3, <1>4 DEF FenceInv

\* Removing what is at the path: whoever stands in a window is raced, unless
\* there was nothing to remove and it had lost the lock before.
LEMMA RemoveStep ==
    ASSUME TypeOK, FenceInv, TypeOK', NEW p \in Procs, UNCHANGED file, dir' = None,
           OthersStand(p), ClaimsNothing(p),
           \/ own'[p] = own[p] /\ raced' = RacedByRemoval(p)
           \/ own'[p] = None /\ raced' = RacedByRemoval(p) \ {p}
    PROVE  FenceInv'
<1>1. raced \ {p} \subseteq raced' \ {p}
  BY RacedGrows
<1>2. \A q \in Procs \ raced' : q # p => q \notin raced /\ (dir = None \/ pc[q] \notin Windows)
  BY <1>1 DEF RacedByRemoval
<1>3. HandlesDistinct'
  BY <1>1, RacedGrows DEF FenceInv, HandlesDistinct, OthersStand
<1>4. FreshLock'
  BY <1>2 DEF FenceInv, FreshLock, Windows, OthersStand, ClaimsNothing
<1>5. CheckedOwns' /\ UnlinkingOwns'
  BY <1>2 DEF FenceInv, CheckedOwns, UnlinkingOwns, StillOwns, Windows, OthersStand, ClaimsNothing
<1>6. ProvenOwnerIsCurrent' /\ ProofIsGenuine'
  BY DEF ProvenOwnerIsCurrent, ProofIsGenuine, StillOwns
<1> QED BY <1>3, <1>4, <1>5, <1>6 DEF FenceInv

\* A successful mkdir hands out an inode nobody holds.
LEMMA MkdirStep ==
    ASSUME TypeOK, FenceInv, NEW p \in Procs, Mkdir(p)
    PROVE  FenceInv'
<1>1. PICK i \in FreeInodes : dir' = [ino |-> i, by |-> p]
  BY DEF Mkdir
<1>2. /\ dir = None /\ dir' # None /\ dir'.ino = i /\ dir'.by = p
      /\ i \in Inodes /\ i # None
      /\ \A q \in Procs : own[q] # i
  <2>1. i \in Inodes /\ i # None /\ \A q \in Procs : own[q] # i
    BY NoneApart DEF FreeInodes
  <2>2. dir = None /\ dir' = [ino |-> i, by |-> p]
    BY <1>1 DEF Mkdir
  <2>3. dir' # None
    BY <2>1, <2>2, NoneApart
  <2> QED BY <2>1, <2>2, <2>3
<1>3. UNCHANGED <<own, base, raced>>
  BY DEF Mkdir, section
<1>4. \A q \in Procs : ~ StillOwns(q) /\ ~ StillOwns(q)'
  BY <1>2, <1>3 DEF StillOwns
<1>5. pc'[p] = "acquired" /\ \A q \in Procs \ {p} : pc'[q] = pc[q]
  BY DEF TypeOK, Mkdir, Goto
<1>6. HandlesDistinct'
  BY <1>3 DEF FenceInv, HandlesDistinct
<1>7. FreshLock'
  BY <1>2, <1>3, <1>5 DEF FenceInv, FreshLock
<1>8. CheckedOwns' /\ UnlinkingOwns' /\ ProvenOwnerIsCurrent' /\ ProofIsGenuine'
  BY <1>3, <1>4, <1>5 DEF FenceInv, CheckedOwns, UnlinkingOwns, ProvenOwnerIsCurrent, ProofIsGenuine
<1> QED BY <1>6, <1>7, <1>8 DEF FenceInv

\* Opening the handle: a section that was not raced opens the directory it made.
LEMMA CaptureStep ==
    ASSUME TypeOK, FenceInv, TypeOK', NEW p \in Procs, Capture(p)
    PROVE  FenceInv'
<1>0. UNCHANGED <<file, dir, base, raced>> /\ pc[p] = "acquired" /\ OthersStand(p) /\ ClaimsNothing(p)
  BY DEF TypeOK, Capture, At, Goto, OthersStand, ClaimsNothing
<1>1. CASE own' = own
  BY <1>0, <1>1, QuietStep
<1>2. CASE dir # None /\ own' = [own EXCEPT ![p] = dir.ino]
  <2>1. own'[p] = dir.ino
    BY <1>2 DEF TypeOK
  <2>2. p \notin raced => dir.by = p /\ \A q \in Procs \ raced : own[q] # dir.ino
    BY <1>0 DEF FenceInv, FreshLock
  <2>3. HandlesDistinct'
    BY <1>0, <2>1, <2>2 DEF FenceInv, HandlesDistinct, OthersStand
  <2>4. FreshLock'
    BY <1>0, <2>1 DEF FenceInv, FreshLock, OthersStand, ClaimsNothing
  <2>5. CheckedOwns' /\ UnlinkingOwns' /\ ProofIsGenuine'
    BY <1>0, <2>1, <2>2 DEF FenceInv, CheckedOwns, UnlinkingOwns, ProofIsGenuine, StillOwns,
       OthersStand, ClaimsNothing
  <2>6. ProvenOwnerIsCurrent'
    BY <1>0 DEF FenceInv, ProvenOwnerIsCurrent, StillOwns, Content, OthersStand, ClaimsNothing
  <2> QED BY <2>3, <2>4, <2>5, <2>6 DEF FenceInv
<1> QED BY <1>1, <1>2 DEF Capture

\* The steps of a section that leave the file, the directory and the handles
\* alone: reading, writing the temporary file, and the two ownership checks.
LEMMA InsideStep ==
    ASSUME TypeOK, FenceInv, NEW p \in Procs,
           \/ Read(p) \/ WriteTemp(p) \/ AssertOwnership(p)
           \/ ReleaseCheck(p) /\ MayRelease(p)
    PROVE  FenceInv'
<1>1. UNCHANGED <<file, dir, own, raced>>
  BY DEF Read, WriteTemp, AssertOwnership, ReleaseCheck, section
<1>2. HandlesDistinct'
  BY <1>1 DEF FenceInv, HandlesDistinct
<1>3. FreshLock'
  BY <1>1 DEF FenceInv, TypeOK, FreshLock, Read, WriteTemp, AssertOwnership, ReleaseCheck, Goto
<1>4. CheckedOwns'
  BY <1>1 DEF FenceInv, TypeOK, CheckedOwns, StillOwns, FencePasses, Read, WriteTemp,
              AssertOwnership, ReleaseCheck, Goto
<1>5. ProvenOwnerIsCurrent'
  BY <1>1 DEF FenceInv, TypeOK, ProvenOwnerIsCurrent, StillOwns, Content, Read, WriteTemp,
              AssertOwnership, ReleaseCheck, At, Goto, section
<1>6. UnlinkingOwns' /\ ProofIsGenuine'
  BY <1>1 DEF FenceInv, TypeOK, ProofIsGenuine, UnlinkingOwns, StillOwns, MayRelease,
              Read, WriteTemp, AssertOwnership, ReleaseCheck, Goto
<1> QED BY <1>2, <1>3, <1>4, <1>5, <1>6 DEF FenceInv

\* The commit of a section that was not raced: the writer owns the lock, so what
\* it read is what it replaces.
LEMMA RenameCurrent ==
    ASSUME TypeOK, FenceInv, NEW p \in Procs \ raced, Rename(p)
    PROVE  /\ StillOwns(p)
           /\ Content' = A!Toggled(Content, p)
<1>1. StillOwns(p) /\ base[p] = Content
  BY DEF FenceInv, CheckedOwns, ProvenOwnerIsCurrent, Rename, At
<1>2. file' = A!Toggled(Content, p)
  BY <1>1 DEF Rename
<1>3. A!Toggled(Content, p) \in SUBSET Procs
  BY ContentTyped DEF A!Toggled
<1>4. Content' = file'
  BY <1>2, <1>3, NoneApart DEF Content
<1> QED BY <1>1, <1>2, <1>3, <1>4

LEMMA RenameStep ==
    ASSUME TypeOK, FenceInv, NEW p \in Procs, Rename(p)
    PROVE  FenceInv'
<1>0. /\ UNCHANGED <<dir, own, base>> /\ raced \subseteq raced'
      /\ pc' = [pc EXCEPT ![p] = "releasing"]
  BY DEF Rename, section, Goto
<1>1. HandlesDistinct' /\ FreshLock'
  BY <1>0 DEF FenceInv, TypeOK, HandlesDistinct, FreshLock
<1>2. CheckedOwns' /\ UnlinkingOwns' /\ ProofIsGenuine'
  BY <1>0 DEF FenceInv, TypeOK, CheckedOwns, UnlinkingOwns, ProofIsGenuine, StillOwns
<1>3. ProvenOwnerIsCurrent'
  <2>1. CASE p \in raced
    <3>1. \A q \in Procs : StillOwns(q) => q \in raced'
      BY <2>1 DEF Rename
    <3> QED BY <1>0, <3>1 DEF ProvenOwnerIsCurrent, StillOwns
  <2>2. CASE p \notin raced
    <3>1. \A q \in Procs \ (raced \union {p}) : ~ StillOwns(q)
      BY <2>2, RenameCurrent, OwnerUnique DEF FenceInv, OneProvenOwner
    <3>2. raced' = raced
      BY <2>2 DEF Rename
    <3> QED BY <1>0, <3>1, <3>2 DEF TypeOK, ProvenOwnerIsCurrent, StillOwns
  <2> QED BY <2>1, <2>2
<1> QED BY <1>1, <1>2, <1>3 DEF FenceInv

\* Taking over, and the four ways out of a section.
LEMMA RemovingStep ==
    ASSUME TypeOK, FenceInv, TypeOK', NEW p \in Procs,
           \/ TakeOver(p)
           \/ ReleaseCheck(p) /\ ~ MayRelease(p)
           \/ ReleaseRmdir(p) \/ Exit(p) \/ Crash(p)
    PROVE  FenceInv'
<1>1. CASE TakeOver(p)
  <2>1. OthersStand(p) /\ ClaimsNothing(p) /\ own' = own
    BY <1>1 DEF TypeOK, TakeOver, Goto, section, OthersStand, ClaimsNothing
  <2> QED BY <1>1, <2>1, RemoveStep DEF TakeOver
<1>2. CASE ~ TakeOver(p)
  <2>1. PICK there \in {"idle", "dead"} : Leave(p, there)
    BY <1>2, LeavingShape
  <2>2. there \in Pcs
    BY DEF Pcs
  <2>3. OthersStand(p) /\ ClaimsNothing(p) /\ own'[p] = None
    BY <2>1, <2>2, LeaveTyped DEF TypeOK, OthersStand, ClaimsNothing
  <2>4. CASE dir' = dir /\ raced' = raced \ {p}
    BY <1>2, <2>3, <2>4, LeavingShape, QuietStep
  <2>5. CASE dir' = None /\ raced' = RacedByRemoval(p) \ {p}
    BY <1>2, <2>3, <2>5, LeavingShape, RemoveStep
  <2> QED BY <1>2, <2>4, <2>5, LeavingShape
<1> QED BY <1>1, <1>2

LEMMA FenceHolds ==
    ASSUME TypeOK, FenceInv, [Next]_vars
    PROVE  FenceInv'
<1>0. TypeOK'
  BY StepTyped
<1>1. ASSUME UNCHANGED <<file, dir, pc, own, base, raced>> PROVE FenceInv'
  BY <1>1 DEF FenceInv, HandlesDistinct, FreshLock, CheckedOwns, ProvenOwnerIsCurrent,
              UnlinkingOwns, ProofIsGenuine, StillOwns, Content
<1>2. ASSUME NEW p \in Procs, NEW there \in {"waiting", "probeFile", "probeLock",
             "probeAgain", "idle", "sawStale", "releasing"},
             UNCHANGED <<file, dir, own, base, raced>>, pc' = [pc EXCEPT ![p] = there]
      PROVE  FenceInv'
  BY <1>0, <1>2, QuietStep DEF TypeOK, OthersStand, ClaimsNothing
<1>3. ASSUME NEW p \in Procs, Run(p) PROVE FenceInv'
  BY <1>0, <1>2, <1>3, OutsideStep, MkdirStep, RemovingStep, CaptureStep, InsideStep, RenameStep
  DEF Run, Acquire
<1>4. ASSUME NEW p \in Procs,
             \/ MutateBegin(p) \/ ReadBegin(p) \/ GiveUp(p) \/ Restart(p)
             \/ Exit(p) \/ Crash(p)
      PROVE  FenceInv'
  BY <1>0, <1>2, <1>4, OutsideStep, RemovingStep
<1>5. ASSUME NEW p \in Procs, Touch(p) PROVE FenceInv'
  BY <1>1, <1>5 DEF Touch
<1>6. CASE Age \/ UNCHANGED vars
  BY <1>1, <1>6 DEF Age, vars, section
<1> QED BY <1>3, <1>4, <1>5, <1>6 DEF Next

-----------------------------------------------------------------------------
(* What a section leaves behind.                                           *)

\* A step of p changes the directory, if at all, by removing it or by making a
\* new one, and cannot make any other section untidy.
LEMMA TidyStep ==
    ASSUME SectionInv, NEW p \in Procs, OthersStand(p),
           \A q \in Procs \ {p} : /\ compromised'[q] = compromised[q]
                                  /\ q \in registered' => q \in registered,
           \/ dir' \in {dir, None}
           \/ dir' # None /\ dir'.by = p,
           Tidy(p)'
    PROVE  SectionInv'
BY DEF SectionInv, Tidy, OthersStand

\* Leaving a section leaves nothing of it.
LEMMA TidyLeaving ==
    ASSUME TypeOK, SectionInv, NEW p \in Procs,
           \/ ReleaseCheck(p) /\ ~ MayRelease(p)
           \/ ReleaseRmdir(p) \/ Exit(p) \/ Crash(p)
    PROVE  SectionInv'
<1>1. PICK there \in {"idle", "dead"} : Leave(p, there)
  BY LeavingShape
<1>2. there \in Pcs /\ there \notin InSection
  BY DEF Pcs, InSection
<1>3. /\ pc' = [pc EXCEPT ![p] = there] /\ own' = [own EXCEPT ![p] = None]
      /\ base' = [base EXCEPT ![p] = {}] /\ compromised' = [compromised EXCEPT ![p] = FALSE]
  BY <1>1, <1>2, LeaveTyped
<1>4. dir' \in {dir, None} /\ registered' \subseteq registered
  BY LeavingShape
<1>5. p \notin registered'
  BY DEF SectionInv, Tidy, ReleaseCheck, AfterRefusal, ReleaseRmdir, Exit, Crash, At
<1>6. OthersStand(p)
  BY <1>3 DEF TypeOK, OthersStand
<1>7. Tidy(p)'
  BY <1>2, <1>3, <1>5 DEF TypeOK, Tidy, InSection
<1> QED BY <1>3, <1>4, <1>6, <1>7, TidyStep DEF TypeOK

\* The steps inside a section.
LEMMA TidyInside ==
    ASSUME TypeOK, SectionInv, NEW p \in Procs,
           \/ Capture(p) \/ Read(p) \/ WriteTemp(p) \/ AssertOwnership(p) \/ Rename(p)
           \/ ReleaseCheck(p) /\ MayRelease(p)
    PROVE  SectionInv'
<1>1. /\ UNCHANGED <<dir, compromised>>
      /\ registered' \in {registered, registered \ {p}}
  BY DEF Capture, Read, WriteTemp, AssertOwnership, Rename, ReleaseCheck, section
<1>2. /\ pc[p] \in InSection
      /\ \E there \in {"owned", "read", "wrote", "checked", "releasing", "unlinking"} :
           pc' = [pc EXCEPT ![p] = there]
  BY DEF Capture, Read, WriteTemp, AssertOwnership, Rename, ReleaseCheck, InSection, At, Goto
<1>3. /\ pc'[p] \in {"owned", "read", "wrote", "checked", "releasing", "unlinking"}
      /\ \A q \in Procs \ {p} : pc'[q] = pc[q]
  BY <1>2 DEF TypeOK
<1>4. \/ UNCHANGED own
      \/ dir # None /\ own' = [own EXCEPT ![p] = dir.ino]
  BY DEF Capture, Read, WriteTemp, AssertOwnership, Rename, ReleaseCheck, section
<1>5. \A q \in Procs \ {p} : base'[q] = base[q]
  BY DEF TypeOK, Capture, Read, WriteTemp, AssertOwnership, Rename, ReleaseCheck, section
<1>6. OthersStand(p)
  BY <1>3, <1>4, <1>5 DEF TypeOK, OthersStand
<1>7. pc'[p] = "unlinking" => p \notin registered'
  BY <1>3 DEF TypeOK, Capture, Read, WriteTemp, AssertOwnership, Rename, ReleaseCheck, Goto
<1>10. Tidy(p)'
  BY <1>1, <1>2, <1>3, <1>4, <1>7 DEF TypeOK, SectionInv, Tidy, InSection
<1>8. \A q \in Procs \ {p} : /\ compromised'[q] = compromised[q]
                             /\ q \in registered' => q \in registered
  BY <1>1
<1>9. dir' \in {dir, None}
  BY <1>1
<1> QED BY <1>6, <1>8, <1>9, <1>10, TidyStep

LEMMA TidyMkdir ==
    ASSUME TypeOK, SectionInv, NEW p \in Procs, Mkdir(p), pc[p] \notin InSection
    PROVE  SectionInv'
<1>1. PICK i \in FreeInodes : dir' = [ino |-> i, by |-> p]
  BY DEF Mkdir
<1>2. dir' # None /\ dir'.by = p
  BY <1>1, NoneApart DEF FreeInodes
<1>3. /\ UNCHANGED <<own, base, compromised>> /\ registered' = registered \union {p}
      /\ pc' = [pc EXCEPT ![p] = "acquired"]
  BY DEF Mkdir, section, Goto
<1>4. OthersStand(p)
  BY <1>3 DEF TypeOK, OthersStand
<1>5. Tidy(p)'
  BY <1>3 DEF TypeOK, SectionInv, Tidy, InSection
<1> QED BY <1>2, <1>3, <1>4, <1>5, TidyStep

LEMMA TidyTouch ==
    ASSUME TypeOK, SectionInv, NEW p \in Procs, Touch(p)
    PROVE  SectionInv'
<1>1. UNCHANGED <<dir, pc, own, base>> /\ pc[p] \in InSection
  BY DEF Touch, At, InSection
<1>2. OthersStand(p)
  BY <1>1 DEF OthersStand
<1>3. \A q \in Procs \ {p} : /\ compromised'[q] = compromised[q]
                             /\ q \in registered' => q \in registered
  BY DEF TypeOK, Touch
<1>4. Tidy(p)'
  BY <1>1 DEF TypeOK, SectionInv, Tidy, Touch
<1> QED BY <1>1, <1>2, <1>3, <1>4, TidyStep

LEMMA SectionsTidy ==
    ASSUME TypeOK, SectionInv, [Next]_vars
    PROVE  SectionInv'
<1>1. ASSUME UNCHANGED <<dir, pc, own, compromised, registered>> PROVE SectionInv'
  BY <1>1 DEF SectionInv, Tidy
<1>2. ASSUME NEW p \in Procs,
             \/ MutateBegin(p) \/ ReadBegin(p) \/ Probe(p) \/ SeeStale(p) \/ GiveUp(p)
             \/ SkipCommit(p) \/ Restart(p)
             \/ Retry(p) /\ ~ Mkdir(p)
      PROVE  SectionInv'
  <2>1. PICK there \in {"waiting", "probeFile", "probeLock", "probeAgain", "idle", "sawStale",
                        "releasing"} :
           pc' = [pc EXCEPT ![p] = there] /\ (pc[p] \in InSection <=> there \in InSection)
    BY <1>2, OutsideStep
  <2>2. UNCHANGED <<dir, own, base, compromised, registered>>
    BY <1>2, OutsideStep
  <2> QED BY <2>1, <2>2 DEF TypeOK, SectionInv, Tidy
<1>3. ASSUME NEW p \in Procs, TakeOver(p) PROVE SectionInv'
  BY <1>3 DEF TypeOK, SectionInv, Tidy, InSection, TakeOver, At, Goto, section
<1>4. ASSUME NEW p \in Procs, Run(p) PROVE SectionInv'
  <2>1. CASE Acquire(p)
    BY <2>1, TidyMkdir DEF Acquire, At, InSection
  <2>2. CASE Retry(p)
    <3>1. pc[p] \notin InSection
      BY <2>2 DEF Retry, At, InSection
    <3> QED BY <1>2, <2>2, <3>1, TidyMkdir
  <2>4. CASE \/ Probe(p) \/ SeeStale(p) \/ SkipCommit(p) \/ TakeOver(p)
    BY <1>2, <1>3, <2>4
  <2>3. CASE \/ Capture(p) \/ Read(p) \/ WriteTemp(p) \/ AssertOwnership(p) \/ Rename(p)
             \/ ReleaseCheck(p) \/ ReleaseRmdir(p)
    BY <2>3, TidyInside, TidyLeaving
  <2> QED BY <1>4, <2>1, <2>2, <2>3, <2>4 DEF Run
<1>5. CASE Age \/ UNCHANGED vars
  BY <1>1, <1>5 DEF Age, vars, section
<1> QED BY <1>2, <1>4, <1>5, TidyLeaving, TidyTouch DEF Next

-----------------------------------------------------------------------------
(* The theorems.                                                           *)

\* Every reachable state of the lock is typed.
THEOREM LockTypeCorrect == Spec => []TypeOK
BY InitTyped, StepTyped, PTL DEF Spec

\* The fence holds for every section that was not raced, and every section is
\* tidy.
THEOREM Invariance == Spec => []IInv
<1>1. Init => IInv
  BY InitTyped DEF Init, IInv, FenceInv, HandlesDistinct, FreshLock, CheckedOwns, UnlinkingOwns,
     ProofIsGenuine, ProvenOwnerIsCurrent, StillOwns, SectionInv, Tidy
<1>2. IInv /\ [Next]_vars => IInv'
  BY StepTyped, FenceHolds, SectionsTidy DEF IInv
<1> QED BY <1>1, <1>2, PTL DEF Spec

\* Two processes that can both prove that they own the lock: one was raced.
THEOREM OwnershipExclusive == Spec => []OneProvenOwner
<1>1. IInv => OneProvenOwner
  BY OwnerUnique DEF IInv, FenceInv
<1> QED BY <1>1, Invariance, PTL

\* A process that can prove ownership and was not raced has read the content it
\* will replace.
THEOREM OwnerAlwaysCurrent == Spec => []ProvenOwnerIsCurrent
<1>1. IInv => ProvenOwnerIsCurrent
  BY DEF IInv, FenceInv
<1> QED BY <1>1, Invariance, PTL

\* seat.json changes by commits alone.
LEMMA OnlyRenameWrites ==
    ASSUME [Next]_vars
    PROVE  (\E p \in Procs : Rename(p)) \/ UNCHANGED file
BY DEF Next, vars, Run, MutateBegin, ReadBegin, Probe, Acquire, Mkdir, SeeStale, TakeOver,
       Retry, GiveUp, Touch, Age, Capture, Read, SkipCommit, WriteTemp, AssertOwnership,
       ReleaseCheck, ReleaseRmdir, Exit, Crash, Restart

\* An update is lost only by a section that was raced in one of the windows.
THEOREM UpdatesLostOnlyByRaces == Spec => AtomicCommits
<1>1. ASSUME IInv, [Next]_vars, Content' # Content
      PROVE  \E p \in Procs : Rename(p) /\ (p \in raced \/ A!Mutate(p))
  <2>1. PICK p \in Procs : Rename(p)
    BY <1>1, OnlyRenameWrites DEF Content
  <2>2. p \notin raced => A!Mutate(p)
    BY <1>1, <2>1, RenameCurrent DEF IInv, A!Mutate
  <2> QED BY <2>1, <2>2
<1>2. IInv /\ [Next]_vars =>
        [Content' # Content => \E p \in Procs : Rename(p) /\ (p \in raced \/ A!Mutate(p))]_vars
  BY <1>1
<1> QED BY <1>2, Invariance, PTL DEF Spec, AtomicCommits

\* A release removes a successor's lock only when its section was raced, and an
\* exit only from the middle of a section, however inode numbers are recycled.
THEOREM SuccessorsKeepTheirLock == Spec => RemovalSparesSuccessors
<1>1. ASSUME IInv, NEW p \in Procs, dir # None, dir' = None, dir.by # p
      PROVE  /\ ReleaseRmdir(p) => p \in raced
             /\ Exit(p) => pc[p] \in InSection
  <2>1. ReleaseRmdir(p) => p \in raced
    BY <1>1 DEF IInv, FenceInv, UnlinkingOwns, ProofIsGenuine, ReleaseRmdir, At
  <2>2. Exit(p) => pc[p] \in InSection
    BY <1>1 DEF IInv, SectionInv, Tidy, Exit
  <2> QED BY <2>1, <2>2
<1>2. IInv /\ [Next]_vars =>
        [\A p \in Procs : dir # None /\ dir' = None /\ dir.by # p =>
           /\ ReleaseRmdir(p) => p \in raced
           /\ Exit(p) => pc[p] \in InSection]_vars
  BY <1>1
<1> QED BY <1>2, Invariance, PTL DEF Spec, RemovalSparesSuccessors

\* The two ways a section comes to an end while its process lives on.
LEMMA SectionEnds ==
    ASSUME TypeOK, [Next]_vars, NEW p \in Procs, pc[p] \in InSection, pc'[p] = "idle"
    PROVE  (ReleaseCheck(p) /\ ~ MayRelease(p)) \/ ReleaseRmdir(p)
<1>1. ASSUME NEW q \in Procs, Run(q)
      PROVE  (ReleaseCheck(p) /\ ~ MayRelease(p)) \/ ReleaseRmdir(p)
  <2>1. CASE q = p
    BY <1>1, <2>1 DEF TypeOK, Run, Probe, Acquire, Mkdir, SeeStale, TakeOver, Retry,
       Capture, Read, SkipCommit, WriteTemp, AssertOwnership, Rename, ReleaseCheck,
       InSection, At, Goto
  <2>2. CASE q # p
    <3>1. pc'[p] = pc[p]
      BY <1>1, <2>2 DEF TypeOK, Run, Probe, Acquire, Mkdir, SeeStale, TakeOver, Retry,
         Capture, Read, SkipCommit, WriteTemp, AssertOwnership, Rename, ReleaseCheck,
         ReleaseRmdir, Leave, Goto
    <3> QED BY <3>1 DEF InSection
  <2> QED BY <2>1, <2>2
<1>2. ASSUME NEW q \in Procs,
             \/ MutateBegin(q) \/ ReadBegin(q) \/ GiveUp(q) \/ Touch(q)
             \/ Exit(q) \/ Crash(q) \/ Restart(q)
      PROVE  FALSE
  BY <1>2 DEF TypeOK, MutateBegin, ReadBegin, GiveUp, Touch, Exit, Crash,
     Restart, Leave, InSection, At, Goto
<1> QED BY <1>1, <1>2 DEF Next, Age, vars, InSection

\* A section that opened its handle takes its own lock away.
THEOREM LocksAlwaysReturned == Spec => LocksAreReturned
<1>1. ASSUME IInv, [Next]_vars, NEW p \in Procs, pc[p] \in InSection, pc'[p] = "idle",
             own[p] # None, dir' # None
      PROVE  dir'.by # p
  <2>1. CASE ReleaseRmdir(p)
    BY <1>1, <2>1 DEF IInv, SectionInv, Tidy, ReleaseRmdir
  <2>2. CASE ReleaseCheck(p) /\ ~ MayRelease(p)
    BY <1>1, <2>2 DEF IInv, SectionInv, Tidy, ReleaseCheck, MayRelease, StillOwns
  <2> QED BY <1>1, <2>1, <2>2, SectionEnds DEF IInv
<1>2. IInv /\ [Next]_vars =>
        [\A p \in Procs : pc[p] \in InSection /\ pc'[p] = "idle" /\ own[p] # None /\ dir' # None
                          => dir'.by # p]_vars
  BY <1>1
<1> QED BY <1>2, Invariance, PTL DEF Spec, LocksAreReturned

\* In a behaviour in which the fence is never raced, the lock protocol implements
\* the atomic store.
THEOREM UnracedLockIsAtomic == Spec /\ [](raced = {}) => A!Spec
<1>1. Init => A!Init
  BY DEF Init, A!Init, Content
<1>2. raced = {} /\ [Content' # Content => \E p \in Procs :
                        Rename(p) /\ (p \in raced \/ A!Mutate(p))]_vars => [A!Next]_Content
  <2>1. UNCHANGED vars => UNCHANGED Content
    BY DEF vars, Content
  <2> QED BY <2>1 DEF A!Next
<1> QED BY <1>1, <1>2, UpdatesLostOnlyByRaces, PTL DEF Spec, AtomicCommits, A!Spec

=============================================================================
