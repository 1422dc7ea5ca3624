----------------------------- MODULE ConfigLock -----------------------------
(***************************************************************************)
(* services/configLock.js: the lock file `config.lock` that serializes     *)
(* every writer of the WAF configuration across processes (API server,     *)
(* `catwaf` CLI, scheduled jobs).                                          *)
(*                                                                         *)
(* One step is one system call on the lock file: the O_EXCL open, the      *)
(* write of the token, each read of it, the stat, each unlink.  A process  *)
(* is one pid: a restarted program is another member of Procs.             *)
(*                                                                         *)
(* The file keeps who created it (its inode: a write through an open       *)
(* descriptor reaches the path only while the path still names that file), *)
(* whether the token {pid, id, at} has been written, and whether it is     *)
(* older than staleMs.  All of time is in Expire (60 s pass) and GiveUp   *)
(* (30 s pass).                                                            *)
(***************************************************************************)
EXTENDS Naturals, FiniteSets

CONSTANTS
    Procs,              \* process instances (pids) that ever use the lock
    NoFile,             \* the lock path names no file
    MaxCrashes,         \* bound: how many processes die
    MaxDepth,           \* bound: nesting of withConfigLock in one process
    HoldersCanWedge     \* may fn run for longer than staleMs?

ASSUME NoFileAssumption ==
    NoFile \notin [creator : Procs, token : BOOLEAN, stale : BOOLEAN]
ASSUME MaxCrashesAssumption == MaxCrashes \in Nat
ASSUME MaxDepthAssumption == MaxDepth \in Nat \ {0}
ASSUME HoldersCanWedgeAssumption == HoldersCanWedge \in BOOLEAN

VARIABLES
    lockFile,   \* the file at LOCK_PATH
    pc,         \* where each process is in withConfigLock
    depth,      \* re-entrancy depth of each process
    degraded    \* history: exclusion may have been lost (see Decide)

vars == <<lockFile, pc, depth, degraded>>

LockFiles == [creator : Procs, token : BOOLEAN, stale : BOOLEAN]

Labels == {"idle", "open", "write", "confirm", "inspect", "stat", "break",
           "reopen", "wait", "inside", "release", "unlink", "dead"}

TypeOK ==
    /\ lockFile \in LockFiles \cup {NoFile}
    /\ pc \in [Procs -> Labels]
    /\ depth \in [Procs -> 0..MaxDepth]
    /\ degraded \in BOOLEAN

-----------------------------------------------------------------------------
Alive(p) == pc[p] # "dead"

\* The labels at which a process relies on the file it created last.
Using == {"write", "confirm", "inside", "release", "unlink"}

\* The file at the path belongs to a process that still relies on it.
InUse(f) == pc[f.creator] \in Using

\* lockInfo() parses and names this process: same pid, same random id.
OwnToken(p) == lockFile # NoFile /\ lockFile.creator = p /\ lockFile.token

NewFile(p) == [creator |-> p, token |-> FALSE, stale |-> FALSE]

Goto(p, label) == pc' = [pc EXCEPT ![p] = label]

Enter(p) ==
    /\ Goto(p, "inside")
    /\ depth' = [depth EXCEPT ![p] = 1]

-----------------------------------------------------------------------------
Init ==
    /\ lockFile = NoFile
    /\ pc = [p \in Procs |-> "idle"]
    /\ depth = [p \in Procs |-> 0]
    /\ degraded = FALSE

\* withConfigLock at depth 0: compute the deadline, enter the retry loop.
Want(p) ==
    /\ pc[p] = "idle"
    /\ Goto(p, "open")
    /\ UNCHANGED <<lockFile, depth, degraded>>

\* openSync(LOCK_PATH, 'wx') in tryAcquire.
Open(p) ==
    /\ pc[p] = "open"
    /\ \/ /\ lockFile = NoFile
          /\ lockFile' = NewFile(p)
          /\ Goto(p, "write")
       \/ /\ lockFile # NoFile
          /\ Goto(p, "inspect")
          /\ UNCHANGED lockFile
    /\ UNCHANGED <<depth, degraded>>

\* writeSync(fd, payload): lands at the path only if the path is still ours.
WriteToken(p) ==
    /\ pc[p] = "write"
    /\ lockFile' = IF lockFile # NoFile /\ lockFile.creator = p
                   THEN [lockFile EXCEPT !.token = TRUE]
                   ELSE lockFile
    /\ Goto(p, "confirm")
    /\ UNCHANGED <<depth, degraded>>

\* Read the file back; a token that is not ours means retry later.
Confirm(p) ==
    /\ pc[p] = "confirm"
    /\ \/ OwnToken(p) /\ Enter(p)
       \/ ~OwnToken(p) /\ Goto(p, "wait") /\ UNCHANGED depth
    /\ UNCHANGED <<lockFile, degraded>>

-----------------------------------------------------------------------------
\* The file carries a token and that token may be broken.
StaleToken(f) == f.token /\ (~Alive(f.creator) \/ f.stale)

\* Wrong variant: a file without a token is broken on sight.
BrokenOnSight(f) == TRUE

\* Wrong variant: a file without a token is taken for live, whatever its age.
NeverBroken(f) == FALSE

\* The file could not be parsed: only its mtime is left to judge it by.
StaleMtime(f) == f.stale

(***************************************************************************)
(* The decision to break the file at the path.  Nothing is unlinked yet:   *)
(* between here and Break other processes run.  The history variable       *)
(* records the two situations in which that is unsafe: another process     *)
(* has decided the same and has not unlinked yet, or the file belongs to   *)
(* a live process that has held it beyond staleMs.                         *)
(***************************************************************************)
Decide(p) ==
    /\ Goto(p, "break")
    /\ degraded' = \/ degraded
                   \/ \E q \in Procs \ {p} : pc[q] = "break"
                   \/ lockFile.stale /\ InUse(lockFile)

\* lockInfo() after EEXIST: a token is judged, no token means a stat.
Inspect(p) ==
    /\ pc[p] = "inspect"
    /\ \/ /\ lockFile = NoFile \/ (lockFile # NoFile /\ ~lockFile.token)
          /\ Goto(p, "stat")
          /\ UNCHANGED degraded
       \/ lockFile # NoFile /\ StaleToken(lockFile) /\ Decide(p)
       \/ /\ lockFile # NoFile /\ lockFile.token /\ ~StaleToken(lockFile)
          /\ Goto(p, "wait")
          /\ UNCHANGED degraded
    /\ UNCHANGED <<lockFile, depth>>

\* statSync(LOCK_PATH).mtimeMs of whatever is at the path by now.
Stat(p) ==
    /\ pc[p] = "stat"
    /\ \/ lockFile # NoFile /\ StaleMtime(lockFile) /\ Decide(p)
       \/ /\ lockFile = NoFile \/ (lockFile # NoFile /\ ~StaleMtime(lockFile))
          /\ Goto(p, "wait")
          /\ UNCHANGED degraded
    /\ UNCHANGED <<lockFile, depth>>

\* unlinkSync(LOCK_PATH), by path: it removes whatever file is there.
Break(p) ==
    /\ pc[p] = "break"
    /\ lockFile' = NoFile
    /\ Goto(p, "reopen")
    /\ UNCHANGED <<depth, degraded>>

\* Wrong variant: reopened with 'w', so an existing file is no obstacle.
ReopenWithoutExcl(p) ==
    /\ pc[p] = "reopen"
    /\ lockFile' = NewFile(p)
    /\ Enter(p)
    /\ UNCHANGED degraded

\* The second openSync('wx'): success returns true with no token written.
Reopen(p) ==
    /\ pc[p] = "reopen"
    /\ \/ lockFile = NoFile /\ lockFile' = NewFile(p) /\ Enter(p)
       \/ lockFile # NoFile /\ Goto(p, "wait") /\ UNCHANGED <<lockFile, depth>>
    /\ UNCHANGED degraded

\* Wrong variant: the loop looks at the file again without trying to open it.
RetryWithoutOpen(p) ==
    /\ pc[p] = "wait"
    /\ Goto(p, "inspect")
    /\ UNCHANGED <<lockFile, depth, degraded>>

\* blockMs(20) and around the loop again.
Retry(p) ==
    /\ pc[p] = "wait"
    /\ Goto(p, "open")
    /\ UNCHANGED <<lockFile, depth, degraded>>

\* The 30 s deadline has passed: withConfigLock throws, fn never runs.
GiveUp(p) ==
    /\ pc[p] = "wait"
    /\ Goto(p, "idle")
    /\ UNCHANGED <<lockFile, depth, degraded>>

-----------------------------------------------------------------------------
\* withConfigLock inside fn: the re-entrant branch only counts.
Nest(p) ==
    /\ pc[p] = "inside" /\ depth[p] < MaxDepth
    /\ depth' = [depth EXCEPT ![p] = @ + 1]
    /\ UNCHANGED <<lockFile, pc, degraded>>

\* Wrong variant: both finally blocks run for one return.
ReturnTwice(p) ==
    /\ pc[p] = "inside"
    /\ depth' = [depth EXCEPT ![p] = @ - 2]
    /\ IF depth[p] <= 2 THEN Goto(p, "release") ELSE UNCHANGED pc
    /\ UNCHANGED <<lockFile, degraded>>

\* fn returns or throws: the finally block; the outermost one releases.
Return(p) ==
    /\ pc[p] = "inside"
    /\ depth' = [depth EXCEPT ![p] = @ - 1]
    /\ IF depth[p] = 1 THEN Goto(p, "release") ELSE UNCHANGED pc
    /\ UNCHANGED <<lockFile, degraded>>

\* Wrong variant: release leaves the file to the stale limit.
ReleaseNothing(p) ==
    /\ pc[p] = "release"
    /\ Goto(p, "idle")
    /\ UNCHANGED <<lockFile, depth, degraded>>

\* release(): only a file that still carries our token is unlinked.
ReadBeforeUnlink(p) ==
    /\ pc[p] = "release"
    /\ IF OwnToken(p) THEN Goto(p, "unlink") ELSE Goto(p, "idle")
    /\ UNCHANGED <<lockFile, depth, degraded>>

UnlinkOnRelease(p) ==
    /\ pc[p] = "unlink"
    /\ lockFile' = NoFile
    /\ Goto(p, "idle")
    /\ UNCHANGED <<depth, degraded>>

-----------------------------------------------------------------------------
\* A process dies at any point, leaving whatever it left at the path.
Crash(p) ==
    /\ Alive(p)
    /\ Cardinality({q \in Procs : ~Alive(q)}) < MaxCrashes
    /\ Goto(p, "dead")
    /\ depth' = [depth EXCEPT ![p] = 0]
    /\ UNCHANGED <<lockFile, degraded>>

\* staleMs pass over the file at the path.  A file in use grows that old only
\* while its user is inside fn: the lock's own system calls take microseconds.
Expire ==
    /\ lockFile # NoFile /\ ~lockFile.stale
    /\ InUse(lockFile) => HoldersCanWedge /\ pc[lockFile.creator] = "inside"
    /\ lockFile' = [lockFile EXCEPT !.stale = TRUE]
    /\ UNCHANGED <<pc, depth, degraded>>

-----------------------------------------------------------------------------
\* The steps a running process takes on its own once it wants the lock.
Proceed(p) ==
    \/ Open(p) \/ WriteToken(p) \/ Confirm(p)
    \/ Inspect(p) \/ Stat(p) \/ Break(p) \/ Reopen(p) \/ Retry(p)
    \/ Return(p) \/ ReadBeforeUnlink(p) \/ UnlinkOnRelease(p)

Next ==
    \/ \E p \in Procs : Want(p) \/ Proceed(p) \/ GiveUp(p) \/ Nest(p) \/ Crash(p)
    \/ Expire

Spec == Init /\ [][Next]_vars

(***************************************************************************)
(* Fairness: a live process is never suspended for ever inside these       *)
(* synchronous calls, and time passes over a file that stays at the path.  *)
(* Nobody is obliged to want the lock, to give up, to nest or to die.      *)
(***************************************************************************)
Fairness ==
    /\ \A p \in Procs : WF_vars(Proceed(p))
    /\ WF_vars(Expire)

FairSpec == Spec /\ Fairness

-----------------------------------------------------------------------------
(***************************************************************************)
(* Exclusion, the reason the module exists: two processes are never inside *)
(* fn at once until one of the two degrading situations has occurred.      *)
(***************************************************************************)
Inside == {p \in Procs : pc[p] = "inside"}

ExclusionUntilDegraded ==
    ~degraded => \A p, q \in Inside : p = q

(***************************************************************************)
(* The unconditional claim of the comments in configLock.js and configTx.js*)
(* ("one writer at a time, across processes").                             *)
(***************************************************************************)
MutualExclusion == \A p, q \in Inside : p = q

(***************************************************************************)
(* A token on disk names a process that relies on the lock now or one that *)
(* is dead: release never leaves the token of a process that has finished, *)
(* which no other process could break before staleMs.  It holds degraded   *)
(* or not.  An empty file may outlive its creator's section (Reopen).      *)
(***************************************************************************)
TokenNamesUserOrDead ==
    lockFile # NoFile /\ lockFile.token =>
        InUse(lockFile) \/ ~Alive(lockFile.creator)

(***************************************************************************)
(* "A crashed process cannot hold it forever": while somebody keeps asking *)
(* for the lock, a file left by a dead process is removed or replaced.     *)
(***************************************************************************)
Asking == {"open", "write", "confirm", "inspect", "stat", "break", "reopen", "wait"}

CrashedHolderIsBroken ==
    \A d \in Procs :
        lockFile # NoFile /\ lockFile.creator = d /\ pc[d] = "dead"
            ~> \/ lockFile = NoFile \/ lockFile.creator # d
               \/ \A p \in Procs : pc[p] \notin Asking

(***************************************************************************)
(* Whenever somebody asks, somebody gets in, or everybody has given up or  *)
(* died: neither a leftover file nor the retry loop blocks the system for  *)
(* ever.                                                                   *)
(***************************************************************************)
SomebodyGetsIn ==
    (\E p \in Procs : pc[p] \in Asking)
        ~> (Inside # {} \/ \A p \in Procs : pc[p] \notin Asking)

-----------------------------------------------------------------------------
\* The lock file implements the lock service.
Service == INSTANCE LockService WITH inside <- Inside

ImplementsService == Service!Spec

=============================================================================
