----------------------------- MODULE WafConfig ------------------------------
(***************************************************************************)
(* The configuration pipeline: the `waf` row and its revision in SQLite,   *)
(* the copy every process keeps in memory (services/state.js), the         *)
(* Caddyfile rendered from that copy and the configuration Caddy has       *)
(* loaded (services/caddy.js), and the five ways the code changes them:    *)
(*                                                                         *)
(*   "update"    state.updateWAF(.., syncCaddy: true)     routes, catai undo*)
(*   "store"     state.updateWAF(..)                      autoconf, PATCH   *)
(*   "catai"     CatAI actions: memory first, then updateWAF(() => {})      *)
(*   "tx"        configTx.apply                           modes, settings.. *)
(*   "rerender"  jobs.requestReload                       scheduled jobs    *)
(*                                                                         *)
(* and preview.preview, which writes the row although it is a dry run.     *)
(*                                                                         *)
(* A configuration is the set of updates it holds: each update touches a   *)
(* part of the configuration of its own, so losing one is visible.  Every  *)
(* critical section is synchronous, hence a process runs one operation at  *)
(* a time; the processes interleave at every database and file access.     *)
(* The lock is the lock service ConfigLock implements, not degraded.       *)
(***************************************************************************)
EXTENDS Naturals, FiniteSets

CONSTANTS
    Procs,          \* processes: the API server, a CLI run
    Updates,        \* the configuration changes anyone will ask for, once each
    Bad,            \* the updates whose rendering Caddy refuses
    NoUpdate,       \* the update of an operation that carries none
    OpsOf,          \* process -> the operations it performs
    Binary,         \* whether a caddy binary can be executed: the cases considered
    MaxCrashes      \* bound: how many times a process dies

Kinds == {"update", "store", "catai", "tx", "rerender", "preview"}

ASSUME BadAssumption == Bad \subseteq Updates
ASSUME NoUpdateAssumption == NoUpdate \notin Updates
ASSUME OpsOfAssumption == OpsOf \in [Procs -> SUBSET Kinds]
ASSUME BinaryAssumption == Binary \subseteq BOOLEAN
ASSUME MaxCrashesAssumption == MaxCrashes \in Nat

VARIABLES
    dbWaf,      \* the `waf` row
    dbRev,      \* the `waf__rev` row
    mem,        \* state.WAF of each process
    loadedRev,  \* _loadedRev of each process (while booting: r0)
    caddyfile,  \* the configuration the Caddyfile renders
    live,       \* the configuration Caddy has loaded
    caddyUp,    \* Caddy is running
    binary,     \* a caddy binary can be executed (`caddy validate`)
    pc,         \* where each process is
    op,         \* the operation it performs: [kind, u]
    snap,       \* configTx's snapshot: [mem, file, refused]
    inside,     \* the processes inside withConfigLock
    outcome,    \* what the caller of each update was told
    unrestored, \* history: updates a roll-back failed to take out of the Caddyfile
    crashes     \* how many times a process has died

edge == <<caddyfile, live, caddyUp, binary, unrestored>>
row == <<dbWaf, dbRev>>
copy == <<mem, loadedRev>>
vars == <<row, copy, edge, pc, op, snap, inside, outcome, crashes>>

\* The lock service, which is degraded when two processes are inside at once.
Lock == INSTANCE LockService WITH degraded <- \E p, q \in inside : p # q

Configs == SUBSET Updates

NoOp == [kind |-> "none", u |-> NoUpdate]
NoSnap == [mem |-> {}, file |-> {}, refused |-> FALSE]

Labels ==
    {"down", "bootBlob", "bootCheck", "idle", "lock", "mutate", "blob", "rev",
     "patch", "reload", "return", "txBegin", "txBlob", "txPatch", "txValidate",
     "txReload", "txRunning", "txRestore", "txRestoreFile", "txRepatch",
     "txReloadAgain", "txFail"}

TypeOK ==
    /\ dbWaf \in Configs /\ dbRev \in Nat
    /\ mem \in [Procs -> Configs] /\ loadedRev \in [Procs -> Nat]
    /\ caddyfile \in Configs /\ live \in Configs
    /\ caddyUp \in BOOLEAN /\ binary \in BOOLEAN /\ unrestored \in Configs
    /\ pc \in [Procs -> Labels]
    /\ op \in [Procs -> [kind : Kinds \cup {"none"}, u : Updates \cup {NoUpdate}]]
    /\ snap \in [Procs -> [mem : Configs, file : Configs, refused : BOOLEAN]]
    /\ inside \in SUBSET Procs
    /\ outcome \in [Updates ->
                       {"new", "open", "ok", "applied", "failed", "unknown"}]
    /\ crashes \in 0..MaxCrashes

Goto(p, label) == pc' = [pc EXCEPT ![p] = label]

Valid(config) == config \cap Bad = {}

-----------------------------------------------------------------------------
Init ==
    /\ dbWaf = {} /\ dbRev = 0
    /\ mem = [p \in Procs |-> {}] /\ loadedRev = [p \in Procs |-> 0]
    /\ caddyfile = {} /\ live = {}
    /\ caddyUp \in BOOLEAN /\ binary \in Binary /\ unrestored = {}
    /\ pc = [p \in Procs |-> "down"]
    /\ op = [p \in Procs |-> NoOp] /\ snap = [p \in Procs |-> NoSnap]
    /\ inside = {}
    /\ outcome = [u \in Updates |-> "new"]
    /\ crashes = 0

-----------------------------------------------------------------------------
(* loadWAFFresh at start-up: the revision, the blob, the revision again.   *)

BootRev(p) ==
    /\ pc[p] = "down"
    /\ loadedRev' = [loadedRev EXCEPT ![p] = dbRev]
    /\ Goto(p, "bootBlob")
    /\ UNCHANGED <<row, mem, edge, op, snap, inside, outcome, crashes>>

BootBlob(p) ==
    /\ pc[p] = "bootBlob"
    /\ mem' = [mem EXCEPT ![p] = dbWaf]
    /\ Goto(p, "bootCheck")
    /\ UNCHANGED <<row, loadedRev, edge, op, snap, inside, outcome, crashes>>

\* Wrong variant: the revision read after the blob is the one recorded.
BootRereadsRev(p) ==
    /\ pc[p] = "bootCheck"
    /\ loadedRev' = [loadedRev EXCEPT ![p] = dbRev]
    /\ Goto(p, "idle")
    /\ UNCHANGED <<row, mem, edge, op, snap, inside, outcome, crashes>>

BootCheck(p) ==
    /\ pc[p] = "bootCheck"
    /\ Goto(p, IF loadedRev[p] = dbRev THEN "idle" ELSE "down")
    /\ UNCHANGED <<row, copy, edge, op, snap, inside, outcome, crashes>>

-----------------------------------------------------------------------------
(* Starting an operation, and the lock.                                    *)

\* Route handlers check their input before updateWAF, so a configuration Caddy
\* refuses arrives through configTx only.  A CatAI action changes memory here.
Begin(p) ==
    /\ pc[p] = "idle"
    /\ \E kind \in OpsOf[p] \ {"rerender", "preview"}, u \in Updates :
        /\ outcome[u] = "new"
        /\ u \in Bad => kind = "tx"
        /\ op' = [op EXCEPT ![p] = [kind |-> kind, u |-> u]]
        /\ outcome' = [outcome EXCEPT ![u] = "open"]
        /\ mem' = IF kind = "catai" THEN [mem EXCEPT ![p] = @ \cup {u}] ELSE mem
    /\ Goto(p, "lock")
    /\ UNCHANGED <<row, loadedRev, edge, snap, inside, crashes>>

BeginRerender(p) ==
    /\ pc[p] = "idle" /\ "rerender" \in OpsOf[p]
    /\ op' = [op EXCEPT ![p] = [kind |-> "rerender", u |-> NoUpdate]]
    /\ Goto(p, "lock")
    /\ UNCHANGED <<row, copy, edge, snap, inside, outcome, crashes>>

FirstStep(kind) ==
    IF kind = "tx" THEN "txBegin"
    ELSE IF kind = "rerender" THEN "patch" ELSE "mutate"

\* Wrong variant: no lock, every section runs at once.
AcquireNothing(p) ==
    /\ pc[p] = "lock"
    /\ inside' = inside \cup {p}
    /\ Goto(p, FirstStep(op[p].kind))
    /\ UNCHANGED <<row, copy, edge, op, snap, outcome, crashes>>

Acquire(p) ==
    /\ pc[p] = "lock"
    /\ Lock!Enter(p)
    /\ Goto(p, FirstStep(op[p].kind))
    /\ UNCHANGED <<row, copy, edge, op, snap, outcome, crashes>>

Answer(p, reply) ==
    /\ outcome' = IF op[p].u = NoUpdate THEN outcome
                  ELSE [outcome EXCEPT ![op[p].u] = reply]
    /\ op' = [op EXCEPT ![p] = NoOp]
    /\ snap' = [snap EXCEPT ![p] = NoSnap]
    /\ Goto(p, "idle")

\* Others have held the lock for 30 s: withConfigLock throws.
LockTimeout(p) ==
    /\ pc[p] = "lock"
    /\ inside # {}
    /\ Answer(p, "failed")
    /\ UNCHANGED <<row, copy, edge, inside, crashes>>

-----------------------------------------------------------------------------
(* state.updateWAF                                                         *)

\* Wrong variant: the mutator runs on whatever this process has in memory.
MutateStale(p) ==
    /\ pc[p] = "mutate"
    /\ mem' = [mem EXCEPT ![p] = @ \cup {op[p].u}]
    /\ Goto(p, "blob")
    /\ UNCHANGED <<row, loadedRev, edge, op, snap, inside, outcome, crashes>>

\* Refresh if the revision moved, then run the mutator.
Mutate(p) ==
    /\ pc[p] = "mutate"
    /\ LET fresh == IF loadedRev[p] = dbRev THEN mem[p] ELSE dbWaf
           change == IF op[p].kind = "catai" THEN {} ELSE {op[p].u}
       IN  mem' = [mem EXCEPT ![p] = fresh \cup change]
    /\ loadedRev' = [loadedRev EXCEPT ![p] = dbRev]
    /\ Goto(p, "blob")
    /\ UNCHANGED <<row, edge, op, snap, inside, outcome, crashes>>

\* persistWAFLocked: the blob first ...
WriteBlob(p) ==
    /\ pc[p] = "blob"
    /\ dbWaf' = mem[p]
    /\ Goto(p, "rev")
    /\ UNCHANGED <<dbRev, copy, edge, op, snap, inside, outcome, crashes>>

\* Wrong variant: the revision counts down.
RevCountsDown(p) ==
    /\ pc[p] = "rev"
    /\ loadedRev' = [loadedRev EXCEPT ![p] = dbRev - 1]
    /\ dbRev' = dbRev - 1
    /\ Goto(p, IF op[p].kind = "store" THEN "return" ELSE "patch")
    /\ UNCHANGED <<dbWaf, mem, edge, op, snap, inside, outcome, crashes>>

\* ... then the revision, the commit barrier.
WriteRev(p) ==
    /\ pc[p] = "rev"
    /\ loadedRev' = [loadedRev EXCEPT ![p] = dbRev + 1]
    /\ dbRev' = dbRev + 1
    /\ Goto(p, IF op[p].kind = "store" THEN "return" ELSE "patch")
    /\ UNCHANGED <<dbWaf, mem, edge, op, snap, inside, outcome, crashes>>

-----------------------------------------------------------------------------
(* caddy.js: rendering the Caddyfile and reloading Caddy.                  *)

\* patchWAFCaddyfile(state.WAF): read, render, atomic replace.
Render(p) ==
    /\ caddyfile' = mem[p]
    /\ UNCHANGED <<live, caddyUp, binary, unrestored>>

\* reloadCaddy() succeeds: Caddy reads the Caddyfile and accepts it.
ReloadOk ==
    /\ caddyUp /\ Valid(caddyfile)
    /\ live' = caddyfile
    /\ UNCHANGED <<caddyfile, caddyUp, binary, unrestored>>

\* Wrong variant: patching takes the lock again, without re-entrancy.
PatchTakesLock(p) ==
    /\ pc[p] = "patch" /\ inside = {}
    /\ \/ Render(p) /\ Goto(p, "reload")
       \/ UNCHANGED edge /\ Goto(p, "return")
    /\ UNCHANGED <<row, copy, op, snap, inside, outcome, crashes>>

\* applyToCaddy's patch.  requestReload holds the lock for the patch only.
Patch(p) ==
    /\ pc[p] = "patch"
    /\ \/ Render(p) /\ Goto(p, "reload")
       \/ UNCHANGED edge /\ Goto(p, "return")
    /\ IF op[p].kind = "rerender" THEN Lock!Leave(p) ELSE UNCHANGED inside
    /\ UNCHANGED <<row, copy, op, snap, outcome, crashes>>

\* An update whose reload succeeded is "applied"; a failed one is still stored.
Reload(p) ==
    /\ pc[p] = "reload"
    /\ \/ /\ ReloadOk
          /\ outcome' = IF op[p].u = NoUpdate THEN outcome
                        ELSE [outcome EXCEPT ![op[p].u] = "applied"]
       \/ UNCHANGED <<edge, outcome>>
    /\ Goto(p, "return")
    /\ UNCHANGED <<row, copy, op, snap, inside, crashes>>

LeaveIfInside(p) == IF p \in inside THEN Lock!Leave(p) ELSE UNCHANGED inside

\* The section ends and the caller gets its answer.
Return(p) ==
    /\ pc[p] = "return"
    /\ LeaveIfInside(p)
    /\ Answer(p, IF op[p].u # NoUpdate /\ outcome[op[p].u] = "applied"
                 THEN "applied" ELSE "ok")
    /\ UNCHANGED <<row, copy, edge, crashes>>

-----------------------------------------------------------------------------
(* configTx.apply                                                          *)

\* Wrong variant: the snapshot is taken after the mutation.
SnapshotTooLate(p) ==
    /\ pc[p] = "txBegin"
    /\ mem' = [mem EXCEPT ![p] = @ \cup {op[p].u}]
    /\ snap' = [snap EXCEPT ![p] = [mem |-> mem'[p], file |-> caddyfile,
                                    refused |-> FALSE]]
    /\ Goto(p, "txBlob") \/ Goto(p, "txRestore")
    /\ UNCHANGED <<row, loadedRev, edge, op, inside, outcome, crashes>>

\* The audit log is unusable or the backup fails (nothing was touched); or
\* snapshot, then mutate in memory, which throws, is refused by `validate`,
\* or succeeds.
TxBegin(p) ==
    /\ pc[p] = "txBegin"
    /\ \/ Goto(p, "txFail") /\ UNCHANGED <<mem, snap>>
       \/ /\ snap' = [snap EXCEPT ![p] = [mem |-> mem[p], file |-> caddyfile,
                                          refused |-> FALSE]]
          /\ mem' = [mem EXCEPT ![p] = @ \cup {op[p].u}]
          /\ Goto(p, "txBlob") \/ Goto(p, "txRestore")
    /\ UNCHANGED <<row, loadedRev, edge, op, inside, outcome, crashes>>

\* db.setState('waf', state.WAF), with no revision; it may throw.
TxBlob(p) ==
    /\ pc[p] = "txBlob"
    /\ \/ dbWaf' = mem[p] /\ Goto(p, "txPatch")
       \/ UNCHANGED dbWaf /\ Goto(p, "txRestore")
    /\ UNCHANGED <<dbRev, copy, edge, op, snap, inside, outcome, crashes>>

TxPatch(p) ==
    /\ pc[p] = "txPatch"
    /\ \/ Render(p) /\ Goto(p, "txValidate")
       \/ UNCHANGED edge /\ Goto(p, "txRestore")
    /\ UNCHANGED <<row, copy, op, snap, inside, outcome, crashes>>

\* Wrong variant: the verdict of `caddy validate` is ignored.
ValidateNothing(p) ==
    /\ pc[p] = "txValidate"
    /\ Goto(p, "txReload")
    /\ UNCHANGED <<row, copy, edge, op, snap, inside, outcome, crashes>>

\* validateCaddyfile: skipped without a binary; a time-out counts as invalid.
TxValidate(p) ==
    /\ pc[p] = "txValidate"
    /\ \/ (binary => Valid(caddyfile)) /\ Goto(p, "txReload")
       \/ binary /\ Goto(p, "txRestore")
    /\ UNCHANGED <<row, copy, edge, op, snap, inside, outcome, crashes>>

TxReload(p) ==
    /\ pc[p] = "txReload"
    /\ \/ /\ ReloadOk
          /\ outcome' = [outcome EXCEPT ![op[p].u] = "applied"]
          /\ Goto(p, "return")
       \/ UNCHANGED <<edge, outcome>> /\ Goto(p, "txRunning")
    /\ UNCHANGED <<row, copy, op, snap, inside, crashes>>

\* isCaddyRunning() after a failed reload: a Caddy that is running refused the
\* configuration, one that is not will read it when it starts.
TxRunning(p) ==
    /\ pc[p] = "txRunning"
    /\ IF caddyUp
       THEN snap' = [snap EXCEPT ![p].refused = TRUE] /\ Goto(p, "txRestore")
       ELSE UNCHANGED snap /\ Goto(p, "return")
    /\ UNCHANGED <<row, copy, edge, op, inside, outcome, crashes>>

\* Wrong variant: the roll-back forgets the row.
RestoreMemoryOnly(p) ==
    /\ pc[p] = "txRestore"
    /\ mem' = [mem EXCEPT ![p] = snap[p].mem]
    /\ Goto(p, "txRestoreFile")
    /\ UNCHANGED <<row, loadedRev, edge, op, snap, inside, outcome, crashes>>

\* rollback(): restoreWaf puts memory and row back ...
TxRestore(p) ==
    /\ pc[p] = "txRestore"
    /\ mem' = [mem EXCEPT ![p] = snap[p].mem]
    /\ dbWaf' = snap[p].mem
    /\ Goto(p, "txRestoreFile")
    /\ UNCHANGED <<dbRev, loadedRev, edge, op, snap, inside, outcome, crashes>>

\* ... then the previous Caddyfile is written; an error there is swallowed.
TxRestoreFile(p) ==
    /\ pc[p] = "txRestoreFile"
    /\ \/ caddyfile' = snap[p].file /\ UNCHANGED unrestored
       \/ UNCHANGED caddyfile /\ unrestored' = unrestored \cup (caddyfile \ snap[p].file)
    /\ Goto(p, IF snap[p].refused THEN "txRepatch" ELSE "txFail")
    /\ UNCHANGED <<row, copy, live, caddyUp, binary, op, snap, inside, outcome, crashes>>

\* After a refused reload the restored configuration is rendered again ...
TxRepatch(p) ==
    /\ pc[p] = "txRepatch"
    /\ Render(p) \/ UNCHANGED edge
    /\ Goto(p, "txReloadAgain")
    /\ UNCHANGED <<row, copy, op, snap, inside, outcome, crashes>>

\* ... and Caddy asked to load it, whatever comes of that.
TxReloadAgain(p) ==
    /\ pc[p] = "txReloadAgain"
    /\ ReloadOk \/ UNCHANGED edge
    /\ Goto(p, "txFail")
    /\ UNCHANGED <<row, copy, op, snap, inside, outcome, crashes>>

TxFail(p) ==
    /\ pc[p] = "txFail"
    /\ Lock!Leave(p)
    /\ Answer(p, "failed")
    /\ UNCHANGED <<row, copy, edge, crashes>>

-----------------------------------------------------------------------------
\* preview(): snapshot, mutate, render, and restoreWaf(snapshot), which writes
\* this process's copy over the row, outside the lock.
Preview(p) ==
    /\ pc[p] = "idle" /\ "preview" \in OpsOf[p]
    /\ dbWaf' = mem[p]
    /\ UNCHANGED <<dbRev, copy, edge, pc, op, snap, inside, outcome, crashes>>

-----------------------------------------------------------------------------
(* The environment.                                                        *)

\* A process dies; the lock it held is broken, its caller never gets an answer.
Crash(p) ==
    /\ pc[p] # "down" /\ crashes < MaxCrashes
    /\ crashes' = crashes + 1
    /\ inside' = inside \ {p}
    /\ mem' = [mem EXCEPT ![p] = {}]
    /\ loadedRev' = [loadedRev EXCEPT ![p] = 0]
    /\ outcome' = IF op[p].u # NoUpdate /\ outcome[op[p].u] = "open"
                  THEN [outcome EXCEPT ![op[p].u] = "unknown"] ELSE outcome
    /\ op' = [op EXCEPT ![p] = NoOp] /\ snap' = [snap EXCEPT ![p] = NoSnap]
    /\ Goto(p, "down")
    /\ UNCHANGED <<row, edge>>

CaddyStop ==
    /\ caddyUp /\ caddyUp' = FALSE
    /\ UNCHANGED <<row, copy, caddyfile, live, binary, unrestored, pc, op, snap, inside,
                   outcome, crashes>>

\* Caddy starts from the Caddyfile, if it is one Caddy accepts.
CaddyStart ==
    /\ ~caddyUp /\ Valid(caddyfile)
    /\ caddyUp' = TRUE /\ live' = caddyfile
    /\ UNCHANGED <<row, copy, caddyfile, binary, unrestored, pc, op, snap, inside,
                   outcome, crashes>>

-----------------------------------------------------------------------------
\* What a live process does by itself once it has begun.
Continue(p) ==
    \/ BootRev(p) \/ BootBlob(p) \/ BootCheck(p)
    \/ Acquire(p) \/ Mutate(p) \/ WriteBlob(p) \/ WriteRev(p)
    \/ Patch(p) \/ Reload(p) \/ Return(p)
    \/ TxBegin(p) \/ TxBlob(p) \/ TxPatch(p) \/ TxValidate(p) \/ TxReload(p)
    \/ TxRunning(p) \/ TxRestore(p) \/ TxRestoreFile(p) \/ TxRepatch(p)
    \/ TxReloadAgain(p) \/ TxFail(p)

Next ==
    \/ \E p \in Procs :
        \/ Continue(p) \/ LockTimeout(p)
        \/ Begin(p) \/ BeginRerender(p) \/ Preview(p) \/ Crash(p)
    \/ CaddyStop \/ CaddyStart

Spec == Init /\ [][Next]_vars

(***************************************************************************)
(* Fairness: synchronous code keeps running, and a process that has found  *)
(* the lock taken again and again for 30 s gives up.                       *)
(***************************************************************************)
FairSpec ==
    /\ Spec
    /\ \A p \in Procs : WF_vars(Continue(p)) /\ SF_vars(LockTimeout(p))

-----------------------------------------------------------------------------
Answered(reply) == {u \in Updates : outcome[u] \in reply}

(***************************************************************************)
(* No lost update: what a caller was told is stored is in the row, however *)
(* many processes commit and whichever of them die between two writes.     *)
(***************************************************************************)
AckedIsStored == Answered({"ok", "applied"}) \subseteq dbWaf

(***************************************************************************)
(* state.js on updateWAF: "a mutation can never land on (and then          *)
(* overwrite with) a stale snapshot".                                      *)
(***************************************************************************)
MutatesCommitted ==
    [][\A p \in Procs :
        Mutate(p) => mem'[p] \ {op[p].u} = dbWaf \ {op[p].u}]_vars

(***************************************************************************)
(* What is true of it among updateWAF callers: the copy the mutator runs   *)
(* on and the row differ at most in updates whose process died between     *)
(* writing the blob and writing its revision.                              *)
(***************************************************************************)
MutatesCommittedOrInDoubt ==
    [][\A p \in Procs : Mutate(p) =>
        /\ (mem'[p] \ {op[p].u}) \ dbWaf \subseteq Answered({"unknown"})
        /\ dbWaf \ mem'[p] \subseteq Answered({"unknown"})]_vars

(***************************************************************************)
(* What a reload has activated stays active: while Caddy runs, no later    *)
(* operation, roll-back or restart of Caddy takes an update out of the     *)
(* loaded configuration whose caller was told it was reloaded.             *)
(***************************************************************************)
AppliedStaysLive == caddyUp => Answered({"applied"}) \subseteq live

(***************************************************************************)
(* A failed operation leaves nothing behind to resurface: not in the row,  *)
(* not in the memory a later commit would persist, and not in the          *)
(* Caddyfile unless restoring it failed as well.                           *)
(***************************************************************************)
FailedLeavesNoTrace ==
    /\ Answered({"failed"}) \cap dbWaf = {}
    /\ \A p \in Procs : Answered({"failed"}) \cap mem[p] = {}
    /\ Answered({"failed"}) \cap caddyfile \subseteq unrestored

(***************************************************************************)
(* configTx never reports success for a configuration Caddy refuses when   *)
(* there is a binary to validate it with; and whoever is told a change was *)
(* reloaded runs a configuration Caddy accepts.                            *)
(***************************************************************************)
RefusedIsNotAcked ==
    /\ binary => Answered({"ok", "applied"}) \cap Bad = {}
    /\ Answered({"applied"}) \cap Bad = {}

(***************************************************************************)
(* The two together: what the callers of one process were told is true.    *)
(***************************************************************************)
AnswersHold == AppliedStaysLive /\ RefusedIsNotAcked

(***************************************************************************)
(* Every operation returns, unless its process dies: no section waits for  *)
(* ever and a contended lock ends in a time-out.                           *)
(***************************************************************************)
OperationsReturn ==
    \A p \in Procs : (pc[p] = "lock") ~> (pc[p] \in {"idle", "down"})

\* What the abstract store knows of the answers.
Told == [u \in Updates |-> IF outcome[u] = "applied" THEN "ok" ELSE outcome[u]]

Store == INSTANCE ConfigStore WITH value <- dbWaf, outcome <- Told

\* Seen through its answers, the pipeline is one atomic store.
ImplementsStore == Store!Spec

=============================================================================
