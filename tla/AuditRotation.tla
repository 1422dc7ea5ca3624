---------------------------- MODULE AuditRotation ----------------------------
(***************************************************************************)
(* Rotation and ingestion of the Coraza audit log: services/auditLog.js,   *)
(* the reader of services/requestLog.js and the renders of services/caddy  *)
(* .js that put a `SecAuditLog` path into the Caddyfile.                   *)
(*                                                                         *)
(* Coraza opens a log by its path when a configuration is loaded, so the   *)
(* only way to retire a file is to point SecAuditLog at another one, which *)
(* takes a sidecar file, the Caddyfile, a reload and the database, one     *)
(* after the other.  Five things take the rotation apart; the history      *)
(* variable `disturbed` records that one of them happened:                 *)
(*   - a render puts another path into the Caddyfile than the one it holds;*)
(*   - a process dies, or Caddy restarts, while Coraza still runs another  *)
(*     path than the Caddyfile names;                                      *)
(*   - retired rows cannot be ingested;                                    *)
(*   - putting the Caddyfile back after a failed reload fails;             *)
(*   - two processes run maintain() at the same time.                      *)
(* The model ends there: what it shows holds until the first of them.      *)
(*                                                                         *)
(* Rows are numbered in the order Coraza writes them.  Row ids derive from *)
(* the content, so request_log is a set.  A row is appended as a whole and *)
(* a file is read in one chunk.  Time may pass between any two steps, so   *)
(* any archive may be found too old.  Sidecar writes do not fail, and a    *)
(* reload that is reported as failed has not taken effect.                 *)
(***************************************************************************)
EXTENDS Naturals, Sequences, SequencesExt

CONSTANTS
    Procs,          \* the API server and CLI runs
    ApiServer,      \* the API server
    Nobody,         \* no process (the free lock) and no path
    MaxRows,        \* bound: rows Coraza writes
    MaxNow,         \* bound: the clock
    MaxCrashes      \* bound: process deaths

ASSUME NobodyAssumption == Nobody \notin Procs \cup Nat
ASSUME BoundsAssumption == MaxRows \in Nat /\ MaxNow \in Nat \ {0} /\ MaxCrashes \in Nat
ASSUME ServerAssumption == ApiServer \in Procs

VARIABLES
    exists,     \* the log files there are
    log,        \* path -> the rows in it
    written,    \* how many rows Coraza has written
    coraza,     \* the path Coraza has open
    caddyfile,  \* the path of the SecAuditLog directive
    sidecar,    \* .catwaf-audit-state.json: [active, from, to], from/to pending
    requestLog, \* the rows in the request_log table
    saved,      \* the audit_log_offset row: [path, offset]
    auditPath,  \* AUDIT_LOG_PATH of each process
    offset,     \* lastReadOffset of each process, Nobody for null
    pc,         \* where each process is in maintain()
    job,        \* its locals: [from, to, rotating]
    holder,     \* who holds the configuration lock
    now,        \* the clock that names new logs
    crashes,
    disturbed   \* history: one of the five things above has happened

logs == <<exists, log, written>>
reader == <<requestLog, saved, offset>>
locals == <<pc, job>>
vars == <<logs, coraza, caddyfile, sidecar, reader, auditPath, locals, holder, now,
          crashes, disturbed>>

base == 0
Paths == 0..MaxNow
Rows == 1..MaxRows

NoJob == [from |-> Nobody, to |-> Nobody, rotating |-> FALSE]
SettledOn(path) == [active |-> path, from |-> Nobody, to |-> Nobody]

Labels ==
    {"down", "idle", "recover", "mention", "drainPending", "complete", "revertFile",
     "revertState", "need", "begin", "marker", "repoint", "reload", "drain", "state",
     "putBack", "reloadBack", "abandonFile", "abandonState", "prune"}

TypeOK ==
    /\ exists \in SUBSET Paths
    /\ log \in [Paths -> Seq(Rows)] /\ written \in 0..MaxRows
    /\ coraza \in Paths /\ caddyfile \in Paths
    /\ sidecar \in [active : Paths, from : Paths \cup {Nobody}, to : Paths \cup {Nobody}]
    /\ requestLog \in SUBSET Rows
    /\ saved \in [path : Paths \cup {Nobody}, offset : 0..MaxRows]
    /\ auditPath \in [Procs -> Paths]
    /\ offset \in [Procs -> 0..MaxRows \cup {Nobody}]
    /\ pc \in [Procs -> Labels]
    /\ job \in [Procs -> [from : Paths \cup {Nobody}, to : Paths \cup {Nobody},
                          rotating : BOOLEAN]]
    /\ holder \in Procs \cup {Nobody}
    /\ now \in 1..MaxNow /\ crashes \in 0..MaxCrashes
    /\ disturbed \in BOOLEAN

Goto(p, label) == pc' = [pc EXCEPT ![p] = label]
Disturb(condition) == disturbed' = (disturbed \/ condition)
Pending == sidecar.to # Nobody

\* Unlinking a file that is not there fails silently.
Unlink(paths) ==
    /\ exists' = exists \ paths
    /\ log' = [path \in Paths |-> IF path \in paths THEN <<>> ELSE log[path]]
    /\ UNCHANGED written

-----------------------------------------------------------------------------
\* No rotation has ever happened: a log at the base path, no sidecar file, for
\* which activePath() answers the base path.
Init ==
    /\ exists = {base} /\ log = [path \in Paths |-> <<>>] /\ written = 0
    /\ coraza = base /\ caddyfile = base /\ sidecar = SettledOn(base)
    /\ requestLog = {} /\ saved = [path |-> Nobody, offset |-> 0]
    /\ auditPath = [p \in Procs |-> base] /\ offset = [p \in Procs |-> Nobody]
    /\ pc = [p \in Procs |-> "down"] /\ job = [p \in Procs |-> NoJob]
    /\ holder = Nobody /\ now = 1 /\ crashes = 0 /\ disturbed = FALSE

-----------------------------------------------------------------------------
(* Coraza, Caddy and the clock.                                            *)

\* A row goes to the open file; once that is unlinked, it is gone.
WriteRow ==
    /\ written < MaxRows
    /\ written' = written + 1
    /\ log' = IF coraza \in exists THEN [log EXCEPT ![coraza] = Append(@, written + 1)]
              ELSE log
    /\ UNCHANGED <<exists, coraza, caddyfile, sidecar, reader, auditPath, locals, holder,
                   now, crashes, disturbed>>

\* A reload succeeds: Coraza opens the path, creating the file, unless it has
\* that path open already.
Open(path) ==
    /\ coraza' = path
    /\ exists' = IF coraza = path THEN exists ELSE exists \cup {path}
    /\ UNCHANGED <<log, written>>

NoReload == UNCHANGED <<coraza, logs>>

CaddyRestart ==
    /\ coraza' = caddyfile /\ exists' = exists \cup {caddyfile}
    /\ Disturb(coraza # caddyfile)
    /\ UNCHANGED <<log, written, caddyfile, sidecar, reader, auditPath, locals, holder,
                   now, crashes>>

TickClock ==
    /\ now < MaxNow /\ now' = now + 1
    /\ UNCHANGED <<logs, coraza, caddyfile, sidecar, reader, auditPath, locals, holder,
                   crashes, disturbed>>

-----------------------------------------------------------------------------
(* Processes, and what they do outside maintain().                         *)

\* caddy.js resolves AUDIT_LOG_PATH when it is first required.
Start(p) ==
    /\ pc[p] = "down"
    /\ auditPath' = [auditPath EXCEPT ![p] = sidecar.active]
    /\ offset' = [offset EXCEPT ![p] = Nobody]
    /\ Goto(p, "idle")
    /\ UNCHANGED <<logs, coraza, caddyfile, sidecar, requestLog, saved, job, holder, now,
                   crashes, disturbed>>

Crash(p) ==
    /\ pc[p] # "down" /\ crashes < MaxCrashes
    /\ crashes' = crashes + 1
    /\ Goto(p, "down") /\ job' = [job EXCEPT ![p] = NoJob]
    /\ holder' = IF holder = p THEN Nobody ELSE holder
    /\ Disturb(coraza # caddyfile)
    /\ UNCHANGED <<logs, coraza, caddyfile, sidecar, reader, auditPath, now>>

\* The offset in memory, else the saved one of this path, else a cold start.
loadOffset(p, path) ==
    IF offset[p] # Nobody THEN offset[p]
    ELSE IF saved.path = path
         THEN IF saved.offset < Len(log[path]) THEN saved.offset ELSE Len(log[path])
         ELSE 0

\* Wrong variant: the position reached is added to the offset.
OffsetAccumulates(p) ==
    LET path == auditPath[p]
        size == Len(log[path])
        at == loadOffset(p, path)
    IN  /\ pc[p] = "idle" /\ path \in exists
        /\ requestLog' = requestLog \cup {log[path][i] : i \in (at + 1)..size}
        /\ offset' = [offset EXCEPT ![p] = at + size]
        /\ saved' = [path |-> path, offset |-> at + size]
        /\ UNCHANGED <<logs, coraza, caddyfile, sidecar, auditPath, locals, holder, now,
                       crashes, disturbed>>

\* ingestNewEntries: rows from the offset on, all of them or, when an insert
\* throws, some; the offset moves only in the first case.
IngestNewEntries(p) ==
    LET path == auditPath[p]
        size == Len(log[path])
        at == loadOffset(p, path)
        start == IF size < at THEN 0 ELSE at
    IN  /\ pc[p] = "idle" /\ path \in exists
        /\ \E end \in start..size :
            /\ requestLog' = requestLog \cup {log[path][i] : i \in (start + 1)..end}
            /\ LET moved == end = size /\ end # at
               IN  /\ offset' = [offset EXCEPT ![p] = IF moved THEN end ELSE at]
                   /\ saved' = IF moved THEN [path |-> path, offset |-> end] ELSE saved
        /\ UNCHANGED <<logs, coraza, caddyfile, sidecar, auditPath, locals, holder, now,
                       crashes, disturbed>>

\* patchWAFCaddyfile and a reload, from updateWAF or a job: the path the process
\* resolved last.
Patch(p) ==
    /\ pc[p] = "idle" /\ holder = Nobody
    /\ caddyfile' = auditPath[p]
    /\ Open(auditPath[p]) \/ NoReload
    /\ Disturb(caddyfile # auditPath[p])
    /\ UNCHANGED <<sidecar, reader, auditPath, locals, holder, now, crashes>>

\* configTx.apply: ensureAuditLog resolves the path anew and creates the file;
\* the transaction then rolls back or succeeds, without a reload if Caddy is down.
Tx(p) ==
    LET path == sidecar.active
    IN  /\ pc[p] = "idle" /\ holder = Nobody
        /\ auditPath' = [auditPath EXCEPT ![p] = path]
        /\ exists' = exists \cup {path}
        /\ \/ /\ caddyfile' = path /\ coraza' \in {coraza, path}
              /\ Disturb(caddyfile # path)
           \/ UNCHANGED <<caddyfile, coraza, disturbed>>
        /\ UNCHANGED <<log, written, sidecar, reader, locals, holder, now, crashes>>

-----------------------------------------------------------------------------
(* maintain(): recover, then rotate if needed, then prune.                 *)

Maintain(p) ==
    /\ pc[p] = "idle"
    /\ Goto(p, "recover") /\ job' = [job EXCEPT ![p] = NoJob]
    /\ Disturb(\E q \in Procs : pc[q] \notin {"down", "idle"})
    /\ UNCHANGED <<logs, coraza, caddyfile, sidecar, reader, auditPath, holder, now, crashes>>

\* maintain() recovers first, and rotate() does so again.
AfterRecover(p) == IF job[p].rotating THEN "begin" ELSE "need"

\* Wrong variant: an interrupted rotation is not looked for.
IgnoreMarker(p) ==
    /\ pc[p] = "recover"
    /\ Goto(p, AfterRecover(p))
    /\ UNCHANGED <<logs, coraza, caddyfile, sidecar, reader, auditPath, job, holder, now,
                   crashes, disturbed>>

Recover(p) ==
    /\ pc[p] = "recover"
    /\ IF Pending
       THEN /\ job' = [job EXCEPT ![p].from = sidecar.from, ![p].to = sidecar.to]
            /\ Goto(p, "mention")
       ELSE UNCHANGED job /\ Goto(p, AfterRecover(p))
    /\ UNCHANGED <<logs, coraza, caddyfile, sidecar, reader, auditPath, holder, now,
                   crashes, disturbed>>

\* Wrong variant: the marker alone decides.
AlwaysComplete(p) ==
    /\ pc[p] = "mention"
    /\ Goto(p, "drainPending")
    /\ UNCHANGED <<logs, coraza, caddyfile, sidecar, reader, auditPath, job, holder, now,
                   crashes, disturbed>>

\* The Caddyfile decides whether the interrupted rotation took place.
Mention(p) ==
    /\ pc[p] = "mention"
    /\ Goto(p, IF caddyfile = job[p].to THEN "drainPending" ELSE "revertFile")
    /\ UNCHANGED <<logs, coraza, caddyfile, sidecar, reader, auditPath, job, holder, now,
                   crashes, disturbed>>

\* drainFile: every row of the file, from its start.
DrainAll(path) ==
    /\ requestLog' = requestLog \cup ToSet(log[path])
    /\ UNCHANGED <<saved, offset, disturbed>>

\* An insert throws: some rows only, and an error.
DrainFails(path) ==
    /\ \E n \in 0..Len(log[path]) : requestLog' = requestLog \cup {log[path][i] : i \in 1..n}
    /\ Disturb(TRUE)
    /\ UNCHANGED <<saved, offset>>

DrainPending(p) ==
    /\ pc[p] = "drainPending"
    /\ \/ DrainAll(job[p].from) /\ Goto(p, "complete")
       \/ DrainFails(job[p].from) /\ Goto(p, AfterRecover(p))
    /\ UNCHANGED <<logs, coraza, caddyfile, sidecar, auditPath, job, holder, now, crashes>>

Complete(p) ==
    /\ pc[p] = "complete"
    /\ sidecar' = SettledOn(job[p].to)
    /\ Goto(p, AfterRecover(p))
    /\ UNCHANGED <<logs, coraza, caddyfile, reader, auditPath, job, holder, now, crashes,
                   disturbed>>

\* Reverting removes the new log if nothing was written to it.
RevertFile(p) ==
    /\ pc[p] = "revertFile"
    /\ IF log[job[p].to] = <<>> THEN Unlink({job[p].to}) ELSE UNCHANGED logs
    /\ Goto(p, "revertState")
    /\ UNCHANGED <<coraza, caddyfile, sidecar, reader, auditPath, job, holder, now, crashes,
                   disturbed>>

RevertState(p) ==
    /\ pc[p] = "revertState"
    /\ sidecar' = SettledOn(job[p].from)
    /\ Goto(p, AfterRecover(p))
    /\ UNCHANGED <<logs, coraza, caddyfile, reader, auditPath, job, holder, now, crashes,
                   disturbed>>

\* By size or age; a missing active file needs no rotation.
NeedsRotation(p) ==
    /\ pc[p] = "need"
    /\ \/ /\ sidecar.active \in exists
          /\ job' = [job EXCEPT ![p].rotating = TRUE] /\ Goto(p, "recover")
       \/ UNCHANGED job /\ Goto(p, "prune")
    /\ UNCHANGED <<logs, coraza, caddyfile, sidecar, reader, auditPath, holder, now,
                   crashes, disturbed>>

Finish(p) == Goto(p, "idle") /\ job' = [job EXCEPT ![p] = NoJob]

\* rotate(): the next path, named by the clock, must be free and creatable.
BeginRotation(p) ==
    /\ pc[p] = "begin"
    /\ \/ Finish(p) /\ UNCHANGED logs
       \/ /\ now \notin exists
          /\ exists' = exists \cup {now} /\ UNCHANGED <<log, written>>
          /\ job' = [job EXCEPT ![p].from = sidecar.active, ![p].to = now]
          /\ Goto(p, "marker")
    /\ UNCHANGED <<coraza, caddyfile, sidecar, reader, auditPath, holder, now, crashes,
                   disturbed>>

\* Wrong variant: the rotation leaves no marker.
NoMarker(p) ==
    /\ pc[p] = "marker"
    /\ Goto(p, "repoint")
    /\ UNCHANGED <<logs, coraza, caddyfile, sidecar, reader, auditPath, job, holder, now,
                   crashes, disturbed>>

Marker(p) ==
    /\ pc[p] = "marker"
    /\ sidecar' = [active |-> job[p].from, from |-> job[p].from, to |-> job[p].to]
    /\ Goto(p, "repoint")
    /\ UNCHANGED <<logs, coraza, caddyfile, reader, auditPath, job, holder, now, crashes,
                   disturbed>>

\* repointCaddyfile(from, to) up to the rename, under the lock: it fails when the
\* Caddyfile names another path, cannot be written or is not valid.
Repoint(p) ==
    /\ pc[p] = "repoint" /\ holder = Nobody
    /\ \/ /\ caddyfile = job[p].from /\ caddyfile' = job[p].to
          /\ holder' = p /\ Goto(p, "reload")
       \/ UNCHANGED <<caddyfile, holder>> /\ Goto(p, "abandonFile")
    /\ UNCHANGED <<logs, coraza, sidecar, reader, auditPath, job, now, crashes, disturbed>>

\* Other processes, whose sections are single steps here, have held the lock for
\* 30 s: the exception ends maintain(), the marker stays.
RepointTimeout(p) ==
    /\ pc[p] = "repoint"
    /\ Finish(p)
    /\ UNCHANGED <<logs, coraza, caddyfile, sidecar, reader, auditPath, holder, now,
                   crashes, disturbed>>

Reload(p) ==
    /\ pc[p] = "reload"
    /\ \/ Open(caddyfile) /\ Goto(p, "drain")
       \/ NoReload /\ Goto(p, "putBack")
    /\ holder' = Nobody
    /\ UNCHANGED <<caddyfile, sidecar, reader, auditPath, job, now, crashes, disturbed>>

\* The proxy did not reload: repointCaddyfile(to, from), which may fail as well
\* (or time out, which ends maintain() with the marker in place).
PutBack(p) ==
    /\ pc[p] = "putBack"
    /\ \/ /\ holder = Nobody
          /\ caddyfile = job[p].to /\ caddyfile' = job[p].from
          /\ holder' = p /\ Goto(p, "reloadBack") /\ UNCHANGED <<job, disturbed>>
       \/ /\ holder = Nobody /\ Goto(p, "abandonFile") /\ Disturb(TRUE)
          /\ UNCHANGED <<caddyfile, holder, job>>
       \/ Finish(p) /\ Disturb(TRUE) /\ UNCHANGED <<caddyfile, holder>>
    /\ UNCHANGED <<logs, coraza, sidecar, reader, auditPath, now, crashes>>

ReloadBack(p) ==
    /\ pc[p] = "reloadBack"
    /\ Open(caddyfile) \/ NoReload
    /\ Disturb(coraza # caddyfile)
    /\ holder' = Nobody /\ Goto(p, "abandonFile")
    /\ UNCHANGED <<caddyfile, sidecar, reader, auditPath, job, now, crashes>>

\* Giving a rotation up removes the new log, whatever is in it by now.
AbandonFile(p) ==
    /\ pc[p] = "abandonFile"
    /\ Unlink({job[p].to}) /\ Goto(p, "abandonState")
    /\ UNCHANGED <<coraza, caddyfile, sidecar, reader, auditPath, job, holder, now, crashes,
                   disturbed>>

AbandonState(p) ==
    /\ pc[p] = "abandonState"
    /\ sidecar' = SettledOn(job[p].from) /\ Finish(p)
    /\ UNCHANGED <<logs, coraza, caddyfile, reader, auditPath, holder, now, crashes,
                   disturbed>>

\* Wrong variant: the retired file is archived unread.
SkipDrain(p) ==
    /\ pc[p] = "drain"
    /\ Goto(p, "state")
    /\ UNCHANGED <<logs, coraza, caddyfile, sidecar, reader, auditPath, job, holder, now,
                   crashes, disturbed>>

\* The retired file has no writer: ingest all of it; on an error the marker stays.
Drain(p) ==
    /\ pc[p] = "drain"
    /\ \/ DrainAll(job[p].from) /\ Goto(p, "state") /\ UNCHANGED job
       \/ DrainFails(job[p].from) /\ Finish(p)
    /\ UNCHANGED <<logs, coraza, caddyfile, sidecar, auditPath, holder, now, crashes>>

State(p) ==
    /\ pc[p] = "state"
    /\ sidecar' = SettledOn(job[p].to) /\ Goto(p, "prune")
    /\ UNCHANGED <<logs, coraza, caddyfile, reader, auditPath, job, holder, now, crashes,
                   disturbed>>

\* Any archive may be too old or one too many, and unlinking it may fail.
Prune(p) ==
    /\ pc[p] = "prune"
    /\ \E doomed \in SUBSET (exists \ {sidecar.active, sidecar.from, sidecar.to}) :
          Unlink(doomed)
    /\ Finish(p)
    /\ UNCHANGED <<coraza, caddyfile, sidecar, reader, auditPath, holder, now, crashes,
                   disturbed>>

-----------------------------------------------------------------------------
Maintaining(p) ==
    \/ Recover(p) \/ Mention(p) \/ DrainPending(p) \/ Complete(p)
    \/ RevertFile(p) \/ RevertState(p) \/ NeedsRotation(p) \/ BeginRotation(p) \/ Marker(p)
    \/ Repoint(p) \/ RepointTimeout(p) \/ Reload(p) \/ PutBack(p) \/ ReloadBack(p)
    \/ AbandonFile(p) \/ AbandonState(p) \/ Drain(p) \/ State(p) \/ Prune(p)

\* The model ends with the first disturbance.
Next ==
    \/ /\ ~disturbed
       /\ \/ WriteRow \/ CaddyRestart \/ TickClock
          \/ \E p \in Procs :
              \/ Start(p) \/ Crash(p) \/ IngestNewEntries(p) \/ Patch(p) \/ Tx(p)
              \/ Maintain(p) \/ Maintaining(p)
    \/ disturbed /\ UNCHANGED vars

Spec == Init /\ [][Next]_vars

(***************************************************************************)
(* Fairness: the API server is started again when it is down, its timer    *)
(* calls maintain() every ten minutes, and synchronous code keeps running. *)
(***************************************************************************)
FairSpec ==
    /\ Spec
    /\ WF_vars(Start(ApiServer) \/ Maintain(ApiServer))
    /\ \A p \in Procs : WF_vars(Maintaining(p))

-----------------------------------------------------------------------------
(***************************************************************************)
(* No security event is lost: each row is in the database, in the file     *)
(* Coraza writes, or in the retired file of a rotation still pending, none *)
(* of which prune() removes.                                               *)
(***************************************************************************)
NothingLost ==
    ~disturbed =>
        \A row \in 1..written :
            \/ row \in requestLog
            \/ row \in ToSet(log[coraza])
            \/ Pending /\ row \in ToSet(log[sidecar.from])

(***************************************************************************)
(* "The active file is never a deletion candidate": the file Coraza has    *)
(* open exists, and the sidecar protects it from prune().                  *)
(***************************************************************************)
OpenLogIsProtected ==
    ~disturbed => coraza \in exists /\ coraza \in {sidecar.active, sidecar.to}

(***************************************************************************)
(* Between rotations the sidecar, the Caddyfile and Coraza name one path,  *)
(* wherever processes have died.                                           *)
(***************************************************************************)
OnePath ==
    ~disturbed /\ ~Pending /\ (\A p \in Procs : pc[p] \in {"down", "idle"}) =>
        sidecar.active = caddyfile /\ caddyfile = coraza

(***************************************************************************)
(* An interrupted rotation is finished or reverted in the end, whichever   *)
(* process began it and wherever that one died.                            *)
(***************************************************************************)
PendingResolves == Pending ~> (~Pending \/ disturbed)

(***************************************************************************)
(* caddy.js on ensureAuditLog: "rotation has already pointed Coraza at it, *)
(* and falling back to the base candidate here would silently undo the     *)
(* rotation".  With no rotation in flight, no render moves the Caddyfile   *)
(* away from the active log.                                               *)
(***************************************************************************)
RotationStands ==
    [][\A p \in Procs :
        (Patch(p) \/ Tx(p)) /\ ~Pending /\ caddyfile = sidecar.active
            => caddyfile' = caddyfile]_vars

(***************************************************************************)
(* CHANGELOG on requestLog.js: "Tracks its own read offset so restarts     *)
(* don't double-ingest and a log rotation doesn't break it".  When the     *)
(* reader has reached the end of the log it follows, every row of that log *)
(* is in the database.                                                     *)
(***************************************************************************)
OffsetFollowsRotation ==
    [][\A p \in Procs :
        IngestNewEntries(p) /\ offset'[p] = Len(log[auditPath[p]])
            => ToSet(log[auditPath[p]]) \subseteq requestLog']_vars

=============================================================================
