-------------------------------- MODULE Siem --------------------------------
(***************************************************************************)
(* The SIEM stream: siemStream.poll() appends what request_log has gained  *)
(* beyond a cursor to data/siem.jsonl, and moves the cursor.  The server   *)
(* polls as a scheduled job, the CLI by `catwaf jobs run siem.export`; each*)
(* inserts rows too.  A poll is synchronous, so its process does nothing   *)
(* else meanwhile; the other process does.                                 *)
(*                                                                         *)
(* SQLite numbers a new row one past the largest that is there, which is 1 *)
(* in a table that retention has emptied.  The rotation of the file by its *)
(* size and the POST to a collector, of which failures are only logged, are*)
(* left out.  A cursor that was never saved reads as 0 (Number(null)), so  *)
(* the branch that seeds it is not reached.                                *)
(***************************************************************************)
EXTENDS Naturals, FiniteSets, FiniteSetsExt

CONSTANTS
    Pollers,        \* the processes
    batch_max,
    MaxRows,        \* bound: rows ever logged
    MaxMishaps      \* bound: polls that fail or die

SiemAssumption == batch_max \in Nat \ {0} /\ MaxRows \in Nat /\ MaxMishaps \in Nat

VARIABLES
    log,            \* request_log: n-th row ever, its rowid, what was done
    logged,         \* rows ever logged
    include_allowed,
    cursor,         \* siem_cursor
    poll,           \* process -> the rows its poll has selected, none if it does not poll
    appended,       \* process -> they are in the file
    file,           \* siem.jsonl: the rows that are in it
    mishaps,
    twice,          \* history: the rows that are in it more than once
    passed,         \* history: the rows numbered below what a poll was past
    disturbed       \* history: a poll has not saved its cursor, or met another

siemHistory == <<twice, passed, disturbed>>
siemVars == <<log, logged, include_allowed, cursor, poll, appended, file, mishaps, siemHistory>>

Row == [n : 1..MaxRows, rid : 1..MaxRows, action : {"block", "allow"}]
Rids(rows) == {r.rid : r \in rows}
Numbers(rows) == {r.n : r \in rows}
LastRid(rows) == Max(Rids(rows) \cup {0})

SiemTypeOK ==
    /\ log \subseteq Row /\ logged \in 0..MaxRows /\ cursor \in 0..MaxRows
    /\ \A r, s \in log : r.rid = s.rid => r = s
    /\ DOMAIN poll = Pollers
    /\ \A p \in Pollers : poll[p] \subseteq Row /\ Cardinality(poll[p]) <= batch_max
    /\ appended \in [Pollers -> BOOLEAN] /\ include_allowed \in BOOLEAN
    /\ file \subseteq 1..MaxRows /\ twice \subseteq file /\ passed \subseteq 1..MaxRows
    /\ mishaps \in 0..MaxMishaps /\ disturbed \in BOOLEAN

-----------------------------------------------------------------------------
Polling == {p \in Pollers : poll[p] # {}}

\* insertRow(), by a process that is not polling.
Log(action) ==
    LET rid == LastRid(log) + 1
    IN  /\ logged < MaxRows /\ logged' = logged + 1
        /\ Polling # Pollers
        /\ log' = log \cup {[n |-> logged + 1, rid |-> rid, action |-> action]}
        /\ passed' = IF \/ rid <= cursor
                        \/ \E p \in Polling : rid <= LastRid(poll[p])
                     THEN passed \cup {logged + 1} ELSE passed
        /\ UNCHANGED <<include_allowed, cursor, poll, appended, file, mishaps, twice, disturbed>>

\* purgeOldEntries(): the rows before some time.
Purge(n) ==
    /\ Polling # Pollers
    /\ \E r \in log : r.n <= n
    /\ log' = {r \in log : r.n > n}
    /\ UNCHANGED <<logged, include_allowed, cursor, poll, appended, file, mishaps, siemHistory>>

\* What poll() selects: WHERE rowid > ? ... ORDER BY rowid LIMIT ?
Beyond == {r \in log : r.rid > cursor /\ (include_allowed \/ r.action = "block")}
Batch == {r \in Beyond : Cardinality({s \in Beyond : s.rid <= r.rid}) <= batch_max}

\* With nothing beyond the cursor, the poll ends.
Select(p) ==
    /\ poll[p] = {} /\ Batch # {}
    /\ poll' = [poll EXCEPT ![p] = Batch]
    /\ disturbed' = (disturbed \/ Polling # {})
    /\ UNCHANGED <<log, logged, include_allowed, cursor, appended, file, mishaps, twice, passed>>

\* appendFileSync()
AppendToFile(p) ==
    /\ p \in Polling /\ ~appended[p]
    /\ file' = file \cup Numbers(poll[p])
    /\ twice' = twice \cup (file \cap Numbers(poll[p]))
    /\ appended' = [appended EXCEPT ![p] = TRUE]
    /\ UNCHANGED <<log, logged, include_allowed, cursor, poll, mishaps, passed, disturbed>>

Rest(p) ==
    /\ poll' = [poll EXCEPT ![p] = {}]
    /\ appended' = [appended EXCEPT ![p] = FALSE]

\* Wrong variant: the cursor moves to the newest row.
SavesNewest(p) ==
    /\ p \in Polling /\ appended[p] /\ Rest(p)
    /\ cursor' = LastRid(log)
    /\ UNCHANGED <<log, logged, include_allowed, file, mishaps, siemHistory>>

\* Wrong variant: the cursor is the next row to read.
SavesNext(p) ==
    /\ p \in Polling /\ appended[p] /\ Rest(p)
    /\ cursor' = LastRid(poll[p]) + 1
    /\ UNCHANGED <<log, logged, include_allowed, file, mishaps, siemHistory>>

\* setState(CURSOR_KEY, lastRid)
SaveCursor(p) ==
    /\ p \in Polling /\ appended[p] /\ Rest(p)
    /\ cursor' = LastRid(poll[p])
    /\ UNCHANGED <<log, logged, include_allowed, file, mishaps, siemHistory>>

\* The file or the database refuses, or the process dies: the poll ends where it is.
Mishap(p) ==
    /\ p \in Polling /\ Rest(p)
    /\ mishaps < MaxMishaps /\ mishaps' = mishaps + 1
    /\ disturbed' = TRUE
    /\ UNCHANGED <<log, logged, include_allowed, cursor, file, twice, passed>>

SiemInit ==
    /\ log = {} /\ logged = 0 /\ cursor = 0 /\ include_allowed \in BOOLEAN
    /\ poll = [p \in Pollers |-> {}] /\ appended = [p \in Pollers |-> FALSE]
    /\ file = {} /\ mishaps = 0 /\ twice = {} /\ passed = {} /\ disturbed = FALSE

SiemNext ==
    \/ \E action \in {"block", "allow"} : Log(action)
    \/ \E n \in 1..MaxRows : Purge(n)
    \/ \E p \in Pollers : Select(p) \/ AppendToFile(p) \/ SaveCursor(p) \/ Mishap(p)

SiemSpec == SiemInit /\ [][SiemNext]_siemVars

-----------------------------------------------------------------------------
(***************************************************************************)
(* "Events are delivered exactly once in commit order and survive          *)
(* restarts": a blocked request that the cursor is past is in the file,    *)
(* whatever was purged, polled or interrupted meanwhile, unless it was     *)
(* given a number that a poll was past already; and nothing is in the file *)
(* twice unless a poll was interrupted or met another.                     *)
(***************************************************************************)
ExactlyOnce ==
    /\ \A r \in log : r.action = "block" /\ r.rid <= cursor => r.n \in file \cup passed
    /\ twice = {} \/ disturbed

=============================================================================
