------------------------------ MODULE Mirrors ------------------------------
(***************************************************************************)
(* The mirrors of the bans: edgeBans.js renders them into a region of the  *)
(* Caddyfile, kernelBans.js into a table of nftables.  Both stop early if  *)
(* nothing changed since they last did so: the edge by a hash in the       *)
(* database, the kernel by one in memory.  Each runs in the API server     *)
(* (jobs, and two seconds after a ban) and in the CLI (`catwaf jobs run`). *)
(*                                                                         *)
(* A hash is the set it is of.  The rows to mirror are few enough for the  *)
(* limits, and none is allowlisted.  Work on either mirror is done under   *)
(* the configuration lock.                                                 *)
(***************************************************************************)
EXTENDS Naturals, FiniteSets

CONSTANTS
    Targets,        \* addresses that may be banned
    Api, Cli,       \* the processes
    Absent,         \* no region, no table, no hash
    Idle,
    MaxChanges,     \* bound: bans set, lifted or expired
    MaxTroubles     \* bound: what fails, dies or is restored

MirrorsAssumption ==
    /\ (\A set \in SUBSET Targets : Absent # set) /\ Api # Cli
    /\ Idle \notin {"asked", "written", "reloaded", "failed", "deleted"}
    /\ MaxChanges \in Nat /\ MaxTroubles \in Nat

VARIABLES
    banned,     \* active_bans
    region,     \* between the markers in the Caddyfile
    live,       \* what Caddy enforces
    lastRender, \* edge_bans_last_render
    table,      \* what nftables holds
    lastApplied,\* lastAppliedHash of the API server
    work,       \* process -> the refresh it is in
    backup,     \* the region in a backup of the Caddyfile
    said,       \* what the last refresh said
    changed,
    troubles,
    unrecorded, \* history: the region is not what lastRender was written for
    latest,     \* history: what the server was last to make of the table
    merged      \* history: the table was added to

edge == <<region, live, lastRender>>
kernel == <<table, lastApplied>>
history == <<unrecorded, latest, merged>>
mirrorVars == <<banned, edge, kernel, work, backup, said, changed, troubles, history>>

Runners == {Api, Cli}
Contents == {Absent} \cup SUBSET Targets
NoWork == [at |-> Idle, targets |-> Absent]
Nothing == "nothing"

MirrorsTypeOK ==
    /\ banned \subseteq Targets
    /\ region \in Contents /\ live \in Contents /\ backup \in Contents
    /\ lastRender \in [hash : SUBSET Targets, needsReload : BOOLEAN] \cup {Absent}
    /\ table \in Contents /\ lastApplied \in Contents
    /\ work \in [Runners -> [at : {Idle, "asked", "written", "reloaded", "failed", "deleted"},
                               targets : Contents]]
    /\ said \in {Nothing, "edge unchanged", "kernel unchanged"}
    /\ changed \in 0..MaxChanges /\ troubles \in 0..MaxTroubles
    /\ unrecorded \in BOOLEAN /\ latest \in Contents /\ merged \in BOOLEAN

-----------------------------------------------------------------------------
Trouble == troubles < MaxTroubles /\ troubles' = troubles + 1

\* The lock: at most one process is past asking for it.
LockIsFree == \A p \in Runners : work[p].at \in {Idle, "asked"}

At(p, step) == work[p].at = step

\* bans.js: any ban begins or ends, in either process; a process that is at work on a
\* mirror does nothing else, except before it has the lock.
Change(t) ==
    /\ changed < MaxChanges /\ changed' = changed + 1
    /\ banned' = (banned \ {t}) \cup ({t} \ banned)
    /\ said' = Nothing
    /\ UNCHANGED <<edge, kernel, work, backup, troubles, history>>

-----------------------------------------------------------------------------
(* edgeBans.refresh()                                                      *)

\* What is rendered already, and loaded.
EdgeUnchanged(p) ==
    /\ At(p, Idle) /\ lastRender # Absent
    /\ lastRender.hash = banned /\ ~lastRender.needsReload
    /\ said' = "edge unchanged"
    /\ UNCHANGED <<banned, edge, kernel, work, backup, changed, troubles, history>>

\* Something is to do (or it is forced): the lock is asked for.
EdgeAsk(p) ==
    /\ At(p, Idle) /\ lastRender # [hash |-> banned, needsReload |-> FALSE]
    /\ work' = [work EXCEPT ![p] = [at |-> "asked", targets |-> banned]]
    /\ said' = Nothing
    /\ UNCHANGED <<banned, edge, kernel, backup, changed, troubles, history>>

\* Under the lock the targets are collected again, and the file is written.
EdgeWrite(p) ==
    /\ At(p, "asked") /\ LockIsFree
    /\ region' = banned /\ unrecorded' = TRUE
    /\ work' = [work EXCEPT ![p] = [at |-> "written", targets |-> banned]]
    /\ said' = Nothing
    /\ UNCHANGED <<banned, live, lastRender, kernel, backup, changed, troubles, latest, merged>>

\* The Caddyfile cannot be read or written, or its markers are inconsistent.
EdgeCannot(p) ==
    /\ At(p, "asked") /\ LockIsFree /\ Trouble
    /\ work' = [work EXCEPT ![p] = NoWork] /\ said' = Nothing
    /\ UNCHANGED <<banned, edge, kernel, backup, changed, history>>

\* reloadCaddy(), which Caddy may refuse.
EdgeReload(p) ==
    /\ At(p, "written")
    /\ \/ live' = region /\ work' = [work EXCEPT ![p].at = "reloaded"] /\ UNCHANGED troubles
       \/ Trouble /\ work' = [work EXCEPT ![p].at = "failed"] /\ UNCHANGED live
    /\ said' = Nothing
    /\ UNCHANGED <<banned, region, lastRender, kernel, backup, changed, history>>

\* Wrong variant: the file holds it, so it is done.
RecordsWritten(p) ==
    /\ At(p, "reloaded") \/ At(p, "failed")
    /\ lastRender' = [hash |-> work[p].targets, needsReload |-> FALSE]
    /\ work' = [work EXCEPT ![p] = NoWork] /\ said' = Nothing /\ unrecorded' = FALSE
    /\ UNCHANGED <<banned, region, live, kernel, backup, changed, troubles, latest, merged>>

\* The hash of what was rendered is kept; if it is not loaded, with a reminder.
EdgeRecord(p) ==
    /\ At(p, "reloaded") \/ At(p, "failed")
    /\ lastRender' = [hash |-> work[p].targets, needsReload |-> At(p, "failed")]
    /\ work' = [work EXCEPT ![p] = NoWork] /\ said' = Nothing /\ unrecorded' = FALSE
    /\ UNCHANGED <<banned, region, live, kernel, backup, changed, troubles, latest, merged>>

-----------------------------------------------------------------------------
(* kernelBans.refresh(): a run of the CLI has no hash to begin with.       *)

Hash(p) == IF p = Api THEN lastApplied ELSE Absent

KernelUnchanged(p) ==
    /\ At(p, Idle) /\ LockIsFree /\ Hash(p) = banned
    /\ said' = "kernel unchanged"
    /\ UNCHANGED <<banned, edge, kernel, work, backup, changed, troubles, history>>

\* replaceTable(), first command: nft delete, whose failure is not looked at.
KernelDelete(p) ==
    /\ At(p, Idle) /\ LockIsFree /\ Hash(p) # banned
    /\ \/ table' = Absent /\ merged' = FALSE /\ UNCHANGED troubles
       \/ table # Absent /\ Trouble /\ merged' = TRUE /\ UNCHANGED table
    /\ work' = [work EXCEPT ![p] = [at |-> "deleted", targets |-> banned]]
    /\ latest' = IF p = Api THEN banned ELSE Absent
    /\ said' = Nothing
    /\ UNCHANGED <<banned, edge, lastApplied, backup, changed, unrecorded>>

Keep(p) == lastApplied' = IF p = Api THEN work[p].targets ELSE lastApplied

\* nft -f adds to a table that is there, or fails.
Nft(p) == table' = work[p].targets \cup (IF table = Absent THEN {} ELSE table)

\* Second command, and the hash if it succeeds.
KernelApply(p) ==
    /\ At(p, "deleted")
    /\ \/ /\ Nft(p) /\ Keep(p) /\ latest' = work[p].targets
          /\ UNCHANGED troubles
       \/ Trouble /\ UNCHANGED <<kernel, latest>>
    /\ work' = [work EXCEPT ![p] = NoWork] /\ said' = Nothing
    /\ UNCHANGED <<banned, edge, backup, changed, merged, unrecorded>>

-----------------------------------------------------------------------------
(* Around them.                                                            *)

\* The process ends, wherever it is; the server is started again.
Die(p) ==
    /\ Trouble /\ (p = Api \/ ~At(p, Idle))
    /\ work' = [work EXCEPT ![p] = NoWork]
    /\ lastApplied' = IF p = Api THEN Absent ELSE lastApplied
    /\ said' = Nothing
    /\ UNCHANGED <<banned, edge, table, backup, changed, history>>

\* caddy.js: any other reload loads the region too.
OtherReload ==
    /\ live # region /\ live' = region /\ said' = Nothing
    /\ UNCHANGED <<banned, region, lastRender, kernel, work, backup, changed, troubles, history>>

\* backups.js: the Caddyfile is saved, or restored as a whole and reloaded, under the
\* lock; lastRender is not part of it.
Backup ==
    /\ backup' = region /\ backup' # backup /\ said' = Nothing
    /\ UNCHANGED <<banned, edge, kernel, work, changed, troubles, history>>

RestoreBackup ==
    /\ LockIsFree /\ Trouble
    /\ region' = backup /\ live' = backup /\ unrecorded' = TRUE
    /\ said' = Nothing
    /\ UNCHANGED <<banned, lastRender, kernel, work, backup, changed, latest, merged>>

MirrorsInit ==
    /\ banned = {} /\ region = Absent /\ live = Absent /\ lastRender = Absent
    /\ table = Absent /\ lastApplied = Absent
    /\ work = [p \in Runners |-> NoWork] /\ backup = Absent /\ said = Nothing
    /\ changed = 0 /\ troubles = 0
    /\ latest = Absent /\ merged = FALSE /\ unrecorded = FALSE

MirrorsNext ==
    \/ \E t \in Targets : Change(t)
    \/ \E p \in Runners :
          \/ EdgeUnchanged(p) \/ EdgeAsk(p) \/ EdgeWrite(p) \/ EdgeCannot(p)
          \/ EdgeReload(p) \/ EdgeRecord(p)
          \/ KernelUnchanged(p) \/ KernelDelete(p) \/ KernelApply(p) \/ Die(p)
    \/ OtherReload \/ Backup \/ RestoreBackup

MirrorsSpec == MirrorsInit /\ [][MirrorsNext]_mirrorVars

-----------------------------------------------------------------------------
(***************************************************************************)
(* The edge is what it is said to be: a refresh that finds nothing to do   *)
(* leaves Caddy enforcing the bans of the moment, whoever else refreshed,  *)
(* reloaded or failed before; unless whoever changed the region last is    *)
(* still at it, died before recording it, or restored a backup.            *)
(***************************************************************************)
EdgeIsWhatItSays ==
    said = "edge unchanged" => live = banned \/ unrecorded

(***************************************************************************)
(* So is the kernel's table, and a set that was not applied is tried again;*)
(* unless the bans have come back to what they were before a refresh that  *)
(* failed or that the CLI made, or the CLI failed, or nft did not delete   *)
(* the old table.                                                          *)
(***************************************************************************)
KernelIsWhatItSays ==
    said = "kernel unchanged" => table = banned \/ latest # banned \/ merged

=============================================================================
