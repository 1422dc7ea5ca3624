------------------------------- MODULE Backups -------------------------------
(***************************************************************************)
(* The directory of the scheduled backups (services/backups.js): the job of*)
(* the server and `catwaf backup now` write into it without a lock.  A run *)
(* names its files by the second, writes a manifest of the configuration   *)
(* and, under a stamp it takes anew, a copy of the database, and then drops*)
(* the oldest manifests.  Either process may end at any point, a write may *)
(* fail.                                                                   *)
(***************************************************************************)
EXTENDS Naturals, FiniteSets, Sequences, SequencesExt

CONSTANTS
    Writers, Scheduler,     \* the processes that back up, and the one whose runs are the job's
    retain, interval,       \* the settings, `interval` in seconds for hours
    MaxRuns, MaxSecond, MaxFaults   \* bounds: runs, the clock, failures and crashes

\* Two files that must be told apart: what a run writes as its manifest and as its database.
Manifest == {"json", "json.enc"}
Database == {"db", "db.enc"}
Kinds == Manifest \cup Database \cup {"json.partial", "db.partial"}

BackupsAssumption ==
    /\ Scheduler \in Writers
    /\ retain \in Nat \ {0} /\ interval \in Nat /\ MaxRuns \in Nat \ {0}
    /\ MaxSecond \in Nat /\ MaxFaults \in Nat

VARIABLES
    encrypt,        \* the settings: BOOLEAN each
    include_database,
    directory,      \* the files: set of [stamp, kind, of]; `of` is the run that created the
                    \* file, and for a manifest the key of what it holds
    held,           \* run that created a manifest |-> the run that wrote it last, whether all
                    \* of it is there, and its mtime
    order,          \* those runs, by the time of the last write, the newest last
    at,             \* Writers -> where its run is
    mine,           \* Writers -> its run, 0 before the first
    stamps,         \* run |-> [manifest, database]: the seconds it named its files by
    clock,          \* the second
    reported,       \* runs that answered "Backup written"
    beside,         \* runs that began or were going while another was
    torn,           \* runs whose process ended while they wrote or staged
    hurt            \* failures and crashes so far

backupVars == <<encrypt, include_database, directory, held, order, at, mine, stamps, clock,
                reported, beside, torn, hurt>>

Runs == 1..MaxRuns
Started == Len(stamps)

BackupsTypeOK ==
    /\ encrypt \in BOOLEAN /\ include_database \in BOOLEAN
    /\ directory \subseteq [stamp : 0..MaxSecond, kind : Kinds, of : Runs]
    /\ held \in [Runs -> [by : Runs, whole : BOOLEAN, mtime : 0..MaxSecond]]
    /\ order \in Seq(Runs) /\ IsInjective(order)
    /\ at \in [Writers -> {"idle", "write", "writing", "rename", "database", "staged", "prune"}]
    /\ mine \in [Writers -> 0..MaxRuns]
    /\ stamps \in Seq([manifest : 0..MaxSecond, database : 0..MaxSecond])
    /\ clock \in 0..MaxSecond
    /\ reported \subseteq Runs /\ beside \subseteq Runs /\ torn \subseteq Runs /\ hurt \in 0..MaxFaults

BackupsInit ==
    /\ encrypt \in BOOLEAN /\ include_database \in BOOLEAN
    /\ directory = {} /\ order = <<>> /\ stamps = <<>>
    /\ held = [r \in Runs |-> [by |-> r, whole |-> FALSE, mtime |-> 0]]
    /\ at = [p \in Writers |-> "idle"] /\ mine = [p \in Writers |-> 0]
    /\ clock = 0 /\ reported = {} /\ beside = {} /\ torn = {} /\ hurt = 0

-----------------------------------------------------------------------------
(* Names and files *)

Present(s, k) == \E f \in directory : f.stamp = s /\ f.kind = k
FileAt(s, k) == CHOOSE f \in directory : f.stamp = s /\ f.kind = k
Without(s, K) == {f \in directory : ~(f.stamp = s /\ f.kind \in K)}
With(s, k, r) == Without(s, {k}) \cup {[stamp |-> s, kind |-> k, of |-> r]}

\* The manifests that list() shows and prune() counts, whatever they hold.
Listed == {f \in directory : f.kind \in Manifest}

\* The stamp of p's manifest, the name it writes first and the one it is known by.
Stamp(p) == stamps[mine[p]].manifest
WrittenTo == IF encrypt THEN "json.enc" ELSE "json.partial"
KnownAs == IF encrypt THEN "json.enc" ELSE "json"

Position(r) == CHOOSE i \in DOMAIN order : order[i] = r
Newer(f, g) == Position(f.of) > Position(g.of)

\* The key of the file p is writing: writeFileSync truncates the one that has the name.
Opened(p) == IF Present(Stamp(p), WrittenTo) THEN FileAt(Stamp(p), WrittenTo).of ELSE mine[p]

-----------------------------------------------------------------------------
(* A run *)

\* The job is not due while the newest file it lists is younger than the interval.
NotDue ==
    \E f \in Listed :
        /\ \A g \in Listed \ {f} : Newer(f, g)
        /\ clock < held[f.of].mtime + interval

Begin(p) ==
    /\ at[p] = "idle" /\ Started < MaxRuns
    /\ p = Scheduler => ~NotDue
    /\ stamps' = Append(stamps, [manifest |-> clock, database |-> clock])
    /\ mine' = [mine EXCEPT ![p] = Started + 1]
    /\ at' = [at EXCEPT ![p] = "write"]
    /\ LET others == {mine[q] : q \in {q \in Writers : at[q] # "idle"}}
       IN  beside' = beside \cup (IF others = {} THEN {} ELSE others \cup {Started + 1})
    /\ UNCHANGED <<encrypt, include_database, directory, held, order, clock, reported, torn, hurt>>

\* The file is opened, and empty, before what is written is in it.
Open(p) ==
    /\ at[p] = "write"
    /\ LET key == Opened(p)
       IN  /\ directory' = With(Stamp(p), WrittenTo, key)
           /\ held' = [held EXCEPT ![key] = [by |-> mine[p], whole |-> FALSE, mtime |-> clock]]
           /\ order' = Append(Remove(order, key), key)
    /\ at' = [at EXCEPT ![p] = "writing"]
    /\ UNCHANGED <<encrypt, include_database, mine, stamps, clock, reported, beside, torn, hurt>>

\* The writer has the file open: it completes it under whatever name it has by now.
Complete(p) ==
    /\ at[p] = "writing"
    /\ held' = [r \in Runs |-> IF held[r].by = mine[p]
                               THEN [held[r] EXCEPT !.whole = TRUE, !.mtime = clock]
                               ELSE held[r]]
    /\ at' = [at EXCEPT ![p] = IF encrypt THEN "database" ELSE "rename"]
    /\ UNCHANGED <<encrypt, include_database, directory, order, mine, stamps, clock, reported, beside,
                   torn, hurt>>

\* Only a plain manifest is written aside and renamed.
Rename(p) ==
    /\ at[p] = "rename" /\ Present(Stamp(p), "json.partial")
    /\ LET key == FileAt(Stamp(p), "json.partial").of
       IN  directory' = {f \in With(Stamp(p), "json", key) :
                            ~(f.stamp = Stamp(p) /\ f.kind = "json.partial")}
    /\ at' = [at EXCEPT ![p] = "database"]
    /\ UNCHANGED <<encrypt, include_database, held, order, mine, stamps, clock, reported, beside, torn, hurt>>

\* A failure of openssl, of a write or of the rename removes what has the names of the run.
GiveUp(p) ==
    /\ at[p] \in {"write", "writing", "rename"}
    /\ \/ hurt < MaxFaults /\ hurt' = hurt + 1
       \/ at[p] = "rename" /\ ~Present(Stamp(p), "json.partial") /\ UNCHANGED hurt
    /\ directory' = Without(Stamp(p), {"json.partial", "json.enc"})
    /\ at' = [at EXCEPT ![p] = "idle"]
    /\ UNCHANGED <<encrypt, include_database, held, order, mine, stamps, clock, reported, beside, torn>>

\* The database is staged in plain text, under the second it is by then.
StageDatabase(p) ==
    /\ at[p] = "database" /\ include_database
    /\ stamps' = [stamps EXCEPT ![mine[p]].database = clock]
    /\ directory' = With(clock, "db.partial", mine[p])
    /\ at' = [at EXCEPT ![p] = "staged"]
    /\ UNCHANGED <<encrypt, include_database, held, order, mine, clock, reported, beside, torn, hurt>>

\* It is renamed or encrypted; failing, the run goes on without a copy.  What another run of
\* that second has renamed away cannot be finished.
FinishDatabase(p) ==
    /\ at[p] = "staged"
    /\ LET s == stamps[mine[p]].database
           copied == {[stamp |-> s, kind |-> IF encrypt THEN "db.enc" ELSE "db",
                       of |-> mine[p]]}
       IN  \/ /\ Present(s, "db.partial")
              /\ directory' = Without(s, {"db.partial", IF encrypt THEN "db.enc" ELSE "db"})
                                \cup copied
              /\ UNCHANGED hurt
           \/ /\ ~Present(s, "db.partial")
              /\ UNCHANGED <<directory, hurt>>
           \/ /\ encrypt /\ hurt < MaxFaults /\ hurt' = hurt + 1
              /\ directory' = Without(s, {"db.partial"})
    /\ at' = [at EXCEPT ![p] = "prune"]
    /\ UNCHANGED <<encrypt, include_database, held, order, mine, stamps, clock, reported, beside, torn>>

\* All but the newest manifests go, each with the copy of the database of its name.
Extra == {f \in Listed : Cardinality({g \in Listed : Newer(g, f)}) >= retain}

\* Wrong variant: the manifests alone.
PrunedAlone == directory \ Extra

Pruned == {f \in directory : ~\E e \in Extra :
                f = e \/ (f.stamp = e.stamp /\ f.kind \in Database)}

Prune(p) ==
    /\ \/ at[p] = "prune"
       \/ at[p] = "database" /\ ~include_database
    /\ directory' = Pruned
    /\ reported' = reported \cup {mine[p]}
    /\ at' = [at EXCEPT ![p] = "idle"]
    /\ UNCHANGED <<encrypt, include_database, held, order, mine, stamps, clock, beside, torn, hurt>>

\* The process ends.
Crash(p) ==
    /\ at[p] # "idle" /\ hurt < MaxFaults
    /\ torn' = torn \cup {mine[p]} /\ hurt' = hurt + 1
    /\ at' = [at EXCEPT ![p] = "idle"]
    /\ UNCHANGED <<encrypt, include_database, directory, held, order, mine, stamps, clock, reported, beside>>

TheSecondTurns ==
    /\ clock < MaxSecond /\ clock' = clock + 1
    /\ UNCHANGED <<encrypt, include_database, directory, held, order, at, mine, stamps, reported, beside,
                   torn, hurt>>

BackupsNext ==
    \/ TheSecondTurns
    \/ \E p \in Writers :
        Begin(p) \/ Open(p) \/ Complete(p) \/ Rename(p) \/ GiveUp(p) \/ StageDatabase(p)
        \/ FinishDatabase(p) \/ Prune(p) \/ Crash(p)

-----------------------------------------------------------------------------
(* Properties *)

\* Two runs took the same second for their manifests: then the files of one are the other's.
SameSecond(r) == \E s \in 1..Started \ {r} : stamps[s].manifest = stamps[r].manifest
Going(r) == \E p \in Writers : at[p] # "idle" /\ mine[p] = r

\* "An interrupted backup never leaves a truncated file that looks complete" (backups.js:100).
\* It does when the backup is encrypted, because openssl's output is not written aside, and
\* when another run of that second has renamed the file one is writing.
ListedAreWhole ==
    \A f \in Listed :
        \/ held[f.of].whole
        \/ Going(held[f.of].by)
        \/ held[f.of].by \in torn /\ encrypt
        \/ SameSecond(held[f.of].by)

\* A backup that was reported is there, and whole, until `retain` runs have begun after it to
\* write theirs.  Not so when another run had its second: it overwrites the file, or fails and
\* removes it.
ReportedStay ==
    \A r \in reported :
        \/ \E f \in Listed : f.of = r /\ held[r].by = r /\ held[r].whole
        \/ SameSecond(r)
        \/ Cardinality({s \in 1..Started : s # r /\ \E i, j \in DOMAIN order :
                            order[i] = r /\ order[j] = s /\ j > i}) >= retain

\* "Each manifest's database sibling is pruned with it so they never drift" (backups.js:170).
\* They do when the second turned between the two stamps: that copy stays for ever.  So it
\* does when another run has pruned the manifest before the copy is made, or had its second.
SiblingsNeverDrift ==
    \A f \in directory :
        f.kind \in Database =>
            \/ \E m \in Listed : m.stamp = f.stamp
            \/ Going(f.of)
            \/ stamps[f.of].database # stamps[f.of].manifest
            \/ SameSecond(f.of)
            \/ f.of \in beside

\* The plaintext of an encrypted backup is there while it is being encrypted only, unless the
\* process ends right then: nothing removes that copy later.
NoPlaintextStays ==
    encrypt => \A f \in directory :
        /\ f.kind \notin {"json", "json.partial", "db"}
        /\ f.kind = "db.partial" => Going(f.of) \/ f.of \in torn

BackupsHold == ListedAreWhole /\ ReportedStay /\ SiblingsNeverDrift /\ NoPlaintextStays

=============================================================================
