------------------------------ MODULE Settings ------------------------------
(***************************************************************************)
(* The extended settings: settings/index.js.                               *)
(*                                                                         *)
(* Each group is a row of the database and a revision counter is another.  *)
(* Every process keeps what it has read of the groups, and drops all of it *)
(* when it finds the counter moved; it looks at most once a second.  Who   *)
(* writes holds the configuration lock, so writes never overlap, but what  *)
(* is written may be built on what the cache holds.                        *)
(*                                                                         *)
(* A value of a field is the number of the write it comes from, 0 for the  *)
(* default.                                                                *)
(***************************************************************************)
EXTENDS Integers, FiniteSets, FiniteSetsExt

CONSTANTS
    Processes,      \* the API server, runs of the CLI
    Groups,
    Fields,
    NotCached,
    Unseen,         \* seenRev: undefined
    MaxWrites,      \* bound: writes
    MaxFaults,      \* bound: counters that are not moved
    MaxSecond       \* bound: the clock

SettingsAssumption ==
    NotCached \notin [Fields -> Nat] /\ Unseen \notin Nat /\ IsFiniteSet(Groups)
SettingsBoundsAssumption ==
    MaxWrites \in Nat /\ MaxFaults \in Nat /\ MaxSecond \in Nat \ {0}

VARIABLES
    stored,     \* the rows ext:<group>
    rev,        \* the row ext:__rev
    cache,      \* process -> group -> value
    seenRev,    \* process -> the counter when it was last looked at
    checked,    \* process -> lastRevCheck, 0 for "look again"
    writes,
    unmoved,    \* counters that were not moved
    second,
    used,       \* history: how old the cached value was that was last relied on
    asOf,       \* history: process -> group -> when its cache was last true
    missed      \* history: process -> it will not hear of a write to what it has cached

copies == <<cache, seenRev, checked>>
settingsVars == <<stored, rev, copies, writes, unmoved, second, used, asOf, missed>>

Value == [Fields -> 0..MaxWrites]
Defaults == [f \in Fields |-> 0]
Empty == [g \in Groups |-> NotCached]
NoUse == [lag |-> 0, missed |-> FALSE]

SettingsTypeOK ==
    /\ stored \in [Groups -> Value] /\ rev \in Nat
    /\ cache \in [Processes -> [Groups -> Value \cup {NotCached}]]
    /\ seenRev \in [Processes -> Nat \cup {Unseen}]
    /\ checked \in [Processes -> 0..second]
    /\ writes \in 0..MaxWrites /\ unmoved \in 0..MaxFaults /\ second \in 1..MaxSecond
    /\ used \in [lag : 0..second, missed : BOOLEAN]
    /\ asOf \in [Processes -> [Groups -> 0..second]]
    /\ missed \in [Processes -> BOOLEAN]

-----------------------------------------------------------------------------
\* The last look was less than REV_CHECK_MS ago, which may span two seconds of the clock.
REV_CHECK == 2
MayLook(p, look) ==
    IF look THEN checked[p] # second ELSE checked[p] > 0 /\ second - checked[p] < REV_CHECK

\* Wrong variant: what is cached stays when the counter has moved.
KeptCache(p, look) == cache[p]

\* syncRev(): what it leaves of the cache, and of the counter that was seen.
Left(p, look) == IF look /\ seenRev[p] # rev THEN Empty ELSE cache[p]
Counter(p, look) == IF look THEN rev ELSE seenRev[p]
Looked(p, look) == IF look THEN second ELSE checked[p]

\* get(): the cached value, or the row.
Got(p, look, g) == IF Left(p, look)[g] = NotCached THEN stored[g] ELSE Left(p, look)[g]

\* To rely on the cached values of `groups`.
Use(p, look, groups) ==
    LET cached == {g \in groups : Left(p, look)[g] # NotCached}
        lag(g) == IF cache[p][g] = stored[g] THEN 0 ELSE second - asOf[p][g]
    IN  used' = IF cached = {} THEN NoUse
                ELSE [lag |-> Max({lag(g) : g \in cached}), missed |-> missed[p]]

\* A cache is true of a group if it holds the row, or nothing.
True(p, g) == cache'[p][g] \in {stored'[g], NotCached}

\* `deaf`: the processes that this step keeps from hearing of a write.
Remember(deaf) ==
    /\ asOf' = [p \in Processes |-> [g \in Groups |->
          IF True(p, g) THEN second'
          ELSE IF second' - asOf[p][g] > REV_CHECK THEN 0 ELSE asOf[p][g]]]
    /\ missed' = [p \in Processes |->
          (\E g \in Groups : ~True(p, g)) /\ (missed[p] \/ p \in deaf)]

Get(p, g, look) ==
    /\ MayLook(p, look)
    /\ cache' = [cache EXCEPT ![p] = [Left(p, look) EXCEPT ![g] = Got(p, look, g)]]
    /\ seenRev' = [seenRev EXCEPT ![p] = Counter(p, look)]
    /\ checked' = [checked EXCEPT ![p] = Looked(p, look)]
    /\ Use(p, look, {g})
    /\ UNCHANGED <<stored, rev, writes, unmoved, second>> /\ Remember({})

-----------------------------------------------------------------------------
(* Writes, under the configuration lock.                                   *)

\* bumpRev(): the counter that was seen becomes the one written, whoever moved it
\* since the last look.  If that fails, or the process dies first, nobody else hears
\* of the write.
BumpRev(p, look, steps) ==
    \/ /\ rev' = rev + steps
       /\ seenRev' = [seenRev EXCEPT ![p] = rev']
       /\ checked' = [checked EXCEPT ![p] = second]
       /\ UNCHANGED unmoved
       /\ Remember(IF Counter(p, look) = rev THEN {} ELSE {p})
    \/ /\ unmoved < MaxFaults /\ unmoved' = unmoved + 1 /\ UNCHANGED rev
       /\ seenRev' = [seenRev EXCEPT ![p] = Counter(p, look)]
       /\ checked' = [checked EXCEPT ![p] = Looked(p, look)]
       /\ Remember(Processes \ {p})

\* The values of all groups, of which some are new.
Replaced(groups, values) ==
    [g \in Groups |-> IF g \in DOMAIN values THEN values[g] ELSE groups[g]]

Write(p, look, values, steps) ==
    /\ writes < MaxWrites /\ writes' = writes + 1
    /\ stored' = Replaced(stored, values)
    /\ cache' = [cache EXCEPT ![p] = Replaced(Left(p, look), values)]
    /\ UNCHANGED second
    /\ BumpRev(p, look, steps)

\* set(): one field is changed, the others are as they were cached.
Set(p, g, f, look) ==
    /\ MayLook(p, look) /\ Use(p, look, {g})
    /\ Write(p, look, [h \in {g} |-> [Got(p, look, g) EXCEPT ![f] = writes + 1]], 1)

\* reset(), and replace() with what a backup holds: nothing is read.
Reset(p, g) == Write(p, FALSE, [h \in {g} |-> Defaults], 1) /\ used' = NoUse

\* snapshot() and restore(), around a configuration that is refused.
Rollback(p, look) ==
    /\ MayLook(p, look) /\ Use(p, look, Groups)
    /\ Write(p, look, [g \in Groups |-> Got(p, look, g)], Cardinality(Groups))

\* reloadAllFromDb(), or a new process.
Reload(p) ==
    /\ cache' = [cache EXCEPT ![p] = Empty]
    /\ seenRev' = [seenRev EXCEPT ![p] = Unseen] /\ checked' = [checked EXCEPT ![p] = 0]
    /\ used' = NoUse
    /\ UNCHANGED <<stored, rev, writes, unmoved, second>> /\ Remember({})

\* A look too long ago is as good as none.
Second ==
    /\ second < MaxSecond /\ second' = second + 1
    /\ checked' = [p \in Processes |-> IF checked[p] = second THEN second ELSE 0]
    /\ used' = NoUse
    /\ UNCHANGED <<stored, rev, cache, seenRev, writes, unmoved>> /\ Remember({})

SettingsInit ==
    /\ stored = [g \in Groups |-> Defaults] /\ rev = 0
    /\ cache = [p \in Processes |-> Empty]
    /\ seenRev = [p \in Processes |-> Unseen] /\ checked = [p \in Processes |-> 0]
    /\ writes = 0 /\ unmoved = 0 /\ second = 1 /\ used = NoUse
    /\ asOf = [p \in Processes |-> [g \in Groups |-> 1]]
    /\ missed = [p \in Processes |-> FALSE]

SettingsNext ==
    \/ \E p \in Processes, look \in BOOLEAN :
          \/ \E g \in Groups : Get(p, g, look) \/ \E f \in Fields : Set(p, g, f, look)
          \/ Rollback(p, look)
    \/ \E p \in Processes : Reload(p) \/ \E g \in Groups : Reset(p, g)
    \/ Second

SettingsSpec == SettingsInit /\ [][SettingsNext]_settingsVars

-----------------------------------------------------------------------------
(***************************************************************************)
(* Another process's write is heard of within a second: a value that is    *)
(* relied on (answered, kept by an update of other fields, or rolled back  *)
(* to) was the stored one then or a second ago; except that a process that *)
(* writes before it has heard, or that is not told because the counter did *)
(* not move, may keep what it has until the next write.                    *)
(***************************************************************************)
HeardWithinASecond == used.lag <= 1 \/ used.missed

=============================================================================
