-------------------------------- MODULE Lists --------------------------------
(***************************************************************************)
(* The community lists of intel/lists.js: which entries of the subscribed  *)
(* sources are enforced.                                                   *)
(*                                                                         *)
(* Entries are rows of the database, replaced source by source in one      *)
(* transaction each.  A refresh takes the list of sources once and then    *)
(* waits for one download after the other; the job, the API and a CLI run  *)
(* may refresh at the same time, and the sources change meanwhile.  Lookups*)
(* go through an index that each process builds from all the rows when it  *)
(* has none.                                                               *)
(*                                                                         *)
(* What a source publishes is a version; what the entries match, and which *)
(* list they are for, is left out.                                         *)
(***************************************************************************)
EXTENDS Naturals

CONSTANTS
    Sources,
    Refreshers,     \* who may refresh: the job, a request, a run of the CLI
    Server, Cli,    \* the processes
    ProcessOf,      \* [Refreshers -> {Server, Cli}]
    NoRows,
    NotBuilt,
    MaxEdits,       \* bound: changes of the sources, and entries cleared by hand
    MaxVersions     \* bound: versions a source publishes

ListsAssumption ==
    /\ ProcessOf \in [Refreshers -> {Server, Cli}] /\ Server # Cli
    /\ NoRows \notin Nat /\ NotBuilt \notin [Sources -> Nat \cup {NoRows}]
    /\ MaxEdits \in Nat /\ MaxVersions \in Nat \ {0}

VARIABLES
    subscribed,     \* community_lists.sources: source -> "no", "enabled" or "disabled"
    published,      \* source -> the version it serves
    rows,           \* list_entries: source -> version
    index,          \* process -> the rows its index was built from
    refreshes,      \* Refreshers -> [known, todo], or Resting
    edits,
    outdated,       \* history: refreshes that took the list before it last changed
    settled,        \* history: the last refresh to end left nothing outdated behind
    fetched,        \* history: sources stored since the list changed and not cleared
    unheard         \* history: processes that do not know of another's last write

listVars == <<subscribed, published, rows, index, refreshes, edits, outdated, settled,
              fetched, unheard>>
history == <<outdated, settled, fetched, unheard>>

Resting == [todo |-> {}, known |-> {}, on |-> FALSE]
Refreshing == {r \in Refreshers : refreshes[r].on}

ListsInit ==
    /\ subscribed \in [Sources -> {"no", "enabled"}]
    /\ published = [s \in Sources |-> 1] /\ rows = [s \in Sources |-> NoRows]
    /\ index = [p \in {Server, Cli} |-> NotBuilt]
    /\ refreshes = [r \in Refreshers |-> Resting] /\ edits = 0
    /\ outdated = {} /\ settled = FALSE /\ fetched = {} /\ unheard = {}

ListsTypeOK ==
    /\ subscribed \in [Sources -> {"no", "enabled", "disabled"}]
    /\ published \in [Sources -> 1..MaxVersions]
    /\ rows \in [Sources -> 1..MaxVersions \cup {NoRows}]
    /\ index \in [{Server, Cli} -> [Sources -> 1..MaxVersions \cup {NoRows}] \cup {NotBuilt}]
    /\ refreshes \in [Refreshers -> [todo : SUBSET Sources, known : SUBSET Sources, on : BOOLEAN]]
    /\ edits \in 0..MaxEdits /\ outdated \subseteq Refreshers /\ settled \in BOOLEAN
    /\ fetched \subseteq Sources /\ unheard \subseteq {Server, Cli}

-----------------------------------------------------------------------------
\* invalidateIndex(), which is of the process that wrote.
Invalidate(p) ==
    /\ index' = [index EXCEPT ![p] = NotBuilt]
    /\ unheard' = (unheard \cup {Server, Cli}) \ {p}

\* refreshAll(): the list is taken once; a disabled source is passed over.
Begin(r) ==
    /\ ~refreshes[r].on
    /\ refreshes' = [refreshes EXCEPT ![r] =
          [on |-> TRUE, known |-> {s \in Sources : subscribed[s] # "no"},
           todo |-> {s \in Sources : subscribed[s] = "enabled"}]]
    /\ UNCHANGED <<subscribed, published, rows, index, edits, history>>

\* Wrong variant: the index is kept when the source has as many entries as before.
KeepIndexIfAsMany(p, s) ==
    IF rows[s] = NoRows THEN Invalidate(p) ELSE UNCHANGED <<index, unheard>>

\* ... what is done after a source has been stored.
Stored(p, s) == Invalidate(p)

\* refreshSource(): the download has come; its rows replace those of the source.
Store(r, s) ==
    /\ s \in refreshes[r].todo
    /\ rows' = [rows EXCEPT ![s] = published[s]]
    /\ Stored(ProcessOf[r], s)
    /\ refreshes' = [refreshes EXCEPT ![r].todo = @ \ {s}]
    /\ fetched' = IF r \in outdated THEN fetched ELSE fetched \cup {s}
    /\ UNCHANGED <<subscribed, published, edits, outdated, settled>>

\* It could not be downloaded or has nothing in it: what was there stays.
Skip(r, s) ==
    /\ s \in refreshes[r].todo
    /\ refreshes' = [refreshes EXCEPT ![r].todo = @ \ {s}]
    /\ UNCHANGED <<subscribed, published, rows, index, edits, history>>

\* The rows of sources that the refresh does not know are deleted.
Orphans(r) == {s \in Sources \ refreshes[r].known : rows[s] # NoRows}
End(r) ==
    /\ refreshes[r].on /\ refreshes[r].todo = {}
    /\ rows' = [s \in Sources |-> IF s \in Orphans(r) THEN NoRows ELSE rows[s]]
    /\ IF Orphans(r) = {} THEN UNCHANGED <<index, unheard>> ELSE Invalidate(ProcessOf[r])
    /\ refreshes' = [refreshes EXCEPT ![r] = Resting]
    /\ outdated' = outdated \ {r} /\ settled' = (outdated = {})
    /\ fetched' = IF r \in outdated THEN {} ELSE fetched
    /\ UNCHANGED <<subscribed, published, edits>>

\* A process ends, and its refreshes with it.
Stop(p) ==
    /\ \E r \in Refreshing : ProcessOf[r] = p
    /\ refreshes' = [r \in Refreshers |-> IF ProcessOf[r] = p THEN Resting ELSE refreshes[r]]
    /\ index' = [index EXCEPT ![p] = NotBuilt]
    /\ outdated' = {r \in outdated : ProcessOf[r] # p} /\ settled' = FALSE
    /\ fetched' = {} /\ unheard' = unheard \ {p}
    /\ UNCHANGED <<subscribed, published, rows, edits>>

-----------------------------------------------------------------------------
\* The settings group is stored with another list; rows are left to the next refresh.
Edit(s) ==
    /\ edits < MaxEdits /\ edits' = edits + 1
    /\ \E to \in {"no", "enabled", "disabled"} \ {subscribed[s]} :
          subscribed' = [subscribed EXCEPT ![s] = to]
    /\ outdated' = Refreshing /\ settled' = FALSE /\ fetched' = {}
    /\ UNCHANGED <<published, rows, index, refreshes, unheard>>

\* clearSource(), and clearAll() of `catwaf cache clear community-lists`.
Clear(p, cleared) ==
    /\ edits < MaxEdits /\ edits' = edits + 1
    /\ rows' = [s \in Sources |-> IF s \in cleared THEN NoRows ELSE rows[s]]
    /\ Invalidate(p) /\ fetched' = fetched \ cleared
    /\ UNCHANGED <<subscribed, published, refreshes, outdated, settled>>

Publish(s) ==
    /\ published[s] < MaxVersions /\ published' = [published EXCEPT ![s] = @ + 1]
    /\ UNCHANGED <<subscribed, rows, index, refreshes, edits, history>>

\* checkSubscribed(): a lookup builds the index.
Lookup(p) ==
    /\ index[p] = NotBuilt /\ index' = [index EXCEPT ![p] = rows]
    /\ unheard' = unheard \ {p}
    /\ UNCHANGED <<subscribed, published, rows, refreshes, edits, outdated, settled, fetched>>

ListsNext ==
    \/ \E r \in Refreshers :
          Begin(r) \/ End(r) \/ \E s \in Sources : Store(r, s) \/ Skip(r, s)
    \/ \E s \in Sources : Edit(s) \/ Publish(s) \/ Clear(Server, {s})
    \/ Clear(Cli, Sources) \/ Lookup(Server) \/ Stop(Server) \/ Stop(Cli)

ListsSpec == ListsInit /\ [][ListsNext]_listVars

-----------------------------------------------------------------------------
\* lists.js:172-173: once a refresh has ended that knew the present list, and none is left
\* that did not, no rows of an unsubscribed source are enforced, and those that were stored
\* for this list are still there.
RowsFollowSubscriptions ==
    settled => /\ \A s \in Sources : rows[s] # NoRows => subscribed[s] # "no"
               /\ \A s \in fetched : rows[s] # NoRows

\* lists.js:157: what a process looks up is what the table holds, but for what another
\* process wrote last.
LookupsAreCurrent ==
    \A p \in {Server, Cli} : index[p] # NotBuilt /\ p \notin unheard => index[p] = rows

ListsHold == RowsFollowSubscriptions /\ LookupsAreCurrent

=============================================================================
