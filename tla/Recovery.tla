------------------------------ MODULE Recovery -------------------------------
(***************************************************************************)
(* The ways back and the presets: snapshots of the WAF state with the      *)
(* safety snapshot of a restore (snapshots.js, audit.js), the operating    *)
(* modes and their record (modes.js), templates (templates.js) and the     *)
(* restore of a backup (backups.js).  The server works on its memory, a    *)
(* command of the CLI on what it reads when it starts.  A transaction      *)
(* (WafConfig) is one step here: it stores the whole of the memory it      *)
(* works on, with the change or, rolled back, without it.  What a process  *)
(* does outside its transaction is a step of its own, with the other       *)
(* process in between.                                                     *)
(***************************************************************************)
EXTENDS Naturals, Sequences, SequencesExt, TLC

CONSTANTS
    Server, Cli,
    ModesTried, Edits,      \* the modes set, and changes of the WAF state made elsewhere
    Ids,                    \* names of custom templates
    SNAPSHOTS,              \* how many snapshots are kept (50)
    NoMode, NoTemplate, NoBackup,
    MaxSteps                \* bound: operations begun

Processes == {Server, Cli}

\* modes.js MODES, each with the fields it sets; a mode blocks when its engine is on.
Steady(level, threshold, log) ==
    [engine |-> "On", paranoia_level |-> level,
     executing_paranoia_level |-> IF level = 1 THEN 2 ELSE level,
     inbound_anomaly_threshold |-> threshold,
     outbound_anomaly_threshold |-> IF threshold = 5 THEN 4 ELSE threshold,
     sampling_percentage |-> 100, audit_log |-> log]
MODES ==
    [normal      |-> Steady(1, 5, TRUE),
     lockdown    |-> [request_body_inspection |-> TRUE] @@ Steady(4, 3, TRUE),
     learning    |-> [engine |-> "DetectionOnly"] @@ Steady(3, 5, TRUE),
     maintenance |-> Steady(1, 5, FALSE)]

\* state.js DEFAULT_WAF, of the fields the modes and built-in templates set.
DEFAULT_WAF == [request_body_inspection |-> TRUE] @@ MODES.normal

\* templates.js BUILT_IN: what each sets of the WAF state.
Strict(p, e, t) == [engine |-> "On", paranoia_level |-> p, executing_paranoia_level |-> e,
                    inbound_anomaly_threshold |-> t]
BUILT_IN ==
    {Strict(2, 3, 5), Strict(3, 4, 4),
     [engine |-> "On", paranoia_level |-> 2, executing_paranoia_level |-> 2],
     [engine |-> "On", paranoia_level |-> 1, executing_paranoia_level |-> 2]}

RecoveryAssumption ==
    /\ Server # Cli /\ ModesTried \subseteq DOMAIN MODES
    /\ \A e \in Edits : DOMAIN e \subseteq DOMAIN DEFAULT_WAF
    /\ SNAPSHOTS \in Nat \ {0} /\ MaxSteps \in Nat

\* A setting with a name like a secret's that is none (cors.allow_credentials), and a secret.
Placeholder == "[REDACTED]"
Flags == {"on", "off", Placeholder}
Settings == [flag : Flags, key : {"secret", Placeholder}]
Redacted(s) == [flag |-> Placeholder, key |-> Placeholder]

VARIABLES
    waf,            \* the stored WAF state
    memory,         \* that of the server
    settings,       \* the stored settings
    record,         \* the stored mode record
    snapshots,      \* the table, by time
    templates,      \* Ids -> template or NoTemplate
    kept,           \* a backup file, or NoBackup
    pending,        \* Processes -> what its operation still has to do
    steps,          \* operations begun
    settled,        \* history: the mode set last while nobody interfered, NoMode after a change
    expected,       \* templates saved and not removed
    excuses         \* what happened that a property excepts

recoveryVars == <<waf, memory, settings, record, snapshots, templates, kept, pending, steps,
                  settled, expected, excuses>>

Idle == [op |-> "idle"]
Excuses == {"raced", "allowed", "imported"}

\* What the validation of a backup asks of these fields, and what the handlers ask besides.
KnownEngine(w) == w.engine \in {"On", "DetectionOnly", "Off"}
Sane(w) == KnownEngine(w) /\ w.executing_paranoia_level >= w.paranoia_level

RecoveryTypeOK ==
    /\ DOMAIN waf = DOMAIN DEFAULT_WAF /\ DOMAIN memory = DOMAIN DEFAULT_WAF
    /\ settings \in Settings
    /\ record \in ModesTried \cup {NoMode} /\ settled \in ModesTried \cup {NoMode}
    /\ Len(snapshots) <= SNAPSHOTS
    /\ DOMAIN templates = Ids
    /\ \A p \in Processes : pending[p].op \in {"idle", "restore", "mode", "store"}
    /\ steps \in 0..MaxSteps /\ expected \subseteq Ids /\ excuses \subseteq Excuses

RecoveryInit ==
    /\ waf = DEFAULT_WAF /\ memory = DEFAULT_WAF
    /\ settings = [flag |-> "on", key |-> "secret"]
    /\ record = NoMode /\ snapshots = <<>> /\ kept = NoBackup
    /\ templates = [i \in Ids |-> NoTemplate]
    /\ pending = [p \in Processes |-> Idle] /\ steps = 0
    /\ settled = NoMode /\ expected = {} /\ excuses = {}

-----------------------------------------------------------------------------
(* What an operation works on *)

\* state.WAF of the process: the CLI has just read it.
Memory(p) == IF p = Server THEN memory ELSE waf

Begins(p) == /\ pending[p] = Idle /\ steps < MaxSteps /\ steps' = steps + 1

\* p's transaction leaves w: the other process, in the middle of something, comes late.
Commit(p, w) ==
    /\ waf' = w /\ memory' = IF p = Server THEN w ELSE memory

Late(p) == [q \in Processes |-> IF q # p /\ pending[q].op \in {"restore", "mode"}
                                THEN [pending[q] EXCEPT !.late = TRUE] ELSE pending[q]]
Leaves(p) == [Late(p) EXCEPT ![p] = Idle]

-----------------------------------------------------------------------------
(* Changes made elsewhere: the pages and commands that edit the WAF state or a setting *)

Change(p) ==
    /\ Begins(p)
    /\ \/ \E e \in Edits : Commit(p, e @@ Memory(p)) /\ UNCHANGED settings
       \/ /\ settings' = [settings EXCEPT !.flag = IF @ = "on" THEN "off" ELSE "on"]
          /\ UNCHANGED <<waf, memory>>
    /\ pending' = Late(p) /\ settled' = NoMode
    /\ UNCHANGED <<record, snapshots, templates, kept, expected, excuses>>

\* A transaction of the server that is refused: rolling back stores the memory it began with,
\* which differs from what is stored when the CLI has written since.
Refused ==
    /\ Begins(Server) /\ memory # waf
    /\ Commit(Server, memory) /\ pending' = Late(Server) /\ settled' = NoMode
    /\ UNCHANGED <<settings, record, snapshots, templates, kept, expected, excuses>>

\* The server starts anew: it reads what is stored.
Restart ==
    /\ memory' = waf /\ pending' = [pending EXCEPT ![Server] = Idle]
    /\ memory # waf \/ pending[Server] # Idle
    /\ UNCHANGED <<waf, settings, record, snapshots, templates, kept, steps, settled, expected,
                   excuses>>

-----------------------------------------------------------------------------
(* Snapshots *)

\* audit.js snapshot: the state in memory, and all but the newest go.
Taken(w) == LET all == Append(snapshots, w)
            IN  IF Len(all) > SNAPSHOTS THEN Tail(all) ELSE all

Create(p) ==
    /\ Begins(p) /\ snapshots' = Taken(Memory(p))
    /\ UNCHANGED <<waf, memory, settings, record, templates, kept, pending, settled, expected,
                   excuses>>

\* restore: what is to come back is read, the safety snapshot taken, then the lock waited for.
Restore(p) ==
    /\ Begins(p)
    /\ \E i \in DOMAIN snapshots :
        pending' = [pending EXCEPT ![p] =
                        [op |-> "restore", back |-> snapshots[i], from |-> Memory(p), late |-> FALSE]]
    /\ snapshots' = Taken(Memory(p))
    /\ UNCHANGED <<waf, memory, settings, record, templates, kept, settled, expected, excuses>>

Restored(p) ==
    /\ pending[p].op = "restore"
    /\ \/ /\ Sane(pending[p].back)
          /\ Commit(p, pending[p].back @@ DEFAULT_WAF)
       \/ Commit(p, IF p = Server THEN memory ELSE pending[p].from)
    /\ pending' = Leaves(p) /\ settled' = NoMode
    /\ UNCHANGED <<settings, record, snapshots, templates, kept, steps, expected, excuses>>

-----------------------------------------------------------------------------
(* Modes *)

\* setMode: the transaction, then the record of the mode outside of it.
SetMode(p, m) ==
    /\ Begins(p)
    /\ LET w == MODES[m] @@ Memory(p) IN Sane(w) /\ Commit(p, w)
    /\ pending' = [Late(p) EXCEPT ![p] = [op |-> "mode", mode |-> m, late |-> FALSE]]
    /\ settled' = NoMode
    /\ UNCHANGED <<settings, record, snapshots, templates, kept, expected, excuses>>

RecordMode(p) ==
    /\ pending[p].op = "mode" /\ record' = pending[p].mode
    /\ settled' = IF pending[p].late THEN NoMode ELSE record'
    /\ pending' = Leaves(p)
    /\ UNCHANGED <<waf, memory, settings, snapshots, templates, kept, steps, expected, excuses>>

\* current(): the mode whose settings the state in memory has, and what is said of it.
Inferred(w) == {m \in DOMAIN MODES : \A k \in DOMAIN MODES[m] : w[k] = MODES[m][k]}
Drifted(w) == record # NoMode /\ record \notin Inferred(w)
SaysItBlocks(w) == (IF record # NoMode THEN MODES[record].engine ELSE w.engine) = "On"

-----------------------------------------------------------------------------
(* Templates *)

\* capture: the WAF fields and the groups, secrets left out and what looks like one redacted.
Captured(w, all) == [waf |-> w, flag |-> IF all THEN Placeholder ELSE "kept", imported |-> FALSE]

\* save, remove and importTemplate read the map, change it and store the whole of it.
Store(p, id, t) ==
    /\ pending' = [pending EXCEPT ![p] =
                       [op |-> "store", read |-> templates, id |-> id, as |-> t]]
    /\ UNCHANGED <<waf, memory, settings, record, snapshots, templates, kept, settled, expected,
                   excuses>>

Save(p, id) == Begins(p) /\ \E all \in BOOLEAN : Store(p, id, Captured(Memory(p), all))
RemoveTemplate(p, id) == Begins(p) /\ templates[id] # NoTemplate /\ Store(p, id, NoTemplate)

\* An import validates the groups of settings, not the WAF fields; anything may be in those.
Import(p, id) ==
    /\ Begins(p)
    /\ \E w \in {[paranoia_level |-> 4], Strict(2, 1, 5)} :
        Store(p, id, [waf |-> w, flag |-> "off", imported |-> TRUE])

Stored(p) ==
    /\ pending[p].op = "store"
    /\ LET o == pending[p]
       IN  /\ templates' = [o.read EXCEPT ![o.id] = o.as]
           /\ expected' = IF o.as = NoTemplate THEN expected \ {o.id} ELSE expected \cup {o.id}
           /\ excuses' = excuses \cup (IF o.read # templates THEN {"raced"} ELSE {})
    /\ pending' = [pending EXCEPT ![p] = Idle]
    /\ UNCHANGED <<waf, memory, settings, record, snapshots, kept, steps, settled>>

\* apply: settings.set validates the groups, nothing validates the WAF fields.
Valid(flag) == flag # Placeholder

Apply(p) ==
    /\ Begins(p)
    /\ \E t \in {[waf |-> w, flag |-> "kept", imported |-> FALSE] : w \in BUILT_IN}
                \cup {templates[i] : i \in Ids} :
        /\ t # NoTemplate /\ Valid(t.flag)
        /\ Commit(p, t.waf @@ Memory(p))
        /\ settings' = [settings EXCEPT !.flag = IF t.flag = "kept" THEN @ ELSE t.flag]
        /\ excuses' = excuses \cup (IF t.imported THEN {"imported"} ELSE {})
    /\ pending' = Late(p) /\ settled' = NoMode
    /\ UNCHANGED <<record, snapshots, templates, kept, expected>>

-----------------------------------------------------------------------------
(* Backups *)

BackUp(p) ==
    /\ Begins(p)
    /\ \E redact \in BOOLEAN :
        kept' = [waf |-> Memory(p), settings |-> IF redact THEN Redacted(settings) ELSE settings,
                 redacted |-> redact]
    /\ UNCHANGED <<waf, memory, settings, record, snapshots, templates, pending, settled,
                   expected, excuses>>

\* restoreFromFile, by the CLI: settings.replace validates nothing, so a redacted file is
\* refused unless the operator insists.
RestoreBackup ==
    /\ Begins(Cli) /\ kept # NoBackup
    /\ \E allowRedacted \in BOOLEAN :
        /\ kept.redacted => allowRedacted
        /\ excuses' = excuses \cup (IF kept.redacted THEN {"allowed"} ELSE {})
    /\ KnownEngine(kept.waf)
    /\ Commit(Cli, kept.waf @@ DEFAULT_WAF) /\ settings' = kept.settings
    /\ pending' = Late(Cli) /\ settled' = NoMode
    /\ UNCHANGED <<record, snapshots, templates, kept, expected>>

RecoveryNext ==
    \/ Restart \/ Refused \/ RestoreBackup
    \/ \E p \in Processes :
        \/ Change(p) \/ Create(p) \/ Restore(p) \/ Restored(p) \/ RecordMode(p) \/ Stored(p)
        \/ Apply(p) \/ BackUp(p)
        \/ \E m \in ModesTried : SetMode(p, m)
        \/ \E i \in Ids : Save(p, i) \/ RemoveTemplate(p, i) \/ Import(p, i)

-----------------------------------------------------------------------------
(* Properties *)

\* What a restore replaces is in its safety snapshot (commands.js:684: "A safety snapshot of
\* the previous state was saved"), unless the other process changed the state since this one
\* read it, which the server does when it starts and the snapshot is taken before the lock.
WhatIsReplacedIsKept ==
    [][\A p \in Processes :
        pending[p].op = "restore" /\ pending'[p] = Idle /\ waf' # waf =>
            \/ waf \in Range(snapshots)
            \/ pending[p].late
            \/ p = Server /\ pending[p].from # waf]_recoveryVars

\* A mode that was set, and nothing changed since, is the current one for whoever reads the
\* state as it is stored; and when the mode it shows is not the one in force, or does not
\* block, current() says so.
ModeIsTold ==
    /\ settled # NoMode => record = settled /\ ~Drifted(waf)
    /\ ~SaysItBlocks(waf) \/ waf.engine = "On" \/ Drifted(waf)

\* The templates are those that were saved and not removed, unless two processes stored the map at a time.
SavedTemplatesStay ==
    \/ "raced" \in excuses
    \/ \A i \in Ids : i \in expected <=> templates[i] # NoTemplate

\* The placeholder of a secret never becomes a setting, through a template or a backup, unless
\* the operator restored a redacted backup with --allow-redacted.
NoPlaceholderIsStored ==
    "allowed" \in excuses \/ Placeholder \notin {settings.flag, settings.key}

\* No way back or preset leaves a state the handlers would refuse, but for an imported
\* template: its WAF fields are stored and applied as they came.
StateStaysSane == "imported" \in excuses \/ Sane(waf)

RecoveryHolds == SavedTemplatesStay /\ NoPlaceholderIsStored /\ StateStaysSane /\ ModeIsTold

=============================================================================
