----------------------------- MODULE MCServices -----------------------------
(***************************************************************************)
(* What the API server does in the background and the CLI does beside it:  *)
(* settings, scheduled jobs, mirrors of the bans, the SIEM stream, alerts, *)
(* the challenge gate, the routes of discovered applications, the regions  *)
(* of the Caddyfile, backups, snapshots with modes and templates, the      *)
(* command line, discovery, reachability, CatAI's dialogue and the reading *)
(* of the audit log, each on an instance of its own.  Of what they share in*)
(* the code (the database, the lock) each module has what it uses and      *)
(* leaves open what the others may do with it, so one part runs in each    *)
(* behaviour.                                                              *)
(***************************************************************************)
EXTENDS Integers, FiniteSets, Sequences, SequencesExt

VARIABLES
    part,
    stored, rev, cache, seenRev, checked, writes, unmoved, second, used, asOf, missed,
    runs, running, pass, off, manual, reload, restarts,
    banned, region, live, lastRender, table, lastApplied, work, backup, said, changed,
    troubles, unrecorded, latest, merged,
    log, logged, include_allowed, cursor, poll, appended, file, mishaps, twice, passed,
    disturbed,
    claims, sending, busy, ends, heard, dropped,
    pending, attempts, verifying, issued, expelled, tries,
    assigned, caddyfile, settled, mine, plan, section, provision, begun, expected,
    overwritten, loose,
    text, own, wrote, edits,
    encrypt, include_database, directory, held, order, at, stamp, stamps, clock, reported, beside,
    torn, hurt,
    waf, memory, settings, record, snapshots, templates, kept, offered, steps, quiet, promised,
    excuses,
    line, parsed, phase, handler, answered, done, exit, level, moot, others,
    world, outcomes, records, stage,
    proxyAt, joined, born, up, page, engine, caddy, routed, run, results, changes, shaken,
    troubled,
    protection, ring, slot, failures, open, turns, shown, meddled, faults, chain,
    audit_log, truncations, next, request_log, saved, lastReadOffset, reading, starts

settingsVars == <<stored, rev, cache, seenRev, checked, writes, unmoved, second, used, asOf,
                  missed>>
jobVars == <<runs, running, pass, off, manual, reload, restarts>>
mirrorVars == <<banned, region, live, lastRender, table, lastApplied, work, backup, said,
                changed, troubles, unrecorded, latest, merged>>
siemVars == <<log, logged, include_allowed, cursor, poll, appended, file, mishaps, twice,
              passed, disturbed>>
alertVars == <<claims, sending, busy, ends, heard, dropped>>
challengeVars == <<pending, attempts, verifying, issued, expelled, tries>>
routeVars == <<assigned, caddyfile, settled, mine, plan, section, provision, begun, expected,
               overwritten, loose>>
textVars == <<text, own, wrote, edits>>
backupVars == <<encrypt, include_database, directory, held, order, at, stamp, stamps, clock,
                reported, beside, torn, hurt>>
recoveryVars == <<waf, memory, settings, record, snapshots, templates, kept, offered, steps,
                  quiet, promised, excuses>>
lineVars == <<line, parsed, phase, handler, answered, done, exit, level, moot, others>>
worldVars == <<world, outcomes, records, stage>>
reachVars == <<proxyAt, joined, born, up, page, engine, caddy, routed, run, results, changes,
               shaken, troubled>>
talkVars == <<protection, ring, slot, failures, open, turns, shown, meddled, faults, chain>>
readerVars == <<audit_log, truncations, next, request_log, saved, lastReadOffset, reading,
                starts>>
aboutVars == <<worldVars, reachVars, talkVars, readerVars>>
gateVars == <<challengeVars, routeVars, textVars, backupVars, recoveryVars, lineVars,
              aboutVars>>

CONSTANTS NotCached, Unseen, NoJob, Absent, Never, NoPort, NoMode, NoTemplate, NoBackup,
          NoRoute, NoOffset

P == INSTANCE Settings WITH Processes <- {"server", "cli"}, Groups <- {"g", "h"},
        Fields <- {"a", "b"}, MaxWrites <- 2, MaxFaults <- 1, MaxSecond <- 3

J == INSTANCE Jobs WITH JobList <- <<"sweep", "scan">>, RunOnStart <- {"sweep"},
        Ending <- {"scan"}, ReloadAfter <- {"scan"}, MaxPasses <- 2,
        ByHand <- {"scan", "sweep"}, Switched <- {"scan"}, MaxRestarts <- 1

M == INSTANCE Mirrors WITH Targets <- {"t"}, Api <- "api", Cli <- "cli", Idle <- "idle",
        MaxChanges <- 3, MaxTroubles <- 2

E == INSTANCE Siem WITH Pollers <- {"server", "cli"}, batch_max <- 2, MaxRows <- 3,
        MaxMishaps <- 1

L == INSTANCE Alerts WITH Senders <- {"server", "cli"}, Kinds <- {"spike", "new_ban"},
        Gap <- 2, Longest <- 1, MaxEnds <- 1

H == INSTANCE Challenge WITH Addresses <- {"a", "b"}, resolve_seconds <- 1,
        max_attempts <- 2, MAX_PENDING <- 2, MAX_ATTEMPTS_ENTRIES <- 1, MaxIds <- 3

R == INSTANCE AutoRoutes WITH Apps <- {"shop", "blog", "replica"},
        Key <- [shop |-> "shop", blog |-> "blog", replica |-> "blog"],
        Ports <- 8080..8082, Api <- "api", Cli <- "cli",
        MaxRuns <- 2, MaxUpdates <- 1, MaxProvisions <- 1

\* A file of the operator: a site, options before it, and options alone.
C == INSTANCE Caddyfile WITH MaxEdits <- 4, Files <-
        LET options == <<<<"open", "options">>, <<"text", "operator">>>>
            site == <<<<"open", "site">>, <<"text", "operator">>, <<"close", "block">>>>
        IN  {<<>>, site, options \o <<<<"close", "block">>>> \o site \o site,
             options \o <<<<"order", "coraza_waf">>, <<"close", "block">>>>}

B == INSTANCE Backups WITH mine <- stamp, Writers <- {"server", "cli"}, Scheduler <- "server",
        retain <- 1, interval <- 1, MaxRuns <- 3, MaxSecond <- 1, MaxFaults <- 1

V == INSTANCE Recovery WITH pending <- offered, settled <- quiet, expected <- promised,
        Server <- "server", Cli <- "cli", ModesTried <- {"normal", "lockdown"},
        Edits <- {[engine |-> "DetectionOnly"], [request_body_inspection |-> FALSE]},
        Ids <- {"a", "b"}, SNAPSHOTS <- 2, MaxSteps <- 3

\* The commands, each with at most one option anywhere and --yes or --json at its end.
CommandWords ==
    {<<"rules", "enable", "it">>, <<"audit">>, <<"mode", "monitor">>, <<"mode", "normal">>,
     <<"paranoia", "1">>, <<"paranoia", "3">>, <<"config", "snapshot">>,
     <<"config", "restore", "it">>, <<"settings", "group">>, <<"settings", "group", "a=1">>,
     <<"settings", "group", "a=1", "b=1">>, <<"bans", "add", "it">>, <<"bans", "lift", "it">>,
     <<"bans", "clear">>, <<"template", "save", "it">>, <<"template", "apply", "it">>,
     <<"template", "remove", "it">>, <<"report">>, <<"jobs", "run", "it">>, <<"backup", "now">>,
     <<"backup", "restore", "it">>, <<"cache", "clear", "it">>, <<"2fa", "enroll">>,
     <<"2fa", "disable">>, <<"user", "add", "it">>, <<"user", "remove", "it">>,
     <<"user", "role", "it", "it">>, <<"provision">>, <<"uninstall">>, <<"auto">>, <<"start">>,
     <<"stop">>, <<"restart">>, <<"explain">>, <<"simulate">>, <<"replay", "it">>, <<"health">>,
     <<"security-test">>, <<"diff">>}
CommandOptions ==
    [kind : {"bare"}, name : {"yes", "json", "dry-run", "preview", "reset", "set", "apply",
                              "no-auto", "purge-data", "watch"}]
    \cup {[kind |-> "given", name |-> "yes", value |-> "false"],
          [kind |-> "given", name |-> "last", value |-> "bad"],
          [kind |-> "short", name |-> "y"], [kind |-> "stop"]}
    \cup [kind : {"given"}, name : {"password", "out", "url"}, value : {"it"}]
CommandLines ==
    LET typed == {[i \in DOMAIN w |-> [kind |-> "word", name |-> w[i]]] : w \in CommandWords}
        one == UNION {{l} \cup {InsertAt(l, i, o) : i \in 1..Len(l) + 1, o \in CommandOptions} :
                      l \in typed}
    IN  one \cup {Append(l, [kind |-> "bare", name |-> f]) : l \in one, f \in {"yes", "json"}}

K == INSTANCE Commands WITH plan <- handler, changed <- done, Lines <- CommandLines,
        MaxOthers <- 1

\* A web server, a PHP backend and another container, of some kinds each.
Box == [name |-> "box", service |-> "box", image |-> {}, runs |-> {}, running |-> TRUE,
        ports |-> <<>>, nets |-> {"a"}, labels |-> {}, listens |-> {}, passes |-> <<>>,
        proxies |-> <<>>, env |-> {}, files |-> {}, page |-> {}, http |-> TRUE]
Nginx == [name |-> "web", service |-> "web", image |-> {"nginx"}, runs |-> {"nginx"},
          ports |-> 80 :> NoPort, listens |-> {80}] @@ Box
Fpm == [name |-> "php", service |-> "fpm", image |-> {"php", "fpm"}, runs |-> {"php-fpm"},
        ports |-> 9000 :> NoPort, env |-> {"PHP_VERSION"}] @@ Box
App == [name |-> "app", service |-> "app"] @@ Box
To(h) == [to |-> h, local |-> h = "socket", commented |-> FALSE]
Stock == [To("socket") EXCEPT !.commented = TRUE]
Webs ==
    {[Nginx EXCEPT !.passes = <<Stock>>],
     [Nginx EXCEPT !.passes = <<Stock, To("fpm")>>, !.ports = 80 :> 8080],
     [Nginx EXCEPT !.passes = <<To("fpm")>>, !.image = {}, !.nets = {"a", "b"}],
     [Nginx EXCEPT !.passes = <<To("web")>>, !.runs = {"nginx", "php-fpm"}],
     [Nginx EXCEPT !.passes = <<To("socket")>>, !.runs = {"nginx", "php-fpm"},
                   !.files = {"index.php", "wp-config.php"}],
     [Nginx EXCEPT !.proxies = <<"elsewhere", "app">>],
     [Nginx EXCEPT !.ports = (7000 :> NoPort) @@ (8080 :> 8081), !.listens = {7000}],
     [Nginx EXCEPT !.runs = {"caddy"}, !.image = {"caddy"}, !.nets = {"host"}],
     [Nginx EXCEPT !.files = {"index.php"}, !.env = {"PHP_VERSION"}, !.page = {"powered"},
                   !.ports = 80 :> 8080]}
Backends ==
    {Fpm, [Fpm EXCEPT !.ports = 9000 :> 9000, !.http = FALSE, !.image = {}, !.env = {}],
     [Fpm EXCEPT !.runs = {"apache", "php-fpm"}, !.image = {"apache", "php"},
                 !.ports = 80 :> NoPort, !.listens = {80}, !.passes = <<To("socket")>>],
     [Fpm EXCEPT !.running = FALSE, !.runs = {}], [Fpm EXCEPT !.nets = {"b"}]}
Neighbours ==
    {[App EXCEPT !.image = {"node"}, !.runs = {"node"}, !.ports = 3000 :> NoPort],
     [App EXCEPT !.ports = 5432 :> 5432, !.http = FALSE],
     [App EXCEPT !.ports = 9000 :> 9000, !.http = FALSE],
     [App EXCEPT !.image = {"apache", "php"}, !.runs = {"apache"}, !.env = {"WORDPRESS"},
                 !.ports = 80 :> 8082, !.page = {"body"}, !.labels = {"traefik"}],
     [App EXCEPT !.image = {"fpm", "php"}, !.runs = {"php-fpm"}, !.ports = 9001 :> NoPort],
     [App EXCEPT !.nets = {"b"}, !.image = {"nginx"}, !.runs = {"nginx", "python"},
                 !.ports = 8443 :> NoPort, !.listens = {80}]}
Elsewhere == <<Nginx, Fpm, App>>
D == INSTANCE Discovery WITH MaxFaults <- 1,
        Worlds <- {<<w, b, n>> : w \in Webs, b \in Backends, n \in Neighbours} \cup {Elsewhere}

N == INSTANCE Reach WITH live <- routed, disturbed <- shaken,
        Apps <- <<"shop", "blog", "wiki">>,
        Service <- [shop |-> "web", blog |-> "blog", wiki |-> "web"],
        AppNetworks <- [shop |-> <<"front">>, blog |-> <<"back", "front">>, wiki |-> <<"side">>],
        Published <- {"blog"}, Routable <- {"front", "back"}, ProxyNetworks <- {"edge"},
        MaxChanges <- 2

\* The viewer asks for what only an admin may; the tools may propose anything.
T == INSTANCE Dialogue WITH waf <- protection, others <- meddled,
        Docks <- {"desk", "reader"}, Role <- [desk |-> "admin", reader |-> "viewer"],
        Own <- [desk |-> "a", reader |-> "b"], Addresses <- {"a", "b"}, Levels <- 1..2,
        Asked <- [desk |-> {[found |-> "action", act |-> [id |-> "paranoia.set", level |-> 2]],
                            [found |-> "incomplete", act |-> [id |-> "ip.unblock"]],
                            [found |-> "tools", act |-> [id |-> "none"]]},
                  reader |-> {[found |-> "action", act |-> [id |-> "ip.block", ip |-> "a"]]}],
        MAX_ENTRIES <- 2, BREAKER_THRESHOLD <- 2, MaxAsked <- 2, MaxOthers <- 1, MaxFaults <- 1

\* The second row is as long as what is read at a time, the third longer.
Q == INSTANCE Reader WITH Readers <- {"server", "cli"}, Rows <- 1..3, Pieces <- <<1, 3, 4>>,
        MAX_READ <- 3, Unread <- NoOffset, NotReading <- NoOffset, MaxTruncations <- 1, MaxStarts <- 1

\* What the modules take their constants to be.
ASSUME ServicesAssumption ==
    /\ P!SettingsAssumption /\ P!SettingsBoundsAssumption /\ J!JobsAssumption
    /\ M!MirrorsAssumption /\ E!SiemAssumption /\ L!AlertsAssumption
    /\ H!ChallengeAssumption /\ R!AutoRoutesAssumption
    /\ C!CaddyfileAssumption /\ B!BackupsAssumption /\ V!RecoveryAssumption
    /\ K!CommandsAssumption /\ D!DiscoveryAssumption /\ N!ReachAssumption
    /\ T!DialogueAssumption /\ Q!ReaderAssumption

Init ==
    /\ part \in {"settings", "jobs", "mirrors", "siem", "alerts", "challenge", "routes", "text",
                "backups", "recovery", "commands", "discovery", "reach", "dialogue", "reader"}
    /\ P!SettingsInit /\ J!JobsInit /\ M!MirrorsInit /\ E!SiemInit /\ L!AlertsInit
    /\ H!ChallengeInit /\ R!AutoRoutesInit
    /\ C!CaddyfileInit /\ B!BackupsInit /\ V!RecoveryInit
    /\ K!CommandsInit
    /\ N!ReachInit /\ (part # "reach" => proxyAt = "host" /\ ~caddy)
    /\ Q!ReaderInit
    /\ T!DialogueInit /\ protection = [level |-> 1, blocked |-> {}]
    /\ D!DiscoveryInit /\ (part # "discovery" => world = Elsewhere)
    /\ part # "siem" => ~include_allowed
    /\ part # "text" => text = <<>>
    /\ part # "backups" => ~encrypt /\ ~include_database
    /\ part # "commands" => level = 1 /\ ~moot

SettingsStep == /\ part = "settings" /\ P!SettingsNext
                /\ UNCHANGED <<part, jobVars, mirrorVars, siemVars, alertVars, gateVars>>
JobsOnly(A) == /\ part = "jobs" /\ A
               /\ UNCHANGED <<part, settingsVars, mirrorVars, siemVars, alertVars, gateVars>>
JobsStep == JobsOnly(J!JobsNext)
MirrorsStep == /\ part = "mirrors" /\ M!MirrorsNext
               /\ UNCHANGED <<part, settingsVars, jobVars, siemVars, alertVars, gateVars>>
SiemStep == /\ part = "siem" /\ E!SiemNext
            /\ UNCHANGED <<part, settingsVars, jobVars, mirrorVars, alertVars, gateVars>>
AlertsStep == /\ part = "alerts" /\ L!AlertsNext
              /\ UNCHANGED <<part, settingsVars, jobVars, mirrorVars, siemVars, gateVars>>
ChallengeStep == /\ part = "challenge" /\ H!ChallengeNext
                 /\ UNCHANGED <<part, settingsVars, jobVars, mirrorVars, siemVars, alertVars, routeVars, textVars,
                                backupVars, recoveryVars, lineVars, aboutVars>>
RoutesStep == /\ part = "routes" /\ R!AutoRoutesNext
              /\ UNCHANGED <<part, settingsVars, jobVars, mirrorVars, siemVars, alertVars, challengeVars, textVars,
                             backupVars, recoveryVars, lineVars, aboutVars>>
TextStep == /\ part = "text" /\ C!CaddyfileNext
            /\ UNCHANGED <<part, settingsVars, jobVars, mirrorVars, siemVars, alertVars, challengeVars, routeVars,
                           backupVars, recoveryVars, lineVars, aboutVars>>
BackupsStep == /\ part = "backups" /\ B!BackupsNext
               /\ UNCHANGED <<part, settingsVars, jobVars, mirrorVars, siemVars, alertVars, challengeVars,
                              routeVars, textVars, recoveryVars, lineVars, aboutVars>>
RecoveryStep == /\ part = "recovery" /\ V!RecoveryNext
                /\ UNCHANGED <<part, settingsVars, jobVars, mirrorVars, siemVars, alertVars, challengeVars,
                               routeVars, textVars, backupVars, lineVars, aboutVars>>
CommandStep == /\ part = "commands" /\ K!CommandsNext
               /\ UNCHANGED <<part, settingsVars, jobVars, mirrorVars, siemVars, alertVars, challengeVars,
                              routeVars, textVars, backupVars, recoveryVars, aboutVars>>
Beside(A) ==
    /\ A
    /\ UNCHANGED <<part, settingsVars, jobVars, mirrorVars, siemVars, alertVars, challengeVars,
                   routeVars, textVars, backupVars, recoveryVars, lineVars>>
DiscoveryStep == /\ part = "discovery" /\ Beside(D!DiscoveryNext)
                 /\ UNCHANGED <<reachVars, talkVars, readerVars>>
ReachStep == /\ part = "reach" /\ Beside(N!ReachNext)
             /\ UNCHANGED <<worldVars, talkVars, readerVars>>
DialogueStep == /\ part = "dialogue" /\ Beside(T!DialogueNext)
                /\ UNCHANGED <<worldVars, reachVars, readerVars>>
ReaderStep == /\ part = "reader" /\ Beside(Q!ReaderNext)
              /\ UNCHANGED <<worldVars, reachVars, talkVars>>

Next ==
    \/ SettingsStep \/ JobsStep \/ MirrorsStep \/ SiemStep \/ AlertsStep
    \/ ChallengeStep \/ RoutesStep \/ TextStep \/ BackupsStep \/ RecoveryStep
    \/ CommandStep \/ DiscoveryStep \/ ReachStep \/ DialogueStep
    \/ ReaderStep

vars == <<part, settingsVars, jobVars, mirrorVars, siemVars, alertVars, gateVars>>

\* The fairness of Jobs; the rest has no property of liveness.
Spec ==
    /\ Init /\ [][Next]_vars
    /\ WF_vars(JobsOnly(\E i \in 1..2 : J!Begin(i)))
    /\ WF_vars(JobsOnly(J!End("scan")))

\* Bounds: a second run of the routes while nobody else has changed the Caddyfile, and either
\* an update of the WAF or a provision beside the first; a third backup while nothing has gone
\* wrong; the first change of the settings in the first second; one fault or one change by
\* somebody else in a dialogue, a fault with one question, and somebody else's change between
\* two questions of the same dock.
Bounds ==
    /\ settled = 1 => provision = R!Resting /\ caddyfile.dashboard = 0
    /\ begun = 2 => settled = 0 /\ provision = R!Resting /\ caddyfile.dashboard = 0
    /\ Len(stamps) = 3 => hurt = 0
    /\ second > 1 => writes > 0
    /\ meddled + faults <= 1
    /\ Len(turns) = 2 =>
        /\ faults = 0
        /\ meddled = 1 => turns[1].dock = turns[2].dock /\ turns[1].question.found # "tools"

\* Every variable of the part that runs keeps its type.
TypeOK ==
    /\ part = "settings" => P!SettingsTypeOK
    /\ part = "jobs" => J!JobsTypeOK
    /\ part = "mirrors" => M!MirrorsTypeOK
    /\ part = "siem" => E!SiemTypeOK
    /\ part = "alerts" => L!AlertsTypeOK
    /\ part = "challenge" => H!ChallengeTypeOK
    /\ part = "routes" => R!AutoRoutesTypeOK
    /\ part = "text" => C!CaddyfileTypeOK
    /\ part = "backups" => B!BackupsTypeOK
    /\ part = "recovery" => V!RecoveryTypeOK
    /\ part = "commands" => K!CommandsTypeOK
    /\ part = "discovery" => D!DiscoveryTypeOK
    /\ part = "reach" => N!ReachTypeOK
    /\ part = "dialogue" => T!DialogueTypeOK
    /\ part = "reader" => Q!ReaderTypeOK

\* Settings: a change is heard of within a second.
HeardWithinASecond == P!HeardWithinASecond

\* Jobs: a job that is due runs.
DueJobsRun == part = "jobs" => J!DueJobsRun

\* Reader, Siem and Alerts: no row of the audit log is skipped, a blocked request is in the
\* file once, and one alert of a kind is sent in the time of a cooldown.
SentOnce ==
    /\ [](part = "siem" => E!ExactlyOnce) /\ L!OneAlertPerCooldown
    /\ [](part = "reader" => Q!NothingSkipped) /\ Q!ReadersGetOn

\* Mirrors and Challenge: Caddy and nftables enforce what the refresh says they do, and who
\* is banned at the gate has earned it.
BansHold == [](M!EdgeIsWhatItSays /\ M!KernelIsWhatItSays) /\ H!BansAreEarned

\* AutoRoutes and Caddyfile: the writers of the Caddyfile leave each other's regions alone,
\* an application keeps its port, each region is where it belongs and stays there, and the
\* operator's lines stay.
RegionsStay ==
    /\ []R!RegionsSurvive /\ R!PortsStick
    /\ [](part = "text" => C!WellPlaced /\ C!OperatorsTextStays /\ C!WritesAreIdempotent)
    /\ C!OthersStay

\* Backups and Recovery: what is replaced was kept first, what was kept is whole, and what
\* is restored is what was kept.
WayBack ==
    /\ [](part = "backups" => B!BackupsHold)
    /\ [](part = "recovery" => V!RecoveryHolds)
    /\ V!WhatIsReplacedIsKept

\* Commands and Dialogue: what is asked first is done only with a yes, a dry run changes
\* nothing, the exit code and the answer tell what was done, nothing that was typed is lost,
\* and what CatAI has changed can be undone.
DoneAsAsked ==
    /\ [](part = "commands" => K!CommandsHold) /\ K!NothingUnasked
    /\ []T!DialogueHolds /\ T!CardsHold

\* Discovery and Reach: applications are found and backends left alone whatever Docker
\* refuses to tell, and a route that is said to protect an application leads to it.
AppsAreReached ==
    /\ [](part = "discovery" => D!DiscoveryHolds)
    /\ [](part = "reach" => N!ReachHolds) /\ N!DryRunsLeaveNoTrace

=============================================================================
