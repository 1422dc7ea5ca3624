------------------------------ MODULE MCAccess ------------------------------
(***************************************************************************)
(* Who may ask for what: the API's accounts, their second factor, sessions *)
(* and dashboard, the rules rendered for the protected site, how its       *)
(* requests and uploads are judged, the settings pages, and how CatWAF     *)
(* comes about and is started, each on an instance of its own.  They share *)
(* no state in the code but what one module leaves open to the others      *)
(* (Client's tokens die, Sessions' tokens are genuine, Enforcement's lists *)
(* answer anything, Service's unit is installed, Form's requests may be    *)
(* refused), so one part runs in each behaviour.                           *)
(***************************************************************************)
EXTENDS Integers, FiniteSets, SiteRender

VARIABLES
    part,
    accounts, copy, readAt, login, tokens, outcome, changes, faults, time, asOf, blind, seen,
    expiry, sessions, revoked, config, cli, reply, tick, ended,
    clock, skew, minted, alive, storage, calls, wire, seenNonces, served, again,
    factors, step, doing, fresh, accepted, rewound, reused,
    cfg, emergency, allowlisted, ban, verdict, passes, answer, instant, since,
    upload_scan, uploads,
    subscribed, published, rows, index, refreshes, edits, outdated, settled, fetched, unheard,
    env, base, dist, caddyfile, admin, unit, binary, pin, run, secrets, begun, byHand, unpinned,
    process, port, pidFile, systemd, main, command, commands, apart,
    group, enforced, forms, requests, sent, edited, behind

\* The variables of SiteRender are in the module it EXTENDS: its tables are looked up in
\* every state.
accountVars == <<accounts, copy, readAt, login, tokens, outcome, changes, faults, time,
                 asOf, blind, seen>>
sessionVars == <<expiry, sessions, revoked, config, cli, reply, tick, ended>>
clientVars == <<clock, skew, minted, alive, storage, calls, wire, seenNonces, served, again>>
factorVars == <<factors, step, doing, fresh, accepted, rewound, reused>>

verdictVars == <<cfg, emergency, allowlisted, ban, verdict, passes, answer, instant, since>>
uploadVars == <<upload_scan, uploads>>
listVars == <<subscribed, published, rows, index, refreshes, edits, outdated, settled,
              fetched, unheard>>
setupVars == <<env, base, dist, caddyfile, admin, unit, binary, pin, run, secrets, begun,
               byHand, unpinned>>
serviceVars == <<process, port, pidFile, systemd, main, command, commands, apart>>
formVars == <<group, enforced, forms, requests, sent, edited, behind>>
hostVars == <<setupVars, serviceVars, formVars>>
panelVars == <<accountVars, sessionVars, clientVars, factorVars, hostVars>>
trafficVars == <<siteVars, verdictVars, uploadVars, listVars>>

CONSTANTS NoAccount, NoToken, NoRecord, Unbound, NotEnrolled, NoRows, NotBuilt, NoPid,
          Unfilled, NewSecret, OldSecret, Emptied

A == INSTANCE Accounts WITH Names <- {"n1", "n2"}, Tokens <- {"t1"},
        MaxChanges <- 3, MaxFaults <- 1, MaxTime <- 3

S == INSTANCE Sessions WITH Jtis <- {"a1", "b1"}, Owner <- [a1 |-> "a", b1 |-> "b"],
        Target <- "a", Places <- {"home", "away"}, MaxAges <- {1, 3}, IdleTimeouts <- {2},
        MAX_CONCURRENT <- 1, ROLLING <- FALSE, MaxDuring <- 1, MaxTicks <- 3

C == INSTANCE Client WITH Calls <- {"ask", "logout"}, Logouts <- {"logout"}, MaxTokens <- 2,
        Skews <- {-2, 1}, WINDOW <- 1, MAX_SKEW <- 1, NONCE_TTL <- 3, MaxClock <- 3

F == INSTANCE Totp WITH Users <- {"u"}, Server <- "server", Console <- "cli",
        RECOVERY_CODE_COUNT <- 1, MaxFresh <- 3, MaxStep <- 3

Modest == [signals |-> {}, onListed |-> "ban", fail_open |-> TRUE, community |-> FALSE,
           greylisted |-> FALSE, skipsChallenge |-> TRUE, fingerprint |-> TRUE, canary |-> TRUE,
           probe |-> "off", onProbe |-> "ban", trigger |-> "suspicious"]
V == INSTANCE Enforcement WITH Requests <- {"r1", "r2"},
        Kinds <- {[uri |-> "page", agent |-> "plain"], [uri |-> "page", agent |-> "close"],
                  [uri |-> "exempt", agent |-> "tool"], [uri |-> "canary", agent |-> "plain"]},
        Configs <- {[Modest EXCEPT !.signals = {"threat_feed"}, !.fail_open = FALSE,
                                   !.fingerprint = FALSE],
                    [Modest EXCEPT !.signals = {"rdns"}, !.community = TRUE, !.probe = "all",
                                   !.onListed = "challenge", !.onProbe = "challenge"],
                    [Modest EXCEPT !.signals = {"asn", "dnsbl"}, !.greylisted = TRUE,
                                   !.fingerprint = FALSE, !.probe = "suspicious"]},
        VERDICT_TTL <- 2, VERDICT_TTL_EMERGENCY <- 1, DEADLINE <- 1, BAN_TIME <- 3, MaxInstant <- 3

Scanning(pass, act, open) == [enabled |-> TRUE, oversize |-> pass, action |-> act, fail_open |-> open]
U == INSTANCE Uploads WITH Uploaded <- {"u"}, max_scan_bytes <- 2, MaxPieces <- 4,
        Settings <- {Scanning("pass", "block", TRUE), Scanning("block", "block", FALSE),
                     Scanning("pass", "flag", FALSE),
                     [Scanning("pass", "block", FALSE) EXCEPT !.enabled = FALSE]}

L == INSTANCE Lists WITH Sources <- {"s", "t"}, Refreshers <- {"job", "run"},
        Server <- "server", Cli <- "cli", ProcessOf <- [job |-> "server", run |-> "cli"],
        MaxEdits <- 2, MaxVersions <- 2

I == INSTANCE Setup WITH Domains <- {"d"}, Builds <- {"b1", "b2", "b3"}, Broken <- {"b3"},
        MaxRuns <- 2, MaxEdits <- 1

P == INSTANCE Service WITH Operators <- {"a", "b"}, Pids <- 1..3,
        MaxCommands <- 3

\* One has a page of ProtectionPages.jsx open, the other a GroupsPage.
M == INSTANCE Form WITH Editors <- {"plain", "grouped"}, OwnToast <- {"plain"},
        Entries <- {"entry"}, Secret <- NewSecret, Kept <- OldSecret,
        Blank <- Emptied, Missing <- Unfilled, MaxRequests <- 2

\* What the modules take their constants to be.
ASSUME AccessAssumption ==
    /\ A!AccountsAssumption /\ A!AccountBoundsAssumption
    /\ S!SessionsAssumption /\ S!SessionSettingsAssumption
    /\ C!WindowAssumption /\ C!ClientBoundsAssumption /\ F!TotpAssumption
    /\ SiteRenderAssumption
    /\ V!EnforcementAssumption /\ U!UploadsAssumption /\ L!ListsAssumption
    /\ I!SetupAssumption /\ P!ServiceAssumption /\ M!FormAssumption

Init ==
    /\ part \in {"accounts", "sessions", "client", "factor", "site", "verdicts", "uploads",
                "lists", "setup", "service", "form"}
    /\ A!Init /\ S!SessionsInit /\ C!ClientInit /\ F!TotpInit /\ SiteInit
    /\ V!EnforcementInit /\ U!UploadsInit /\ L!ListsInit /\ I!SetupInit /\ P!ServiceInit /\ M!FormInit
    /\ part # "sessions" => config = [maxAge |-> 1, idle |-> 2, bind |-> FALSE]
    /\ part # "client" => skew = 1
    /\ part # "site" => written.host = {}
    /\ part # "verdicts" => cfg.signals = {"rdns"}
    /\ part # "uploads" => upload_scan = Scanning("pass", "block", TRUE)
    /\ part # "lists" => subscribed.s = "no"
    /\ subscribed.t = "no"

AccountsStep == /\ part = "accounts" /\ A!Next
                /\ UNCHANGED <<part, sessionVars, clientVars, factorVars, hostVars, trafficVars>>
SessionsStep == /\ part = "sessions" /\ S!SessionsNext
                /\ UNCHANGED <<part, accountVars, clientVars, factorVars, hostVars, trafficVars>>
ClientStep == /\ part = "client" /\ C!ClientNext
              /\ UNCHANGED <<part, accountVars, sessionVars, factorVars, hostVars, trafficVars>>
FactorStep == /\ part = "factor" /\ F!TotpNext
              /\ UNCHANGED <<part, accountVars, sessionVars, clientVars, hostVars, trafficVars>>
SiteStep == /\ part = "site" /\ SiteNext
            /\ UNCHANGED <<part, panelVars, verdictVars, uploadVars, listVars>>
VerdictsStep == /\ part = "verdicts" /\ V!EnforcementNext
                /\ UNCHANGED <<part, panelVars, siteVars, uploadVars, listVars>>
UploadsStep == /\ part = "uploads" /\ U!UploadsNext
               /\ UNCHANGED <<part, panelVars, siteVars, verdictVars, listVars>>
ListsStep == /\ part = "lists" /\ L!ListsNext
             /\ UNCHANGED <<part, panelVars, siteVars, verdictVars, uploadVars>>
SetupStep == /\ part = "setup" /\ I!SetupNext
             /\ UNCHANGED <<part, accountVars, sessionVars, clientVars, factorVars, serviceVars, formVars,
                            trafficVars>>
ServiceStep == /\ part = "service" /\ P!ServiceNext
               /\ UNCHANGED <<part, accountVars, sessionVars, clientVars, factorVars, setupVars, formVars,
                              trafficVars>>
FormStep == /\ part = "form" /\ M!FormNext
            /\ UNCHANGED <<part, accountVars, sessionVars, clientVars, factorVars, setupVars, serviceVars,
                           trafficVars>>

Next ==
    \/ AccountsStep \/ SessionsStep \/ ClientStep \/ FactorStep
    \/ SiteStep \/ VerdictsStep \/ UploadsStep \/ ListsStep
    \/ SetupStep \/ ServiceStep \/ FormStep

Spec == Init /\ [][Next]_<<part, panelVars, trafficVars>>

\* Bounds: the third change of the accounts comes in the first second and without a
\* failed read, a run of the CLI in the first half minute, there is one call only once
\* the path has rotated twice, either an attack begins or the address is allowlisted, two
\* fields of both settings pages are edited, and Caddy stops before the second request.
Bounds ==
    /\ changes = 3 => faults = 0 /\ time < 2
    /\ cli.at # "idle" => tick < 2
    /\ clock = 3 => \E c \in {"ask", "logout"} : calls[c] = C!New
    /\ ~(emergency /\ allowlisted)
    /\ Cardinality(DOMAIN forms["plain"].draft) + Cardinality(DOMAIN forms["grouped"].draft) <= 2
    /\ sent > 1 => enforced # Unfilled
    /\ (since.emergency > 0 => emergency) /\ (since.allowlisted > 0 => allowlisted)

\* Every variable of the part that runs keeps its type.
TypeOK ==
    /\ part = "accounts" => A!AccountsTypeOK
    /\ part = "sessions" => S!SessionsTypeOK
    /\ part = "client" => C!ClientTypeOK
    /\ part = "factor" => F!TotpTypeOK
    /\ part = "site" => SiteTypeOK
    /\ part = "verdicts" => V!EnforcementTypeOK
    /\ part = "uploads" => U!UploadsTypeOK
    /\ part = "lists" => L!ListsTypeOK
    /\ part = "setup" => I!SetupTypeOK
    /\ part = "service" => P!ServiceTypeOK
    /\ part = "form" => M!FormTypeOK

\* Accounts: who is served is so entitled by the database, within a second; a new password
\* ends the older tokens, and only those; the last admin stays, and the wizard closes when
\* there is an account.
TokensAreEntitled ==
    /\ [](A!TokensFollowAccounts /\ A!ResetsEndTokens)
    /\ A!LastAdminStays /\ A!WizardCloses

\* Sessions and Client: a signed-out token stays out, and an outage does not end a session.
SignedOutStaysOut ==
    [](part = "sessions" => S!SignedOutStaysOut) /\ C!SessionsSurviveOutages

\* Client and Totp: what proves that a request is genuine, its nonce or its code, works once.
OnceOnly == C!CarriedOutOnce /\ F!CodesWorkOnce

\* SiteRender and Form: no setting does nothing silently, the blocks keep each other's promises,
\* the files served are those of the stored settings, and a settings page stores what was
\* edited, shows what is stored and says "Applied" of what is in force.
SiteIsAsConfigured ==
    /\ [](part = "site" => NothingSilent /\ OrderKeepsPromises /\ FilesAreStored)
    /\ [](part = "form" => M!ScreenIsTrue) /\ M!FormsHold

\* Enforcement and Uploads: a canary path bans, refusals have grounds, the allowlist and the
\* emergency take hold, and malware reaches the origin only as the settings say.
RequestsAreJudged == V!VerdictsHold /\ U!InfectedStaysOut /\ U!OriginGetsTheBody

\* Lists: the entries enforced are those of the subscribed sources.
ListsHold == L!ListsHold

\* Setup and Service: what says it is complete is whole and may be run again, and the server
\* that runs is the one that is started, found and stopped.
SetupHolds ==
    /\ [](part = "setup" => I!SetupHolds) /\ I!RerunPreserves
    /\ [](part = "service" => P!ServerIsKnown) /\ P!AnswersAreTrue /\ P!StrangersAreLeftAlone

=============================================================================
