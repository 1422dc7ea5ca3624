-------------------------------- MODULE Setup --------------------------------
(***************************************************************************)
(* The three ways CatWAF is set up, over and over on the same machine:     *)
(* setup.sh, the wizard and the non-interactive setup of                   *)
(* src/tui/setup.js, which setup.sh ends with; and the Caddy build that    *)
(* scripts/ensure-caddy.js fetches during the installation of the          *)
(* dependencies.                                                           *)
(*                                                                         *)
(* A run is the list of the steps it still has to take.  It may die before *)
(* any of them; what it leaves is what the next run finds.  One run is     *)
(* under way at a time.  Prompts, screens, packages and permissions are    *)
(* left out, and so is what the steps say but for the last word.           *)
(***************************************************************************)
EXTENDS Integers, Sequences, SequencesExt

CONSTANTS
    Domains,
    Builds, Broken,     \* Caddy builds by their hash, and those without the Coraza module
    MaxRuns, MaxEdits   \* bounds: runs, and changes made by hand in between

Editions == {"lite", "full"}
NoDomain == "none"
Invalid == "invalid"        \* a DOMAIN in .env that is none
NoBuild == "no build"

SetupAssumption ==
    /\ {NoDomain, Invalid, "local"} \cap Domains = {} /\ NoBuild \notin Builds
    /\ Broken \subseteq Builds /\ MaxRuns \in Nat /\ MaxEdits \in Nat

VARIABLES
    env,            \* .env; the secret is 0 if there is none, -1 if it is too short
    base,           \* the address of the API in frontend/.env.production
    dist,           \* the address the dashboard was built with
    caddyfile,      \* the domain the Caddyfile was generated for
    admin,          \* there is an account
    unit,           \* who wrote catwaf.service
    binary, pin,    \* the Caddy build in place and the recorded hash
    run,            \* the run under way
    secrets,        \* secrets made so far
    begun, byHand,  \* runs begun and changes made by hand
    unpinned        \* history: the build in place was fetched and not recorded

setupVars == <<env, base, dist, caddyfile, admin, unit, binary, pin, run, secrets, begun,
               byHand, unpinned>>

Addresses == Domains \cup {NoDomain, "local"}
Said == {"nothing", "complete", "installed", "failed"}
Steps == {"secret", "domain", "frontend", "caddyfile", "build", "admin", "dashboard", "catai",
          "record", "service", "check", "configure", "validate", "first admin", "assets",
          "dependencies", "pin", "deploy", "edition", "hostname", "key", "unit", "setup"}

SetupTypeOK ==
    /\ env \in [edition : Editions \cup {"none"}, domain : Domains \cup {NoDomain, Invalid},
                cors : Addresses, secret : -1..secrets, ai : BOOLEAN]
    /\ base \in Addresses /\ dist \in Addresses /\ caddyfile \in Addresses
    /\ admin \in BOOLEAN /\ unit \in {"none", "wizard", "installer"}
    /\ binary \in Builds \cup {NoBuild} /\ pin \in Builds \cup {NoBuild}
    /\ run.kind \in {"none", "wizard", "batch", "installer"} /\ run.said \in Said
    /\ run.edition \in Editions /\ run.domain \in Domains \cup {NoDomain}
    /\ Range(run.todo) \subseteq Steps
    /\ begun \in 0..MaxRuns /\ byHand \in 0..MaxEdits /\ unpinned \in BOOLEAN

EmptyEnv == [edition |-> "none", domain |-> NoDomain, cors |-> NoDomain, secret |-> 0, ai |-> FALSE]
NoRun == [kind |-> "none", todo |-> <<>>, edition |-> "lite", domain |-> NoDomain,
          force |-> FALSE, skipped |-> FALSE, said |-> "nothing"]

SetupInit ==
    /\ env = EmptyEnv /\ base = NoDomain /\ dist = NoDomain /\ caddyfile = NoDomain
    /\ admin = FALSE /\ unit = "none" /\ binary = NoBuild /\ pin = NoBuild
    /\ run = NoRun /\ secrets = 0 /\ begun = 0 /\ byHand = 0 /\ unpinned = FALSE

-----------------------------------------------------------------------------
(* The order of the steps *)

\* setup.js run: the wizard, whose edition is chosen after the environment was checked.
WizardSteps(edition) ==
    <<"secret", "domain", "frontend", "caddyfile", "build", "admin">>
    \o (IF edition = "full" THEN <<"dashboard", "catai">> ELSE <<>>)
    \o <<"record", "service">>

\* runNonInteractive, after the version of Node.
BatchSteps == <<"secret", "check", "configure", "caddyfile", "validate", "first admin", "assets">>

\* setup.sh main, after the checks of its arguments, the platform and the tools.
InstallerSteps == <<"dependencies", "pin", "deploy", "edition", "hostname", "key", "unit", "setup">>

Idle == run.todo = <<>>
At(step) == run.todo # <<>> /\ Head(run.todo) = step
Then(todo, said) == run' = [run EXCEPT !.todo = todo, !.said = said]

\* The last step of a run says what became of it; the installer ends with the batch setup
\* and is installed whatever that did.
Outcome(said) == IF run.kind = "installer" THEN "installed" ELSE said
Go == Then(Tail(run.todo), IF Len(run.todo) = 1 THEN Outcome("complete") ELSE "nothing")
GiveUp == Then(<<>>, Outcome("failed"))
Die == Then(<<>>, "failed")         \* setup.sh: die

Begin(kind, edition, domain, force) ==
    /\ Idle /\ begun < MaxRuns /\ begun' = begun + 1
    /\ force => kind = "batch" /\ domain # NoDomain
    /\ run' = [kind |-> kind, edition |-> edition, domain |-> domain, force |-> force,
               skipped |-> FALSE, said |-> "nothing",
               todo |-> CASE kind = "wizard" -> WizardSteps(edition)
                          [] kind = "batch" -> BatchSteps
                          [] OTHER -> InstallerSteps]
    /\ UNCHANGED <<env, base, dist, caddyfile, admin, unit, binary, pin, secrets, byHand, unpinned>>

\* The run dies before its next step.  writeEnvFile truncates .env before it writes it, so
\* there the file may be left empty (a full disk does the same).
Rewrites == {"secret", "domain", "catai", "record", "configure"}
Interrupt ==
    /\ ~Idle /\ Die
    /\ \/ UNCHANGED env
       \/ Head(run.todo) \in Rewrites /\ env' = EmptyEnv
    /\ UNCHANGED <<base, dist, caddyfile, admin, unit, binary, pin, secrets, begun, byHand,
                   unpinned>>

\* What is changed by hand: a mistyped domain, a secret that is too short, the Caddy build
\* or the Caddyfile removed.
ChangeByHand ==
    /\ Idle /\ byHand < MaxEdits /\ byHand' = byHand + 1
    /\ run' = [run EXCEPT !.said = "nothing"]
    /\ \/ /\ env' \in {[env EXCEPT !.domain = Invalid], [env EXCEPT !.secret = -1]}
          /\ UNCHANGED <<binary, caddyfile>>
       \/ binary' = NoBuild /\ UNCHANGED <<env, caddyfile>>
       \/ caddyfile' = NoDomain /\ UNCHANGED <<env, binary>>
    /\ UNCHANGED <<base, dist, admin, unit, pin, secrets, begun, unpinned>>

-----------------------------------------------------------------------------
(* Steps that the wizard and the batch setup share *)

\* writeEnvFile: reads, merges, writes.
WriteEnv(updates) == env' = updates

\* Wrong variant: every run makes a secret of its own.
MakesAlways(secret) == TRUE

\* ensureJwtSecret keeps a secret that is long enough.
MakesSecret(secret) == secret <= 0

EnsureJwtSecret ==
    /\ At("secret") /\ Go
    /\ IF MakesSecret(env.secret)
       THEN secrets' = secrets + 1 /\ WriteEnv([env EXCEPT !.secret = secrets + 1])
       ELSE UNCHANGED <<env, secrets>>
    /\ UNCHANGED <<base, dist, caddyfile, admin, unit, binary, pin, begun, byHand, unpinned>>

\* The domain this run goes by, and where it leaves the dashboard.
RunDomain == IF run.domain # NoDomain \/ run.kind = "wizard" THEN run.domain ELSE env.domain
Address(domain) == IF domain = NoDomain THEN "local" ELSE domain

\* writeCaddyfile never overwrites one.
WriteCaddyfile ==
    /\ At("caddyfile") /\ Go
    /\ caddyfile' = IF caddyfile = NoDomain THEN Address(RunDomain) ELSE caddyfile
    /\ UNCHANGED <<env, base, dist, admin, unit, binary, pin, secrets, begun, byHand, unpinned>>

\* npm run build.
Build == dist' = Address(base)

-----------------------------------------------------------------------------
(* The wizard *)

\* configureDomain: with a DOMAIN in .env, valid or not, nothing of the rest is done.
ConfigureDomain ==
    /\ At("domain")
    /\ IF env.domain # NoDomain
       THEN /\ run' = [run EXCEPT !.todo = SubSeq(@, 5, Len(@)), !.skipped = TRUE]
            /\ UNCHANGED env
       ELSE Go /\ WriteEnv([env EXCEPT !.domain = run.domain, !.cors = Address(run.domain)])
    /\ UNCHANGED <<base, dist, caddyfile, admin, unit, binary, pin, secrets, begun, byHand, unpinned>>

WriteFrontendEnv ==
    /\ At("frontend") /\ Go /\ base' = Address(run.domain)
    /\ UNCHANGED <<env, dist, caddyfile, admin, unit, binary, pin, secrets, begun, byHand, unpinned>>

\* buildFrontend and buildDashboard: whether they succeed is not looked at.
BuildDashboard ==
    /\ At("build") \/ At("dashboard")
    /\ Go /\ (Build \/ UNCHANGED dist)
    /\ UNCHANGED <<env, base, caddyfile, admin, unit, binary, pin, secrets, begun, byHand, unpinned>>

\* createAdminUser: a failure of addUser is shown and the wizard goes on.
CreateAdminUser ==
    /\ At("admin") /\ Go /\ admin' \in {admin, TRUE}
    /\ UNCHANGED <<env, base, dist, caddyfile, unit, binary, pin, secrets, begun, byHand, unpinned>>

\* configureCatAI: if Ollama answers, the operator wants it and the model is pulled.
ConfigureCatAI ==
    /\ At("catai") /\ Go /\ \E ai \in {env.ai, TRUE} : WriteEnv([env EXCEPT !.ai = ai])
    /\ UNCHANGED <<base, dist, caddyfile, admin, unit, binary, pin, secrets, begun, byHand, unpinned>>

RecordEdition ==
    /\ At("record") /\ Go /\ WriteEnv([env EXCEPT !.edition = run.edition])
    /\ UNCHANGED <<base, dist, caddyfile, admin, unit, binary, pin, secrets, begun, byHand, unpinned>>

\* startService: with systemd and as root, whatever the edition.
StartService ==
    /\ At("service") /\ Go /\ unit' \in {unit, "wizard"}
    /\ UNCHANGED <<env, base, dist, caddyfile, admin, binary, pin, secrets, begun, byHand, unpinned>>

-----------------------------------------------------------------------------
(* The batch setup *)

CheckDomain ==
    /\ At("check") /\ IF RunDomain = Invalid THEN GiveUp ELSE Go
    /\ UNCHANGED <<env, base, dist, caddyfile, admin, unit, binary, pin, secrets, begun, byHand, unpinned>>

\* A domain that is stored already is kept without --force.
Configure ==
    /\ At("configure") /\ Go
    /\ LET new == RunDomain # NoDomain /\ (env.domain = NoDomain \/ run.force)
       IN  WriteEnv([env EXCEPT !.edition = run.edition,
                                !.domain = IF new THEN RunDomain ELSE @,
                                !.cors = IF new THEN RunDomain ELSE @])
    /\ UNCHANGED <<base, dist, caddyfile, admin, unit, binary, pin, secrets, begun, byHand, unpinned>>

\* Modules and `caddy validate`: a missing Caddy is only a warning.
Validate ==
    /\ At("validate")
    /\ \/ binary \notin Broken /\ Go
       \/ binary # NoBuild /\ GiveUp
    /\ UNCHANGED <<env, base, dist, caddyfile, admin, unit, binary, pin, secrets, begun, byHand, unpinned>>

FirstAdmin ==
    /\ At("first admin")
    /\ \/ Go /\ admin' = TRUE
       \/ ~admin /\ GiveUp /\ UNCHANGED admin
    /\ UNCHANGED <<env, base, dist, caddyfile, unit, binary, pin, secrets, begun, byHand, unpinned>>

\* The dashboard, unless it is built already and --rebuild was not given.
Assets ==
    /\ At("assets")
    /\ \/ (run.edition = "lite" \/ dist # NoDomain) /\ Go /\ UNCHANGED dist
       \/ run.edition = "full" /\ Go /\ Build
       \/ run.edition = "full" /\ GiveUp /\ UNCHANGED dist
    /\ UNCHANGED <<env, base, caddyfile, admin, unit, binary, pin, secrets, begun, byHand, unpinned>>

-----------------------------------------------------------------------------
(* The installer *)

Works(b) == b # NoBuild /\ b \notin Broken

\* checkPin: the first build is trusted, later ones have to be the same.
PinAllows(b) == pin = NoBuild \/ pin = b

\* npm install, whose postinstall runs ensure-caddy.js: if no Caddy works, one is downloaded;
\* `allow` is CATWAF_CADDY_ALLOW_NEW_BUILD.  What goes wrong here is not fatal.
Dependencies ==
    /\ At("dependencies")
    /\ \/ /\ ~Works(binary)
          /\ \E b \in Builds, allow \in BOOLEAN :
                /\ PinAllows(b) \/ allow
                /\ binary' = b
          /\ unpinned' = Works(binary')
          /\ Go
       \/ Then(Tail(Tail(run.todo)), "nothing") /\ UNCHANGED <<binary, unpinned>>
       \/ Die /\ UNCHANGED <<binary, unpinned>>
    /\ UNCHANGED <<env, base, dist, caddyfile, admin, unit, pin, secrets, begun, byHand>>

\* A build without the module stays where it is but is not recorded.
WritePin ==
    /\ At("pin") /\ Go
    /\ pin' = IF Works(binary) THEN binary ELSE pin
    /\ unpinned' = (unpinned /\ ~Works(binary))
    /\ UNCHANGED <<env, base, dist, caddyfile, admin, unit, binary, secrets, begun, byHand>>

Deploy ==
    /\ At("deploy")
    /\ \/ run.edition = "lite" /\ Go /\ UNCHANGED dist
       \/ run.edition = "full" /\ Go /\ Build
       \/ run.edition = "full" /\ Die /\ UNCHANGED dist
    /\ UNCHANGED <<env, base, caddyfile, admin, unit, binary, pin, secrets, begun, byHand, unpinned>>

\* write_env: set_env_var moves a whole file into place for each.
SetEnvVar ==
    /\ \/ At("edition") /\ env' = [env EXCEPT !.edition = run.edition] /\ UNCHANGED secrets
       \/ /\ At("hostname") /\ UNCHANGED secrets
          /\ env' = [env EXCEPT !.domain = IF run.domain = NoDomain THEN @ ELSE run.domain]
       \/ /\ At("key")
          /\ IF env.secret = 0
             THEN env' = [env EXCEPT !.secret = secrets + 1] /\ secrets' = secrets + 1
             ELSE UNCHANGED <<env, secrets>>
    /\ Go
    /\ UNCHANGED <<base, dist, caddyfile, admin, unit, binary, pin, begun, byHand, unpinned>>

\* install_systemd_unit: without systemd nothing is done.
InstallUnit ==
    /\ At("unit") /\ Go
    /\ unit' \in {unit, IF run.edition = "lite" THEN "none" ELSE "installer"}
    /\ UNCHANGED <<env, base, dist, caddyfile, admin, binary, pin, secrets, begun, byHand, unpinned>>

\* run_catwaf_setup, unless there is no way to become the service's user.
RunSetup ==
    /\ At("setup")
    /\ Then(BatchSteps, "nothing") \/ Then(<<>>, "installed")
    /\ UNCHANGED <<env, base, dist, caddyfile, admin, unit, binary, pin, secrets, begun, byHand, unpinned>>

SetupNext ==
    \/ \E k \in {"wizard", "batch", "installer"}, e \in Editions, d \in Domains \cup {NoDomain},
          f \in BOOLEAN : Begin(k, e, d, f)
    \/ Interrupt \/ ChangeByHand
    \/ EnsureJwtSecret \/ WriteCaddyfile
    \/ ConfigureDomain \/ WriteFrontendEnv \/ BuildDashboard \/ CreateAdminUser
    \/ ConfigureCatAI \/ RecordEdition \/ StartService
    \/ CheckDomain \/ Configure \/ Validate \/ FirstAdmin \/ Assets
    \/ Dependencies \/ WritePin \/ Deploy \/ SetEnvVar \/ InstallUnit \/ RunSetup

-----------------------------------------------------------------------------
(* Properties *)

\* Running any of them again preserves what there is (setup.sh:20): a secret that can be
\* used, an admin, the Caddyfile, and a domain unless the run was given another one; but
\* for a .env that a dying run left empty and what is changed by hand.
RerunPreserves ==
    [][ begun' = begun /\ byHand' = byHand /\ env' # EmptyEnv =>
        /\ env.secret > 0 => env'.secret = env.secret
        /\ admin => admin'
        /\ caddyfile # NoDomain => caddyfile' = caddyfile
        /\ env.domain # NoDomain /\ env'.domain # env.domain =>
            run.domain = env'.domain /\ (run.force \/ run.kind = "installer")]_setupVars

\* A setup that says it is complete has left what it takes to start: the edition, a secret,
\* a Caddyfile, an admin, and with Full a dashboard; but a wizard that found a domain does
\* not look for the Caddyfile, and does not look at whether admin and dashboard came about.
CompleteIsWhole ==
    run.said = "complete" =>
        /\ env.edition = run.edition /\ env.secret > 0
        /\ caddyfile # NoDomain \/ run.skipped
        /\ run.kind # "wizard" => admin /\ (run.edition = "full" => dist # NoDomain)

\* After a wizard that configured the domain, the three places that name it agree.
WizardAgrees ==
    run.said = "complete" /\ run.kind = "wizard" /\ ~run.skipped =>
        env.domain = run.domain /\ env.cors = Address(run.domain) /\ base = Address(run.domain)

\* A Caddy build that works and was fetched here is the recorded one, unless the run that
\* fetched it ended before it recorded it, which no later one makes up for.
BuildIsPinned == Works(binary) => pin = binary \/ unpinned

SetupHolds == CompleteIsWhole /\ WizardAgrees /\ BuildIsPinned

=============================================================================
