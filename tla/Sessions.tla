------------------------------ MODULE Sessions ------------------------------
(***************************************************************************)
(* The sessions of the dashboard: session.js, the routes that open, check  *)
(* and end sessions, and the settings they read.                           *)
(*                                                                         *)
(* Two rows of the database hold a map each: what is known of a session,   *)
(* and until when a signed-out token is refused.  Each is read, changed and*)
(* written as a whole.  The server does so in one step; `catwaf user       *)
(* passwd`, another process, ends the sessions of one user by several reads*)
(* and writes, with the server's steps between them.                       *)
(*                                                                         *)
(* A tick is the 30 seconds after which the last use of a session is       *)
(* written again.  Whether a token is genuine is in Accounts; here each is *)
(* good until it expires.                                                  *)
(***************************************************************************)
EXTENDS Integers, FiniteSets

CONSTANTS
    Jtis,           \* ids of tokens
    Owner,          \* token id -> username
    Target,         \* the user whose password the CLI changes
    Places,         \* clients, as the binding fingerprints tell them apart
    NoRecord,
    Unbound,        \* a session without a fingerprint
    MaxAges,        \* settings: absolute_max_age_min
    IdleTimeouts,   \* settings: idle_timeout_min, 0 for none
    MAX_CONCURRENT, \* settings: max_concurrent, 0 for any number
    ROLLING,        \* settings: rolling
    MaxDuring,      \* bound: steps of the server during a run of the CLI
    MaxTicks        \* bound: the clock

SessionsAssumption ==
    /\ Unbound \notin Places
    /\ NoRecord \notin [created : Nat, seen : Nat, binding : Places \cup {Unbound}]
SessionSettingsAssumption ==
    /\ MaxAges \subseteq Nat \ {0} /\ IdleTimeouts \subseteq Nat
    /\ MAX_CONCURRENT \in Nat /\ ROLLING \in BOOLEAN
    /\ MaxDuring \in Nat /\ MaxTicks \in Nat

VARIABLES
    expiry,     \* token id -> when the token expires, 0 if there is none
    sessions,   \* admin_sessions: token id -> record
    revoked,    \* admin_sessions_revoked: token id -> until when, 0 for none
    config,     \* the settings of the group `session` that may change
    cli,        \* the run of `catwaf user passwd` and what it has read
    reply,      \* what the last request with a token came to
    tick,
    ended       \* history: token id -> how its session was signed out

rows == <<sessions, revoked>>
sessionVars == <<expiry, rows, config, cli, reply, tick, ended>>

Record == [created : 0..MaxTicks, seen : 0..MaxTicks, binding : Places \cup {Unbound}]
Maps == [Jtis -> Record \cup {NoRecord}]
NoReply == [jti |-> NoRecord, code |-> "none"]
NoRun == [at |-> "idle", sessions |-> [j \in Jtis |-> NoRecord],
          revoked |-> [j \in Jtis |-> 0], todo |-> {}, during |-> 0]

SessionsTypeOK ==
    /\ expiry \in [Jtis -> Nat] /\ sessions \in Maps /\ revoked \in [Jtis -> Nat]
    /\ config \in [maxAge : MaxAges, idle : IdleTimeouts, bind : BOOLEAN]
    /\ cli \in [at : {"idle", "next", "revoke"}, sessions : Maps,
                revoked : [Jtis -> Nat], todo : SUBSET Jtis, during : 0..MaxDuring]
    /\ reply \in [jti : Jtis \cup {NoRecord},
                  code : {"none", "ok", "SESSION_REVOKED", "SESSION_BINDING", "SESSION_IDLE"}]
    /\ tick \in 0..MaxTicks
    /\ ended \in [Jtis -> {"no", "out", "short", "lost"}]

-----------------------------------------------------------------------------
(* The two maps.                                                           *)

\* Wrong variant: what is kept is the time that is left.
TimeLeft(map) == [j \in Jtis |-> map[j] - tick]

\* pruneRevoked()
Pruned(map) == [j \in Jtis |-> IF map[j] > tick THEN map[j] ELSE 0]

\* Wrong variant: refused only until the session would have been idle.
RevokedWhileIdle(map, j) == [Pruned(map) EXCEPT ![j] = tick + config.idle]

\* revoke(): for as long as a token minted now would be good.
Revoked(map, j) == [Pruned(map) EXCEPT ![j] = tick + config.maxAge]

\* What a sign-out promises: less than it should if max_age was lowered since.
Promise(j) == IF tick + config.maxAge < expiry[j] THEN "short" ELSE "out"

\* prune(): sessions older than a token may be are forgotten.
Fresh(map) ==
    [j \in Jtis |-> IF map[j] # NoRecord /\ tick - map[j].created <= config.maxAge
                    THEN map[j] ELSE NoRecord]

Mine(map, user) == {j \in Jtis : map[j] # NoRecord /\ Owner[j] = user}

\* max_concurrent: the oldest of the user make room for one more.
Dropped(map, user) ==
    {drop \in SUBSET Mine(map, user) :
        /\ MAX_CONCURRENT > 0
        /\ Cardinality(Mine(map, user)) - Cardinality(drop) < MAX_CONCURRENT
        /\ \A d \in drop, kept \in Mine(map, user) \ drop :
              map[d].created <= map[kept].created
        /\ \A d \in drop :
              Cardinality(Mine(map, user)) - Cardinality(drop) + 1 >= MAX_CONCURRENT}

Without(map, jtis) == [j \in Jtis |-> IF j \in jtis THEN NoRecord ELSE map[j]]

Good(j) == tick < expiry[j]

-----------------------------------------------------------------------------
(* The server.                                                             *)

ServerStep ==
    /\ cli.at # "idle" => cli.during < MaxDuring
    /\ cli' = IF cli.at = "idle" THEN cli ELSE [cli EXCEPT !.during = @ + 1]

\* open(), after a login.
Open(j, place) ==
    /\ expiry[j] = 0
    /\ expiry' = [expiry EXCEPT ![j] = tick + config.maxAge]
    /\ \E drop \in IF MAX_CONCURRENT = 0 THEN {{}} ELSE Dropped(Fresh(sessions), Owner[j]) :
          sessions' = [Without(Fresh(sessions), drop) EXCEPT ![j] =
             [created |-> tick, seen |-> tick, binding |-> IF config.bind THEN place ELSE Unbound]]
    /\ reply' = NoReply
    /\ UNCHANGED <<revoked, config, tick, ended>> /\ ServerStep

\* The record after a use: written only if the last write is over 30 s old.
Seen(j, record) ==
    IF tick - record.seen > 1
    THEN [record EXCEPT !.seen = tick, !.created = IF ROLLING THEN tick ELSE @]
    ELSE record

\* isRevoked()
IsRevoked(j) == revoked[j] > tick

Adopted(j, place) ==
    IF config.bind /\ sessions[j].binding = Unbound
    THEN [sessions[j] EXCEPT !.binding = place] ELSE sessions[j]

Elsewhere(j, place) ==
    config.bind /\ sessions[j].binding \notin {Unbound, place}

IsIdle(j) == config.idle > 0 /\ tick - sessions[j].seen > config.idle

\* touch(): the outcomes in the order of its early returns.
Touch(j, place) ==
    LET tracked == sessions[j] # NoRecord /\ (config.idle > 0 \/ config.bind \/ ROLLING)
        answer(code) == reply' = [jti |-> j, code |-> code]
    IN  \/ /\ IsRevoked(j) /\ answer("SESSION_REVOKED") /\ UNCHANGED sessions
        \/ /\ ~IsRevoked(j) /\ ~tracked
           /\ answer("ok") /\ UNCHANGED sessions
        \/ /\ ~IsRevoked(j) /\ tracked /\ Elsewhere(j, place)
           /\ answer("SESSION_BINDING") /\ sessions' = Without(sessions, {j})
        \/ /\ ~IsRevoked(j) /\ tracked /\ ~Elsewhere(j, place) /\ IsIdle(j)
           /\ answer("SESSION_IDLE") /\ sessions' = Without(sessions, {j})
        \/ /\ ~IsRevoked(j) /\ tracked /\ ~Elsewhere(j, place) /\ ~IsIdle(j)
           /\ answer("ok")
              \* the adopted fingerprint is saved only along with a use
           /\ sessions' = [sessions EXCEPT ![j] =
                 IF Seen(j, @) = @ THEN @ ELSE Seen(j, Adopted(j, place))]

\* authRequired and /api/handshake
Use(j, place) ==
    /\ Good(j) /\ Touch(j, place)
    /\ UNCHANGED <<expiry, revoked, config, tick, ended>> /\ ServerStep

\* The routes behind authRequired are reached only past touch(); what it may have
\* written they delete.
Passes(j, place) ==
    /\ Good(j) /\ ~IsRevoked(j)
    /\ sessions[j] # NoRecord => ~Elsewhere(j, place) /\ ~IsIdle(j)

\* POST /api/auth/logout: close()
Logout(j, place) ==
    /\ Passes(j, place)
    /\ revoked' = Revoked(revoked, j) /\ sessions' = Without(sessions, {j})
    /\ ended' = [ended EXCEPT ![j] = Promise(j)]
    /\ reply' = NoReply
    /\ UNCHANGED <<expiry, config, tick>> /\ ServerStep

\* POST /api/sessions/revoke-all: closeAllFor()
RevokeAll(j, place) ==
    LET mine == Mine(sessions, Owner[j])
    IN  /\ Passes(j, place)
        /\ revoked' = [i \in Jtis |-> IF i \in mine THEN tick + config.maxAge ELSE Pruned(revoked)[i]]
        /\ sessions' = Without(sessions, mine)
        /\ ended' = [i \in Jtis |-> IF i \in mine THEN Promise(i) ELSE ended[i]]
        /\ reply' = NoReply
        /\ UNCHANGED <<expiry, config, tick>> /\ ServerStep

\* GET /api/sessions: list()
List ==
    /\ sessions' = Fresh(sessions) /\ sessions' # sessions
    /\ reply' = NoReply
    /\ UNCHANGED <<expiry, revoked, config, tick, ended>> /\ ServerStep

\* PUT /api/settings/session
Configure ==
    /\ \E maxAge \in MaxAges, idle \in IdleTimeouts, bind \in BOOLEAN :
          config' = [maxAge |-> maxAge, idle |-> idle, bind |-> bind]
    /\ reply' = NoReply
    /\ UNCHANGED <<expiry, rows, tick, ended>> /\ ServerStep

-----------------------------------------------------------------------------
(* catwaf user passwd: closeAllFor() in a process of its own.              *)

CliLoads ==
    /\ cli.at = "idle"
    /\ cli' = [NoRun EXCEPT !.at = "next", !.sessions = sessions, !.todo = Mine(sessions, Target)]
    /\ cli'.todo # {}
    /\ UNCHANGED <<expiry, rows, config, tick, ended>>

CliReadsRevoked ==
    /\ cli.at = "next" /\ cli.todo # {}
    /\ cli' = [cli EXCEPT !.at = "revoke", !.revoked = revoked]
    /\ UNCHANGED <<expiry, rows, config, tick, ended>>

\* What was revoked since the read is lost.
CliRevokes ==
    /\ cli.at = "revoke"
    /\ \E j \in cli.todo :
          /\ revoked' = Revoked(cli.revoked, j)
          /\ cli' = [cli EXCEPT !.at = "next", !.revoked = NoRun.revoked, !.todo = @ \ {j},
                                !.sessions = Without(@, {j})]
          /\ ended' = [i \in Jtis |->
                IF i = j THEN Promise(i)
                ELSE IF revoked[i] > tick /\ cli.revoked[i] # revoked[i] THEN "lost" ELSE ended[i]]
    /\ UNCHANGED <<expiry, sessions, config, tick>>

\* What was opened, closed or used since the load is lost.
CliPersists ==
    /\ cli.at = "next" /\ cli.todo = {}
    /\ sessions' = cli.sessions /\ cli' = NoRun
    /\ UNCHANGED <<expiry, revoked, config, tick, ended>>

CliDies ==
    /\ cli.at # "idle" /\ cli' = NoRun
    /\ UNCHANGED <<expiry, rows, config, tick, ended>>

Cli ==
    /\ CliLoads \/ CliReadsRevoked \/ CliRevokes \/ CliPersists \/ CliDies
    /\ reply' = NoReply

-----------------------------------------------------------------------------
\* A run of the CLI takes no time.  An entry that no longer counts is as good as
\* none, and of a token that has expired nothing need be remembered.
HalfMinute ==
    /\ tick < MaxTicks /\ tick' = tick + 1 /\ cli.at = "idle"
    /\ revoked' = [j \in Jtis |-> IF revoked[j] > tick' THEN revoked[j] ELSE 0]
    /\ ended' = [j \in Jtis |-> IF tick' < expiry[j] THEN ended[j] ELSE "no"]
    /\ reply' = NoReply
    /\ UNCHANGED <<expiry, sessions, config, cli>>

SessionsInit ==
    /\ expiry = [j \in Jtis |-> 0]
    /\ sessions = [j \in Jtis |-> NoRecord] /\ revoked = [j \in Jtis |-> 0]
    /\ \E maxAge \in MaxAges, idle \in IdleTimeouts, bind \in BOOLEAN :
          config = [maxAge |-> maxAge, idle |-> idle, bind |-> bind]
    /\ cli = NoRun /\ reply = NoReply /\ tick = 0
    /\ ended = [j \in Jtis |-> "no"]

SessionsNext ==
    \/ \E j \in Jtis, place \in Places :
          Open(j, place) \/ Use(j, place) \/ Logout(j, place) \/ RevokeAll(j, place)
    \/ List \/ Configure \/ Cli \/ HalfMinute

SessionsSpec == SessionsInit /\ [][SessionsNext]_sessionVars

-----------------------------------------------------------------------------
(***************************************************************************)
(* "Erring short would let a signed-out token come back to life": a token  *)
(* that was signed out is not served again while it lives, whatever other  *)
(* sessions begin and end; except if the maximum age was lowered between   *)
(* its login and its sign-out, or another process wrote back a list of     *)
(* revocations that it had read before.                                    *)
(***************************************************************************)
SignedOutStaysOut ==
    reply.code = "ok" => ended[reply.jti] \in {"no", "short", "lost"}

=============================================================================
