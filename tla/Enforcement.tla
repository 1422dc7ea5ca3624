----------------------------- MODULE Enforcement -----------------------------
(***************************************************************************)
(* How requests are classified: enforce.js with the signals of intel/, the *)
(* greylist, the tool fingerprints, the canary paths and the rules that say*)
(* who is challenged.  Bans models the table of bans and its caches; here  *)
(* one address has one ban, and what matters is which signal decides.      *)
(*                                                                         *)
(* A pass first looks at what is local, then asks the network signals under*)
(* one deadline, may probe the client, and reads the settings anew after   *)
(* each wait.  Its verdict is cached for the address.  Requests of the     *)
(* address overlap.  Dry runs change nothing and are left out.             *)
(*                                                                         *)
(* What the network, the community lists and the database answer is chosen *)
(* freely.  A request is what it asks for and what its agent looks like;   *)
(* the hop lets it pass a challenge if it carries the cookie of a solved   *)
(* one (see Challenge).                                                    *)
(***************************************************************************)
EXTENDS Integers

CONSTANTS
    Requests,
    Kinds,                  \* [uri, agent]: the requests of the address
    Configs,                \* the settings a behaviour starts from
    VERDICT_TTL,
    VERDICT_TTL_EMERGENCY,
    DEADLINE,               \* how long the signals and the probe are waited for
    BAN_TIME,
    MaxInstant                 \* bound: the clock

Signals == {"asn", "rdns", "dnsbl", "threat_feed", "threat_network"}
Actions == {"flag", "challenge", "ban"}

EnforcementAssumption ==
    /\ Kinds \subseteq [uri : {"page", "exempt", "canary"}, agent : {"plain", "close", "tool"}]
    /\ Configs \subseteq [signals : SUBSET Signals, onListed : Actions, fail_open : BOOLEAN,
                          community : BOOLEAN, greylisted : BOOLEAN, skipsChallenge : BOOLEAN,
                          fingerprint : BOOLEAN, canary : BOOLEAN,
                          probe : {"off", "suspicious", "all"}, onProbe : Actions,
                          trigger : {"off", "all", "suspicious"}]
    /\ VERDICT_TTL \in Nat \ {0} /\ VERDICT_TTL_EMERGENCY \in 1..VERDICT_TTL
    /\ DEADLINE \in Nat /\ BAN_TIME \in Nat \ {0} /\ MaxInstant \in Nat

VARIABLES
    cfg,            \* the settings groups
    emergency,      \* ddos.emergency
    allowlisted,    \* the address is on the IP allowlist
    ban,            \* when its ban ends
    verdict,        \* its cached verdict
    passes,         \* Requests -> the pass that is under way
    answer,         \* the answer of this step
    instant,
    since           \* history: when the emergency, and the allowlisting, last changed

enforceVars == <<cfg, emergency, allowlisted, ban, verdict, passes, answer, instant, since>>
switches == <<cfg, emergency, allowlisted, since>>

\* An outcome: what is done, why, and whether somebody found grounds for a refusal.
Outcome == [action : {"allow", "block", "challenge"},
            why : {"allowlist", "banned", "tool", "canary", "signal", "probe", "exempt",
                   "greylist", "untriggered", "off", "challenged", "error"},
            grounds : BOOLEAN]
Out(action, why, grounds) == [action |-> action, why |-> why, grounds |-> grounds]

NoVerdict == [out |-> Out("challenge", "challenged", FALSE), until |-> 0]
NoPass == [at |-> "idle"]
NoAnswer == [given |-> FALSE]
Answer(k, out) == [given |-> TRUE, kind |-> k, out |-> out]

EnforcementInit ==
    /\ cfg \in Configs /\ emergency = FALSE /\ allowlisted = FALSE /\ ban = 0
    /\ verdict = NoVerdict /\ passes = [r \in Requests |-> NoPass]
    /\ answer = NoAnswer /\ instant = 0 /\ since = [emergency |-> 0, allowlisted |-> 0]

EnforcementTypeOK ==
    /\ cfg \in Configs /\ emergency \in BOOLEAN /\ allowlisted \in BOOLEAN
    /\ ban \in 0..MaxInstant + BAN_TIME /\ verdict.out \in Outcome
    /\ verdict.until \in 0..MaxInstant + VERDICT_TTL /\ instant \in 0..MaxInstant
    /\ \A r \in Requests : passes[r] # NoPass =>
          passes[r].at \in {"gathering", "probing"} /\ passes[r].kind \in Kinds
    /\ answer.given => answer.kind \in Kinds /\ answer.out \in Outcome
    /\ since \in [{"emergency", "allowlisted"} -> 0..MaxInstant]

-----------------------------------------------------------------------------
(* The signals.                                                            *)

\* What the evaluate() of each signal can find; a listed address is one that a zone, the
\* feed or the network reports with enough confidence.
AsnFinds == {"nothing", "allowed", "blocked", "unresolved"}
RdnsFinds == {"nothing", "allowed", "blocked", "unconfirmed"}
DnsblFinds == {"nothing", "listed"}
FeedFinds == {"nothing", "listed", "asked", "down"}
NetworkFinds == {"nothing", "listed"}

Finds == [asn |-> AsnFinds, rdns |-> RdnsFinds, dnsbl |-> DnsblFinds,
          threat_feed |-> FeedFinds, threat_network |-> NetworkFinds]

\* ... and what it asks for.
Decides(finding) ==
    CASE finding = "allowed" -> "allow"
      [] finding = "blocked" -> "block"
      [] finding \in {"unresolved", "unconfirmed"} -> "flag"
      [] finding = "listed" -> cfg.onListed
      [] finding = "asked" -> "challenge"
      [] finding = "down" -> IF cfg.fail_open THEN "flag" ELSE "block"
      [] OTHER -> "nothing"

\* gather(): what is late, or fails, does not count.
Gathered(found) == {<<s, Decides(found[s])>> : s \in {t \in DOMAIN found : found[t] # "late"}}

-----------------------------------------------------------------------------
(* The pass.                                                               *)

CanaryMatches(k) == cfg.canary /\ k.uri = "canary"

\* isExempt: by path.  By address, network, country or agent makes no other difference.
IsExempt(k) == k.uri = "exempt"

\* shouldChallenge()
ShouldChallenge(k, suspicious) ==
    CASE cfg.trigger = "off" -> Out("allow", "off", FALSE)
      [] cfg.trigger # "off" /\ IsExempt(k) -> Out("allow", "exempt", FALSE)
      [] OTHER -> IF ~emergency /\ cfg.trigger = "suspicious" /\ ~suspicious
                  THEN Out("allow", "untriggered", FALSE)
                  ELSE Out("challenge", "challenged", FALSE)

\* What is decided before anything is asked.
Local(k) ==
    allowlisted \/ ban > instant \/ (cfg.fingerprint /\ k.agent = "tool") \/ CanaryMatches(k)
LocalOutcome(k) ==
    IF allowlisted THEN Out("allow", "allowlist", FALSE)
    ELSE IF ban > instant THEN Out("block", "banned", TRUE)
    ELSE IF cfg.fingerprint /\ k.agent = "tool" THEN Out("block", "tool", TRUE)
    ELSE Out("block", "canary", TRUE)

\* verdictTtl()
VerdictTtl == IF emergency THEN VERDICT_TTL_EMERGENCY ELSE VERDICT_TTL

\* The verdict is given, cached unless it is a challenge, and bans if it says so.
Conclude(k, out, bans) ==
    /\ answer' = Answer(k, out)
    /\ verdict' = IF out.action = "challenge" THEN verdict
                  ELSE [out |-> out, until |-> instant + VerdictTtl]
    /\ ban' = IF bans /\ instant + BAN_TIME > ban THEN instant + BAN_TIME ELSE ban

\* Wrong variant: the cache answers whatever is asked for.
CachedAnyway(k) == verdict.until > instant /\ verdict.out.action # "challenge"

\* evaluate(): the cache answers, but not for a canary path.
Cached(k) == ~CanaryMatches(k) /\ verdict.until > instant /\ verdict.out.action # "challenge"

Remember(r, k) ==
    /\ passes[r] = NoPass /\ Cached(k)
    /\ answer' = Answer(k, verdict.out)
    /\ UNCHANGED <<switches, ban, verdict, passes, instant>>

Judge(r, k) ==
    /\ passes[r] = NoPass /\ ~Cached(k) /\ Local(k)
    /\ Conclude(k, LocalOutcome(k), LocalOutcome(k).why \in {"tool", "canary"})
    /\ UNCHANGED <<switches, passes, instant>>

Ask(r, k) ==
    /\ passes[r] = NoPass /\ ~Cached(k) /\ ~Local(k)
    /\ passes' = [passes EXCEPT ![r] = [at |-> "gathering", kind |-> k,
                                        begun |-> instant, tasks |-> cfg.signals]]
    /\ answer' = NoAnswer /\ UNCHANGED <<switches, ban, verdict, instant>>

\* The decisions of a pass: the fingerprint's, the signals', and the community lists'.
Decisions(k, found, listed) ==
    Gathered(found)
    \cup (IF cfg.fingerprint /\ k.agent = "close" THEN {<<"tool", "challenge">>} ELSE {})
    \cup (IF cfg.community THEN {<<"community", listed>>} ELSE {})

Asking(decisions, d) == {x[1] : x \in {y \in decisions : y[2] = d}}

\* An allow goes before any block, a block before any ban.
Settled(decisions) == \E d \in {"allow", "block", "ban"} : Asking(decisions, d) # {}
SettledOutcome(decisions, evidence) ==
    IF Asking(decisions, "allow") # {} THEN Out("allow", "signal", FALSE)
    ELSE Out("block", "signal", evidence)
Bans(decisions) == Asking(decisions, "allow") = {} /\ Asking(decisions, "block") = {}

\* Somebody found what a refusal may rest on.
Evidence(found, listed) ==
    \/ \E s \in DOMAIN found : \/ found[s] \in {"blocked", "listed"}
                               \/ found[s] = "down" /\ ~cfg.fail_open
    \/ listed = "block"

\* Nobody who is greylisted for it is challenged.
Unsettled(k, suspicious) ==
    IF cfg.greylisted /\ cfg.skipsChallenge THEN Out("allow", "greylist", FALSE)
    ELSE ShouldChallenge(k, suspicious)

Probes(suspicious) == cfg.probe = "all" \/ (cfg.probe = "suspicious" /\ suspicious)

Answered(r, found, listed) ==
    LET p == passes[r]
        decisions == Decisions(p.kind, found, listed)
        suspicious == Asking(decisions, "flag") \cup Asking(decisions, "challenge") # {}
    IN  IF Settled(decisions) THEN
            /\ Conclude(p.kind, SettledOutcome(decisions, Evidence(found, listed)),
                        Bans(decisions))
            /\ passes' = [passes EXCEPT ![r] = NoPass]
        ELSE IF Probes(suspicious) THEN
            /\ passes' = [passes EXCEPT ![r] = [at |-> "probing", kind |-> p.kind,
                                                begun |-> p.begun, suspicious |-> suspicious]]
            /\ answer' = NoAnswer /\ UNCHANGED <<ban, verdict>>
        ELSE
            /\ Conclude(p.kind, Unsettled(p.kind, suspicious), FALSE)
            /\ passes' = [passes EXCEPT ![r] = NoPass]

\* The signals have answered or the deadline has passed.
Gather(r) ==
    /\ passes[r].at = "gathering"
    /\ \E found \in [passes[r].tasks -> (UNION {Finds[s] : s \in Signals}) \cup {"late"}],
          listed \in {"nothing", "allow", "block"} :
          /\ \A s \in passes[r].tasks : found[s] \in Finds[s] \cup {"late"}
          /\ cfg.community \/ listed = "nothing"
          /\ Answered(r, found, listed)
    /\ UNCHANGED <<switches, instant>>

\* The probe of the client's ports has ended.
Probe(r) ==
    /\ passes[r].at = "probing"
    /\ \E open \in BOOLEAN :
          LET p == passes[r]
              suspicious == p.suspicious \/ (open /\ cfg.onProbe = "challenge")
          IN  IF open /\ cfg.onProbe = "ban"
              THEN Conclude(p.kind, Out("block", "probe", TRUE), TRUE)
              ELSE Conclude(p.kind, Unsettled(p.kind, suspicious), FALSE)
    /\ passes' = [passes EXCEPT ![r] = NoPass]
    /\ UNCHANGED <<switches, instant>>

\* The lists or the bans cannot be read or written: the hop lets the request pass.
Fail(r) ==
    /\ passes[r] # NoPass
    /\ answer' = Answer(passes[r].kind, Out("allow", "error", FALSE))
    /\ passes' = [passes EXCEPT ![r] = NoPass]
    /\ UNCHANGED <<switches, ban, verdict, instant>>

-----------------------------------------------------------------------------
SetEmergency ==
    /\ emergency' = ~emergency /\ since' = [since EXCEPT !.emergency = instant]
    /\ answer' = NoAnswer /\ UNCHANGED <<cfg, allowlisted, ban, verdict, passes, instant>>

\* /api/ip/whitelist: the cached verdicts are not dropped.
SetAllowlist ==
    /\ allowlisted' = ~allowlisted /\ since' = [since EXCEPT !.allowlisted = instant]
    /\ answer' = NoAnswer /\ UNCHANGED <<cfg, emergency, ban, verdict, passes, instant>>

\* No pass takes longer than the deadline.
Tick ==
    /\ instant < MaxInstant /\ \A r \in Requests : passes[r] # NoPass => instant < passes[r].begun + DEADLINE
    /\ instant' = instant + 1 /\ answer' = NoAnswer
    /\ UNCHANGED <<switches, ban, verdict, passes>>

EnforcementNext ==
    \/ \E r \in Requests, k \in Kinds : Remember(r, k) \/ Judge(r, k) \/ Ask(r, k)
    \/ \E r \in Requests : Gather(r) \/ Probe(r) \/ Fail(r)
    \/ SetEmergency \/ SetAllowlist \/ Tick

EnforcementSpec == EnforcementInit /\ [][EnforcementNext]_enforceVars

-----------------------------------------------------------------------------
(* What a visitor may count on.                                            *)

\* enforce.js:59-61, :308-310: whoever asks for a canary path is refused, whatever was
\* allowed a moment ago, and is banned.
CanaryIsCaught ==
    answer.given /\ CanaryMatches(answer.kind) /\ answer.out.why \notin {"allowlist", "error"} =>
        answer.out.action = "block" /\ ban > instant

\* enforce.js:17-19: a signal that fails or is late refuses nobody: a refusal rests on what
\* somebody found, or on a feed that is configured to fail closed.
RefusalsHaveGrounds ==
    answer.given /\ answer.out.action = "block" =>
        answer.out.grounds

\* enforce.js:123: a human's allow beats every signal once what was cached before is gone.
AllowlistTakesHold ==
    answer.given /\ allowlisted /\ instant - since.allowlisted >= VERDICT_TTL + DEADLINE =>
        answer.out.action = "allow"

\* challenge/index.js:168: under attack nobody gets in unchallenged, fresh or cached, once
\* what was cached before has gone, but who is exempt or allowed for a reason.
EmergencyTakesHold ==
    /\ answer.given /\ emergency /\ cfg.trigger # "off"
    /\ instant - since.emergency >= VERDICT_TTL
    => answer.out.why # "untriggered"

VerdictsHold ==
    CanaryIsCaught /\ RefusalsHaveGrounds /\ AllowlistTakesHold /\ EmergencyTakesHold

=============================================================================
