-------------------------------- MODULE Bans --------------------------------
(***************************************************************************)
(* The active bans and the requests that are judged by them: bans.js, the  *)
(* classification of enforce.js with its cached verdicts, and the routes   *)
(* and CLI commands that write bans.                                       *)
(*                                                                         *)
(* The table of bans is shared; the API server judges requests from it and *)
(* from two caches of its own: the rows that ban ranges (five seconds) and *)
(* one verdict per address (twenty).  A CLI run writes the table and can   *)
(* drop only the caches of its own process.  Classification waits for the  *)
(* network between looking a ban up and caching its verdict.               *)
(*                                                                         *)
(* Two history variables say when a write must show: `due` is the time from*)
(* which a ban in force lets nobody in, `over` the time from which ended   *)
(* bans refuse an address no more.  The code keeps neither.                *)
(*                                                                         *)
(* Addrs are addresses that are not on the allowlist.  Time is discrete and*)
(* no classification takes longer than Deadline.  Escalation (ban_history) *)
(* only chooses a longer duration.  When the table cannot be read, the hop *)
(* lets the request pass and nothing changes.                              *)
(***************************************************************************)
EXTENDS Integers

CONSTANTS
    Addrs,          \* client addresses
    Ranges,         \* CIDR ranges that are banned
    Covers,         \* the pairs <<range, address>> of ipCoveredBy
    Sources,        \* who bans automatically: canary, dnsbl, challenge, ...
    Visits,         \* bound: requests classified at the same time
    NoBan,          \* no row
    Forever,        \* the NULL expiry
    Durations,      \* how long bans are, escalated or not
    CidrTTL,        \* how long cidrCache is used: 5 s
    VerdictTTL,     \* VERDICT_TTL_MS: 20 s
    VerdictTTLs,    \* verdictTtl(): VerdictTTL, less under attack
    Deadline,       \* how long a classification takes at most
    MaxNow          \* bound: the clock

ASSUME RowsAssumption == NoBan # Forever /\ NoBan \notin Int /\ Forever \notin Int
ASSUME CoversAssumption ==
    Covers \subseteq Ranges \X Addrs /\ Addrs \cap Ranges = {} /\ NoBan \notin Addrs
ASSUME DurationsAssumption == Durations \subseteq Nat \ {0}
ASSUME TTLAssumption ==
    /\ CidrTTL \in Nat \ {0} /\ VerdictTTL \in Nat \ {0} /\ Deadline \in Nat
    /\ VerdictTTLs \subseteq 1..VerdictTTL
ASSUME BoundsAssumption == MaxNow \in Nat

VARIABLES
    bans,       \* active_bans: key -> when it expires
    cidrCache,  \* the server's rows for ranges: [at, rows]
    verdicts,   \* the server's cached verdicts: address -> [action, until]
    visits,     \* requests being classified: [addr, since]
    answer,     \* whom the last step let in, or refused for a ban: [addr, action]
    now,
    due,        \* history: key -> when its ban must have taken hold
    over        \* history: address -> when ended bans must have let go of it

server == <<cidrCache, verdicts, visits>>
vars == <<bans, server, answer, now, due, over>>

Targets == Addrs \cup Ranges
RangeKeys == Ranges \X {"manual"}
Keys == (Addrs \X ({"manual"} \cup Sources)) \cup RangeKeys

Idle == [addr |-> NoBan, since |-> 0]
NoVerdict == [action |-> "none", until |-> 0]
NoAnswer == [addr |-> NoBan, action |-> "none"]
NoCache == [at |-> 0, rows |-> [k \in RangeKeys |-> NoBan]]

Expiries == Nat \cup {NoBan, Forever}

TypeOK ==
    /\ bans \in [Keys -> Expiries]
    /\ cidrCache \in [at : 0..now, rows : [RangeKeys -> Expiries]]
    /\ verdicts \in [Addrs -> [action : {"none", "allow", "block", "signal"}, until : Nat]]
    /\ visits \in [Visits -> [addr : Addrs, since : Nat] \cup {Idle}]
    /\ answer \in [addr : Addrs \cup {NoBan},
                   action : {"none", "allow", "block"}]
    /\ now \in Nat
    /\ due \in [Keys -> Nat] /\ over \in [Addrs -> Nat]

-----------------------------------------------------------------------------
(* The table.                                                              *)

Later(x, y) == IF x < y THEN y ELSE x

Live(row) == row # NoBan /\ (row # Forever => row > now)
InForce(k) == Live(bans[k])
Covering(a) == {k \in Keys : k[1] = a \/ <<k[1], a>> \in Covers}

\* Wrong variant: a NULL expiry counts as none.
NullIsFalsy(row, expiry) == expiry = Forever \/ (row # Forever /\ row > expiry)

\* keepLonger: an extension does not shorten a ban; nor does it make a
\* temporary ban permanent.
KeepLonger(row, expiry) == expiry = Forever \/ row = Forever \/ row > expiry

\* The row that ban() inserts or, for a target and source it knows, extends.
Row(k, seconds) ==
    LET expiry == IF seconds = Forever THEN Forever ELSE now + seconds
    IN  IF bans[k] # NoBan /\ KeepLonger(bans[k], expiry) THEN bans[k] ELSE expiry

\* ban().  It may fail once the row is there, when it counts the bans of the
\* target: the caller gets an exception.
Ban(k, seconds) == bans' = [bans EXCEPT ![k] = Row(k, seconds)]
BanUncounted(k, seconds) == bans[k] = NoBan /\ Ban(k, seconds)

-----------------------------------------------------------------------------
(* Looking a ban up.                                                       *)

\* Wrong variant: the cache is stamped with its end.
StampsExpiry ==
    IF now < cidrCache.at THEN cidrCache
    ELSE [at |-> now + CidrTTL, rows |-> [k \in RangeKeys |-> bans[k]]]

\* cidrBans()
CidrBans ==
    IF now - cidrCache.at < CidrTTL THEN cidrCache
    ELSE [at |-> now, rows |-> [k \in RangeKeys |-> bans[k]]]

\* check(): rows of the address itself come from the table.
Exact(a) == \E k \in Keys : k[1] = a /\ InForce(k)
Refused(a) ==
    \/ Exact(a)
    \/ \E k \in RangeKeys : <<k[1], a>> \in Covers /\ Live(CidrBans.rows[k])
Check(a) == cidrCache' = IF Exact(a) THEN cidrCache ELSE CidrBans

-----------------------------------------------------------------------------
(* When writes must show.                                                  *)

\* None of these requests is from the address.
Unseen(a, requests) == \A v \in requests : visits[v].addr # a

\* `fresh`: no other verdict is cached or on its way; `reread`: nor are old rows.
Due(k, fresh, reread) ==
    due' = [due EXCEPT ![k] =
               IF InForce(k) /\ reread THEN @
               ELSE now + (IF fresh THEN 0 ELSE Deadline + VerdictTTL)
                        + (IF reread THEN 0 ELSE CidrTTL)]

\* These keys stop being in force; no verdict of `fresh` is cached.
Over(keys, fresh, reread) ==
    /\ over' = [a \in Addrs |->
          LET ended == {k \in keys \cap Covering(a) : InForce(k)}
              lag == (IF a \in fresh THEN 0 ELSE VerdictTTL)
                     + (IF reread \/ ended \cap RangeKeys = {} THEN 0 ELSE CidrTTL)
          IN  IF ended = {} THEN over[a] ELSE Later(over[a], now + lag)]
    /\ due' = [k \in Keys |-> IF k \in keys THEN 0 ELSE due[k]]

\* No copy of the table is left for anybody to wait for.
Forgotten == due' = [k \in Keys |-> 0] /\ over' = [a \in Addrs |-> 0]

-----------------------------------------------------------------------------
\* A running server that has judged nothing yet; the epoch is long ago.
Init ==
    /\ bans = [k \in Keys |-> NoBan]
    /\ cidrCache = NoCache /\ verdicts = [a \in Addrs |-> NoVerdict]
    /\ visits = [v \in Visits |-> Idle] /\ answer = NoAnswer
    /\ now = CidrTTL
    /\ due = [k \in Keys |-> 0] /\ over = [a \in Addrs |-> 0]

-----------------------------------------------------------------------------
(* Writers.                                                                *)

\* Wrong variant: the writer keeps its range cache.
KeepCidrCache(t) == UNCHANGED cidrCache

\* invalidateCache() in the process that writes a range.
DropCidrCache(t) == cidrCache' = IF t \in Ranges THEN NoCache ELSE cidrCache

\* Wrong variant: the routes leave the verdicts alone.
KeepVerdicts(t) == UNCHANGED verdicts

\* enforce.invalidate(target): the verdict of that very key, so none for a range.
Invalidate(t) ==
    verdicts' = [a \in Addrs |-> IF a = t THEN NoVerdict ELSE verdicts[a]]

\* POST /api/bans; an exception leaves both caches as they are.
ApiBan(t, seconds) ==
    LET k == <<t, "manual">>
    IN  /\ \/ /\ Ban(k, seconds) /\ DropCidrCache(t) /\ Invalidate(t)
              /\ Due(k, t \in Addrs /\ Unseen(t, Visits), TRUE)
           \/ /\ BanUncounted(k, seconds) /\ UNCHANGED <<cidrCache, verdicts>>
              /\ Due(k, FALSE, t \in Addrs)
        /\ answer' = NoAnswer
        /\ UNCHANGED <<visits, now, over>>

\* catwaf bans add
CliBan(t, seconds) ==
    LET k == <<t, "manual">>
    IN  /\ Ban(k, seconds)
        /\ Due(k, FALSE, t \in Addrs)
        /\ answer' = NoAnswer
        /\ UNCHANGED <<server, now, over>>

\* A failed challenge or an infected upload: nobody drops the verdict.
Report(a, source, seconds) ==
    LET k == <<a, source>>
    IN  /\ Ban(k, seconds)
        /\ Due(k, FALSE, TRUE)
        /\ answer' = NoAnswer
        /\ UNCHANGED <<server, now, over>>

\* behavior.sweep() bans whoever is not banned yet.
Sweep(a, source, seconds) ==
    LET k == <<a, source>>
    IN  /\ ~Refused(a) /\ Check(a)
        /\ Ban(k, seconds)
        /\ Due(k, FALSE, TRUE)
        /\ answer' = NoAnswer
        /\ UNCHANGED <<verdicts, visits, now, over>>

Delete(keys) == bans' = [k \in Keys |-> IF k \in keys THEN NoBan ELSE bans[k]]

\* The bans of one target, of every source or of one: DELETE /api/bans/:id and
\* POST /api/bans/lift.
ApiLift(t, keys) ==
    /\ Delete(keys) /\ Over(keys, {t} \cap Addrs, \E k \in keys : bans[k] # NoBan)
    /\ IF \E k \in keys : bans[k] # NoBan THEN DropCidrCache(t) ELSE UNCHANGED cidrCache
    /\ Invalidate(t)
    /\ answer' = NoAnswer
    /\ UNCHANGED <<visits, now>>

\* catwaf bans lift
CliLift(keys) ==
    /\ Delete(keys) /\ Over(keys, {}, FALSE)
    /\ answer' = NoAnswer
    /\ UNCHANGED <<server, now>>

\* POST /api/bans/clear
ApiClear ==
    /\ Delete(Keys) /\ Forgotten
    /\ cidrCache' = NoCache /\ verdicts' = [a \in Addrs |-> NoVerdict]
    /\ answer' = NoAnswer
    /\ UNCHANGED <<visits, now>>

\* catwaf bans clear
CliClear == CliLift(Keys)

\* purgeExpired(), the job bans.expire of the server.
Purge ==
    LET expired == {k \in Keys : bans[k] # NoBan /\ ~InForce(k)}
    IN  /\ expired # {}
        /\ Delete(expired) /\ cidrCache' = NoCache
        /\ answer' = NoAnswer
        /\ UNCHANGED <<verdicts, visits, now, due, over>>

-----------------------------------------------------------------------------
(* Requests.                                                               *)

Cached(a) == verdicts[a].action # "none" /\ now < verdicts[a].until

\* Only an "allow" and a "block" are looked at below.
Answer(a, action) ==
    answer' = IF action \in {"allow", "block"} THEN [addr |-> a, action |-> action] ELSE NoAnswer

Judge(a, action) ==
    /\ \E ttl \in VerdictTTLs :
          verdicts' = [verdicts EXCEPT ![a] = [action |-> action, until |-> now + ttl]]
    /\ Answer(a, action)

\* A verdict answers for every path but a canary.
Hit(a) ==
    /\ Cached(a)
    /\ Answer(a, verdicts[a].action)
    /\ UNCHANGED <<bans, server, now, due, over>>

Refuse(a) ==
    /\ Refused(a) /\ Check(a)
    /\ Judge(a, "block")
    /\ UNCHANGED <<bans, visits, now, due, over>>

\* The tool or the path gives the visitor away: banned at once, also from a path
\* that takes no notice of the verdict.
Catch(a, source) ==
    /\ ~Refused(a) /\ Check(a)
    /\ \E seconds \in Durations :
          \/ /\ Ban(<<a, source>>, seconds) /\ Judge(a, "block")
             /\ Due(<<a, source>>, Unseen(a, Visits), TRUE)
          \/ /\ BanUncounted(<<a, source>>, seconds) /\ UNCHANGED verdicts
             /\ Answer(a, "error")
             /\ Due(<<a, source>>, FALSE, TRUE)
    /\ UNCHANGED <<visits, now, over>>

\* Everything else waits for the network.
Classify(v, a) ==
    /\ visits[v] = Idle
    /\ ~Cached(a) /\ ~Refused(a) /\ Check(a)
    /\ visits' = [visits EXCEPT ![v] = [addr |-> a, since |-> now]]
    /\ answer' = NoAnswer
    /\ UNCHANGED <<bans, verdicts, now, due, over>>

\* The signals are in: nothing, a block, a challenge or a ban.
Finish(v) ==
    LET a == visits[v].addr
    IN  /\ visits[v] # Idle
        /\ visits' = [visits EXCEPT ![v] = Idle]
        /\ \/ /\ Judge(a, "allow") \/ Judge(a, "signal")
              /\ UNCHANGED <<bans, due>>
           \/ /\ Answer(a, "challenge")
              /\ UNCHANGED <<bans, verdicts, due>>
           \/ \E seconds \in Durations : \E k \in {a} \X Sources :
                 \/ /\ Ban(k, seconds) /\ Judge(a, "block")
                    /\ Due(k, Unseen(a, Visits \ {v}), TRUE)
                 \/ /\ BanUncounted(k, seconds)
                    /\ \/ Judge(a, "allow")     \* client_probe: "probing is advisory"
                       \/ UNCHANGED verdicts /\ Answer(a, "challenge")
                       \/ UNCHANGED verdicts /\ Answer(a, "error")
                    /\ Due(k, FALSE, TRUE)
        /\ UNCHANGED <<cidrCache, now, over>>

\* The verdict is evicted from a full cache.
Evict(a) ==
    /\ verdicts[a] # NoVerdict
    /\ verdicts' = [verdicts EXCEPT ![a] = NoVerdict]
    /\ answer' = NoAnswer
    /\ UNCHANGED <<bans, cidrCache, visits, now, due, over>>

\* The server dies and is started again.
Restart ==
    /\ cidrCache' = NoCache /\ verdicts' = [a \in Addrs |-> NoVerdict]
    /\ visits' = [v \in Visits |-> Idle] /\ answer' = NoAnswer
    /\ Forgotten
    /\ UNCHANGED <<bans, now>>

-----------------------------------------------------------------------------
\* Time passes, but not over the deadline of a request.  A copy that is too old
\* to be used again is as good as none, and a time that is past as good as zero.
Upcoming(time) == IF now + 1 < time THEN time ELSE 0

Tick ==
    /\ now < MaxNow /\ now' = now + 1
    /\ \A v \in Visits : visits[v] # Idle => now < visits[v].since + Deadline
    /\ UNCHANGED <<bans, visits>>
    /\ cidrCache' = IF now + 1 - cidrCache.at < CidrTTL THEN cidrCache ELSE NoCache
    /\ verdicts' = [a \in Addrs |->
                       IF now + 1 < verdicts[a].until THEN verdicts[a] ELSE NoVerdict]
    /\ due' = [k \in Keys |-> IF InForce(k)' THEN Upcoming(due[k]) ELSE 0]
    /\ over' = [a \in Addrs |->
                   IF \E k \in Covering(a) : InForce(k) /\ ~InForce(k)'
                   THEN Later(over[a], now + VerdictTTL) ELSE Upcoming(over[a])]
    /\ answer' = NoAnswer

Write ==
    \/ \E t \in Targets, seconds \in Durations \cup {Forever} :
          ApiBan(t, seconds) \/ CliBan(t, seconds)
    \/ \E a \in Addrs, source \in Sources, seconds \in Durations :
          Report(a, source, seconds) \/ Sweep(a, source, seconds)
    \/ \E t \in Targets : \E keys \in SUBSET {k \in Keys : k[1] = t} :
          ApiLift(t, keys) \/ CliLift(keys)
    \/ ApiClear \/ CliClear \/ Purge

Request ==
    \/ \E a \in Addrs : Hit(a) \/ Refuse(a) \/ Evict(a)
    \/ \E a \in Addrs, source \in Sources : Catch(a, source)
    \/ \E v \in Visits : Finish(v) \/ \E a \in Addrs : Classify(v, a)

Next == Write \/ Request \/ Restart \/ Tick

Spec == Init /\ [][Next]_vars

-----------------------------------------------------------------------------
(***************************************************************************)
(* A banned address is kept out: nobody a ban in force covers is let in    *)
(* from `due` on, that is                                                  *)
(*   - at once, if the ban dropped or replaced the verdict and no request  *)
(*     of the address was being classified;                                *)
(*   - else after the deadline and the life of a verdict, plus the life of *)
(*     the range cache for a range that another process bans.              *)
(***************************************************************************)
BansTakeHold ==
    answer.action = "allow" =>
        \A k \in Covering(answer.addr) : InForce(k) => now < due[k]

(***************************************************************************)
(* Whoever is let back in gets in: an address is refused for a ban only    *)
(* while one that covers it is in force or has ended too recently for the  *)
(* caches.  A ban of an address lifted in the dashboard refuses nobody from*)
(* that moment on, and neither does any ban once all are cleared there.    *)
(***************************************************************************)
LiftsTakeHold ==
    answer.action = "block" =>
        (\E k \in Covering(answer.addr) : InForce(k)) \/ now < over[answer.addr]

(***************************************************************************)
(* "A NULL existing expiry means permanent - it must always win": as long  *)
(* as its row stays, a ban is never cut short, whoever reports again.      *)
(***************************************************************************)
BansOnlyGrow ==
    [][\A k \in Keys : bans[k] # NoBan /\ bans'[k] # NoBan =>
          bans'[k] = bans[k] \/ (bans[k] # Forever /\ (bans'[k] = Forever \/ bans'[k] > bans[k]))]_vars

=============================================================================
