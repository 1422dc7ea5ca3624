------------------------------ MODULE Challenge ------------------------------
(***************************************************************************)
(* The challenge gate: services/challenge with its routes in gateway.js.   *)
(* A suspicious visitor gets a page with an id and has to answer it.  The  *)
(* pending challenges and the attempts of each address are two maps in the *)
(* memory of the API server, both in the order of insertion, swept of what *)
(* has expired whenever one is used, and limited in size.                  *)
(*                                                                         *)
(* An answer is judged at once, or by a provider that is awaited; other    *)
(* requests go on meanwhile.  An attempt is counted before it is judged.   *)
(* Times are what is left of a life.  The page, its signed cookie and the  *)
(* rules that say who is challenged are left out; the ban itself is made   *)
(* in Bans.                                                                *)
(***************************************************************************)
EXTENDS Naturals, Sequences, SequencesExt

CONSTANTS
    Addresses,
    resolve_seconds,        \* the life of a challenge, in ticks
    max_attempts,
    MAX_PENDING,
    MAX_ATTEMPTS_ENTRIES,
    MaxIds                  \* bound: challenges that are issued

ChallengeAssumption ==
    /\ resolve_seconds \in Nat \ {0} /\ max_attempts \in Nat \ {0}
    /\ MAX_PENDING \in Nat \ {0} /\ MAX_ATTEMPTS_ENTRIES \in Nat \ {0} /\ MaxIds \in Nat

VARIABLES
    pending,    \* id, address, mode and what is left, the oldest first
    attempts,   \* address, count and what is left, the oldest first
    verifying,  \* what the provider has been asked and has not answered yet
    issued,     \* challenges so far: the ids
    expelled,   \* addresses that were banned
    tries       \* history: address -> ages of its attempts since it last succeeded

challengeVars == <<pending, attempts, verifying, issued, expelled, tries>>

Window == 4 * resolve_seconds
Modes == {"local", "provider"}
Id == 1..MaxIds

ChallengeTypeOK ==
    /\ pending \in BoundedSeq([id : Id, ip : Addresses, mode : Modes, left : 0..resolve_seconds],
                              MAX_PENDING)
    /\ attempts \in BoundedSeq([ip : Addresses, count : 1..max_attempts + 1, left : 0..Window],
                               MAX_ATTEMPTS_ENTRIES)
    /\ verifying \subseteq [id : Id, ip : Addresses]
    /\ issued \in 0..MaxIds /\ expelled \subseteq Addresses
    /\ \A a \in Addresses : tries[a] \in BoundedSeq(0..Window, max_attempts + 1)

-----------------------------------------------------------------------------
\* The elements of a sequence that are in S, in their order.
Kept(s, S) ==
    LET kept[n \in 0..Len(s)] ==
            IF n = 0 THEN <<>>
            ELSE IF s[n] \in S THEN Append(kept[n - 1], s[n]) ELSE kept[n - 1]
    IN  kept[Len(s)]

\* sweep()
Unexpired(entries) == Kept(entries, {e \in Range(entries) : e.left > 0})

\* sweep() of solve(), which begins with it.
Swept(entries) == Unexpired(entries)

Without(entries, id) == Kept(entries, {e \in Range(entries) : e.id # id})
Forget(entries, a) == Kept(entries, {e \in Range(entries) : e.ip # a})
LastOf(n, s) == IF Len(s) > n THEN SubSeq(s, Len(s) - n + 1, Len(s)) ELSE s

\* issue(): the pending challenges with one more, for which the oldest may have to go.
Issued(entries, a, mode) ==
    LastOf(MAX_PENDING - 1, Unexpired(entries))
        \o <<[id |-> issued + 1, ip |-> a, mode |-> mode, left |-> resolve_seconds]>>

\* recordAttempt(): one more attempt of the address, from a new window if it has none.
\* The oldest goes if there are too many; beyond the maximum a count makes no difference.
Counted(entries, a) ==
    LET next(n) == IF n > max_attempts THEN n ELSE n + 1
        more == IF \E e \in Range(entries) : e.ip = a
                THEN [i \in DOMAIN entries |->
                        IF entries[i].ip = a THEN [entries[i] EXCEPT !.count = next(@)]
                                             ELSE entries[i]]
                ELSE Append(entries, [ip |-> a, count |-> 1, left |-> Window])
    IN  LastOf(MAX_ATTEMPTS_ENTRIES, more)

\* What recordAttempt() returns.
Attempted(entries, a) ==
    IF \E e \in Range(entries) : e.ip = a
    THEN 1 + (CHOOSE e \in Range(entries) : e.ip = a).count ELSE 1

-----------------------------------------------------------------------------
\* GET /catwaf-challenge
Issue(a, mode) ==
    /\ issued < MaxIds
    /\ issued' = issued + 1
    /\ pending' = Issued(pending, a, mode)
    /\ attempts' = Unexpired(attempts)
    /\ UNCHANGED <<verifying, expelled, tries>>

\* The answer was not good: the visitor gets another page.
Reissue(entries, a, mode) ==
    /\ issued < MaxIds /\ issued' = issued + 1
    /\ pending' = Issued(entries, a, mode)

\* POST /catwaf-challenge/verify, the id unknown, expired or of another address.
Lost(a, id, mode) ==
    /\ ~\E e \in Range(Swept(pending)) : e.id = id /\ e.ip = a
    /\ Reissue(Swept(pending), a, mode)
    /\ attempts' = Swept(attempts)
    /\ UNCHANGED <<verifying, expelled, tries>>

\* The other answers count as an attempt.
Try(e) ==
    /\ e \in Range(Swept(pending))
    /\ attempts' = Counted(Swept(attempts), e.ip)
    /\ tries' = [tries EXCEPT ![e.ip] = LastOf(max_attempts + 1, Append(@, 0))]

TooMany(e) == Attempted(Swept(attempts), e.ip) > max_attempts

\* Too many: the address is banned.
Expel(e) ==
    /\ Try(e) /\ TooMany(e)
    /\ expelled' = expelled \cup {e.ip}
    /\ pending' = Without(Swept(pending), e.id)
    /\ UNCHANGED <<verifying, issued>>

\* clearAttempts()
ClearAttempts(entries, a) == Forget(entries, a)

\* Judged at once, and right: the token is minted.
Solve(e) ==
    /\ e \in Range(Swept(pending)) /\ e.mode = "local" /\ ~TooMany(e)
    /\ attempts' = ClearAttempts(Counted(Swept(attempts), e.ip), e.ip)
    /\ tries' = [tries EXCEPT ![e.ip] = <<>>]
    /\ pending' = Without(Swept(pending), e.id)
    /\ UNCHANGED <<verifying, issued, expelled>>

\* Judged at once, and wrong; the old challenge may still be answered.
Fail(e, mode) ==
    /\ Try(e) /\ e.mode = "local" /\ ~TooMany(e)
    /\ Reissue(Swept(pending), e.ip, mode)
    /\ UNCHANGED <<verifying, expelled>>

\* The provider is asked.
AskProvider(e) ==
    /\ Try(e) /\ e.mode = "provider" /\ ~TooMany(e)
    /\ verifying' = verifying \cup {[id |-> e.id, ip |-> e.ip]}
    /\ pending' = Swept(pending)
    /\ UNCHANGED <<issued, expelled>>

\* It answers: yes.  The same challenge may have been answered twice, and more be to come.
ProviderAccepts(v) ==
    /\ v \in verifying
    /\ verifying' \in {verifying, verifying \ {v}}
    /\ pending' = Without(pending, v.id)
    /\ attempts' = ClearAttempts(attempts, v.ip)
    /\ tries' = [tries EXCEPT ![v.ip] = <<>>]
    /\ UNCHANGED <<issued, expelled>>

\* It answers no, or cannot be reached.
ProviderRefuses(v, mode) ==
    /\ v \in verifying
    /\ verifying' \in {verifying, verifying \ {v}}
    /\ Reissue(pending, v.ip, mode)
    /\ attempts' = Unexpired(attempts)
    /\ UNCHANGED <<expelled, tries>>

\* The ban has ended.
Readmit(a) ==
    /\ a \in expelled /\ expelled' = expelled \ {a}
    /\ UNCHANGED <<pending, attempts, verifying, issued, tries>>

Less(entries) ==
    [i \in DOMAIN entries |->
        [entries[i] EXCEPT !.left = IF @ = 0 THEN 0 ELSE @ - 1]]

Tick ==
    /\ pending' = Less(pending) /\ attempts' = Less(attempts)
    /\ tries' = [a \in Addresses |->
                   Kept([i \in DOMAIN tries[a] |-> tries[a][i] + 1], 0..Window - 1)]
    /\ pending # pending' \/ attempts # attempts'
    /\ UNCHANGED <<verifying, issued, expelled>>

\* The server restarts: what is in memory is gone, and with it whoever waits for an answer.
Restart ==
    /\ pending' = <<>> /\ attempts' = <<>> /\ verifying' = {}
    /\ pending # pending' \/ attempts # attempts'
    /\ UNCHANGED <<issued, expelled, tries>>

ChallengeInit ==
    /\ pending = <<>> /\ attempts = <<>> /\ verifying = {}
    /\ issued = 0 /\ expelled = {} /\ tries = [a \in Addresses |-> <<>>]

ChallengeNext ==
    \/ \E mode \in Modes :
         \/ \E a \in Addresses : Issue(a, mode) \/ \E id \in 1..issued : Lost(a, id, mode)
         \/ \E e \in Range(pending) : Fail(e, mode)
         \/ \E v \in verifying : ProviderRefuses(v, mode)
    \/ \E e \in Range(pending) : Expel(e) \/ Solve(e) \/ AskProvider(e)
    \/ \E v \in verifying : ProviderAccepts(v)
    \/ \E a \in Addresses : Readmit(a)
    \/ Tick \/ Restart

ChallengeSpec == ChallengeInit /\ [][ChallengeNext]_challengeVars

-----------------------------------------------------------------------------
(***************************************************************************)
(* A ban is earned: its address has tried more than max_attempts times     *)
(* within four lives of a challenge, and has not succeeded in between,     *)
(* however its attempts, the expiry of its count and the answers of the    *)
(* provider fall.                                                          *)
(***************************************************************************)
BansAreEarned ==
    [][\A a \in expelled' \ expelled : Len(tries'[a]) > max_attempts]_challengeVars

=============================================================================
