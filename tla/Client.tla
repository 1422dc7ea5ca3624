------------------------------- MODULE Client -------------------------------
(***************************************************************************)
(* The dashboard and the door of the API: utils/api.js and AuthContext.jsx *)
(* in the browser, dynamicPath.js and signing.js in front of the routes.   *)
(*                                                                         *)
(* The API answers under a path that rotates; the browser asks for the path*)
(* of the hour (the handshake), signs its request with the time and a      *)
(* nonce, and on "410, the path has rotated" asks once more.  Calls of one *)
(* page overlap and share what localStorage holds: the token and the path. *)
(*                                                                         *)
(* The network loses, delays and repeats: whatever was sent may arrive any *)
(* number of times, its answer or none of them comes back.  The clock of   *)
(* the browser is off by `skew`.  Tokens die in ways that are none of the  *)
(* browser's business (Sessions, Accounts).                                *)
(***************************************************************************)
EXTENDS Integers

CONSTANTS
    Calls,          \* what the pages ask for: each happens once
    Logouts,        \* those that are POST /api/auth/logout
    MaxTokens,      \* bound: logins
    Skews,          \* how far the clock of the browser may be off
    WINDOW,         \* for how long a path is current: 15 min
    MAX_SKEW,       \* how far a time stamp may be off: 2 min
    NONCE_TTL,      \* for how long a nonce is remembered: 5 min
    MaxClock        \* bound: the clock

WindowAssumption == WINDOW \in Nat \ {0} /\ MAX_SKEW \in Nat
                    /\ NONCE_TTL \in Nat /\ NONCE_TTL > 2 * MAX_SKEW
ClientBoundsAssumption ==
    Logouts \subseteq Calls /\ MaxTokens \in Nat /\ MaxClock \in Nat /\ Skews \subseteq Int

VARIABLES
    clock,      \* the time of the server
    skew,
    minted,     \* tokens minted so far: 1..minted
    alive,      \* those the server accepts
    storage,    \* localStorage: [token, gate], 0 and -1 for none
    calls,      \* how far each call is
    wire,       \* requests that may still arrive
    seenNonces, \* nonce -> until when it is remembered, 0 for not
    served,     \* history: requests the running server has carried out
    again       \* history: those it has carried out once more

browser == <<storage, calls>>
clientVars == <<clock, skew, minted, alive, browser, wire, seenNonces, served, again>>

NoGate == -1
Nonces == Calls \X BOOLEAN
Replies == {"200", "410", "5xx", "guest", "late", "replay"}
Refusals == {"guest", "late", "replay"}     \* the kinds of 401
Steps == {"new", "handshake", "gate", "sent", "answer", "done"}
New == [at |-> "new", token |-> 0, gate |-> NoGate, retry |-> FALSE, code |-> "200"]

ClientTypeOK ==
    /\ clock \in 0..MaxClock /\ skew \in Skews
    /\ minted \in 0..MaxTokens /\ alive \subseteq 1..minted
    /\ storage \in [token : 0..minted, gate : -1..MaxClock]
    /\ calls \in [Calls -> [at : Steps, token : 0..minted, gate : -1..MaxClock,
                            retry : BOOLEAN, code : Replies]]
    /\ wire \subseteq [nonce : Nonces, token : 1..minted, gate : 0..MaxClock, ts : Int]
    /\ seenNonces \in [Nonces -> Nat]
    /\ served \subseteq Nonces /\ again \subseteq Nonces

-----------------------------------------------------------------------------
(* The server's door.                                                      *)

CurrentWindow == clock \div WINDOW

\* isValidSegment(): this path and the one before it.
IsValidSegment(gate) == gate \in {CurrentWindow, CurrentWindow - 1}

\* rememberNonce()
RememberNonce(nonce) == seenNonces' = [seenNonces EXCEPT ![nonce] = clock + NONCE_TTL]

NonceSeen(nonce) == seenNonces[nonce] > clock

Distance(x, y) == IF x < y THEN y - x ELSE x - y

\* unwrapDynamicPath, softAuth, verifySignature and authRequired, in that order.
Verdict(request) ==
    IF ~IsValidSegment(request.gate) THEN "410"
    ELSE IF request.token \notin alive THEN "guest"
    ELSE IF Distance(clock, request.ts) > MAX_SKEW THEN "late"
    ELSE IF NonceSeen(request.nonce) THEN "replay"
    ELSE "200"

\* The call's answer is whichever comes back first.  What a route answers, an error
\* included, is "200" here: it is all the same to the session.
Answer(nonce, code) ==
    LET c == nonce[1]
    IN  \/ UNCHANGED calls
        \/ /\ calls[c].at = "sent" /\ calls[c].retry = nonce[2]
           /\ calls' = [calls EXCEPT ![c].at = "answer", ![c].code = code]

Arrive(request) ==
    LET verdict == Verdict(request)
    IN  /\ IF verdict = "200"
           THEN /\ RememberNonce(request.nonce)
                /\ served' = served \cup {request.nonce}
                /\ again' = again \cup (served \cap {request.nonce})
                /\ alive' = IF request.nonce[1] \in Logouts THEN alive \ {request.token} ELSE alive
                /\ Answer(request.nonce, "200")
           ELSE /\ UNCHANGED <<seenNonces, served, again, alive>>
                /\ Answer(request.nonce, verdict)
        /\ UNCHANGED <<clock, skew, minted, storage, wire>>

\* GET /api/handshake: not signed, and the path is part of the answer.
Handshake(c) ==
    /\ calls[c].at = "handshake"
    /\ \E code \in IF calls[c].token \in alive THEN {"200", "5xx"} ELSE {"guest"} :
          calls' = [calls EXCEPT ![c].at = "gate", ![c].code = code, ![c].gate = CurrentWindow]
    /\ UNCHANGED <<clock, skew, minted, alive, storage, wire, seenNonces, served, again>>

\* A token expires, is revoked, or its account changes.
Die(token) ==
    /\ token \in alive /\ alive' = alive \ {token}
    /\ UNCHANGED <<clock, skew, minted, browser, wire, seenNonces, served, again>>

\* The nonces are in memory only.
Restart ==
    /\ seenNonces' = [n \in Nonces |-> 0] /\ served' = {}
    /\ UNCHANGED <<clock, skew, minted, alive, browser, wire, again>>

-----------------------------------------------------------------------------
(* The browser.                                                            *)

NoSession == [token |-> 0, gate |-> NoGate]

\* ensureGate(): the stored path is used until it is about to rotate.
Trusted(gate) == gate # NoGate /\ (gate + 1) * WINDOW > clock + skew

Sent(c, call, gate) ==
    /\ wire' = wire \cup {[nonce |-> <<c, call.retry>>, token |-> call.token, gate |-> gate,
                           ts |-> clock + skew]}
    /\ calls' = [calls EXCEPT ![c] = [call EXCEPT !.at = "sent", !.gate = NoGate]]

Asked(c, call) == calls' = [calls EXCEPT ![c] = [call EXCEPT !.at = "handshake"]] /\ UNCHANGED wire

Done(c) == calls' = [calls EXCEPT ![c] = [New EXCEPT !.at = "done"]] /\ UNCHANGED wire

\* doFetch(), up to the first answer it waits for.
Call(c) ==
    /\ calls[c].at = "new" /\ storage.token # 0
    /\ LET call == [New EXCEPT !.token = storage.token]
       IN  \/ Trusted(storage.gate) /\ Sent(c, call, storage.gate)
           \/ ~Trusted(storage.gate) /\ Asked(c, call)
    /\ UNCHANGED <<clock, skew, minted, alive, storage, seenNonces, served, again>>

\* clearSession() on a 401, and at the end of logout() whatever came of it.
Conclude(c, refused) ==
    storage' = IF refused \/ c \in Logouts THEN NoSession ELSE storage

\* The answer to the handshake: the path is stored and used, or the call fails.
Gate(c) ==
    /\ calls[c].at = "gate"
    /\ \/ /\ calls[c].code = "200"
          /\ storage' = [storage EXCEPT !.gate = calls[c].gate]
          /\ Sent(c, calls[c], calls[c].gate)
       \/ /\ calls[c].code # "200"
          /\ Conclude(c, calls[c].code = "guest") /\ Done(c)
    /\ UNCHANGED <<clock, skew, minted, alive, seenNonces, served, again>>

\* The answer to the request; after a 410 the call is made once more, with the
\* token that is stored by then.
Receive(c) ==
    /\ calls[c].at = "answer"
    /\ \/ /\ calls[c].code = "410" /\ ~calls[c].retry /\ storage.token # 0
          /\ storage' = [storage EXCEPT !.gate = NoGate]
          /\ Asked(c, [calls[c] EXCEPT !.token = storage.token, !.retry = TRUE, !.code = "200"])
       \/ /\ calls[c].code # "410" \/ calls[c].retry \/ storage.token = 0
          /\ Conclude(c, calls[c].code \in Refusals) /\ Done(c)
    /\ UNCHANGED <<clock, skew, minted, alive, seenNonces, served, again>>

\* fetch() fails: API_UNREACHABLE.
Unreachable(c) ==
    /\ calls[c].at \in {"handshake", "sent"}
    /\ Conclude(c, FALSE) /\ Done(c)
    /\ UNCHANGED <<clock, skew, minted, alive, seenNonces, served, again>>

\* POST /api/auth/login and setSession(), in this page or another.
Login ==
    /\ minted < MaxTokens /\ minted' = minted + 1 /\ alive' = alive \cup {minted'}
    /\ storage' = [token |-> minted', gate |-> CurrentWindow]
    /\ UNCHANGED <<clock, skew, calls, wire, seenNonces, served, again>>

\* What is late, and whose answer nobody waits for, does nothing when it arrives;
\* a nonce that is not remembered any more is as good as new.
Minutes ==
    /\ clock < MaxClock /\ clock' = clock + 1
    /\ wire' = {r \in wire : calls[r.nonce[1]].at # "done" \/ r.ts + MAX_SKEW >= clock'}
    /\ seenNonces' = [n \in Nonces |-> IF seenNonces[n] > clock' THEN seenNonces[n] ELSE 0]
    /\ UNCHANGED <<skew, minted, alive, browser, served, again>>

ClientInit ==
    /\ clock = 0 /\ skew \in Skews
    /\ minted = 0 /\ alive = {} /\ storage = NoSession
    /\ calls = [c \in Calls |-> New] /\ wire = {}
    /\ seenNonces = [n \in Nonces |-> 0] /\ served = {} /\ again = {}

ClientNext ==
    \/ \E request \in wire : Arrive(request)
    \/ \E c \in Calls : Handshake(c) \/ Call(c) \/ Gate(c) \/ Receive(c) \/ Unreachable(c)
    \/ \E token \in alive : Die(token)
    \/ Restart \/ Login \/ Minutes

ClientSpec == ClientInit /\ [][ClientNext]_clientVars

-----------------------------------------------------------------------------
(***************************************************************************)
(* A signed request is carried out once at most, however often it arrives, *)
(* whatever the clock of the browser says, by a server that is not started *)
(* anew in between: no nonce is forgotten while its time stamp is good.    *)
(***************************************************************************)
CarriedOutOnce == again = {}

(***************************************************************************)
(* "Only an answer from the server can end a session": the browser forgets *)
(* its token only when a user signs out, or on a 401 that was given to a   *)
(* token that is dead, or to a request that came late or twice; so not     *)
(* because the API is away, unwell, or has rotated its path.               *)
(***************************************************************************)
SessionsSurviveOutages ==
    [][storage.token # 0 /\ storage'.token = 0 =>
          \E c \in Calls : /\ calls[c].at # "done" /\ calls'[c].at = "done"
                           /\ \/ c \in Logouts
                              \/ calls[c].code = "guest" /\ calls[c].token \notin alive
                              \/ calls[c].code \in {"late", "replay"}]_clientVars

=============================================================================
