---------------------------- MODULE AccessProofs ----------------------------
(***************************************************************************)
(* What is proved of the modules MCAccess checks on small instances: what  *)
(* proves that a request is genuine, its nonce or its code, works once,    *)
(* and who has signed out stays out, for every number of calls, users,     *)
(* sessions and repetitions, and every clock.                              *)
(***************************************************************************)
EXTENDS Totp, Client, Sessions, TLAPS

-----------------------------------------------------------------------------
(* Client: a signed request is carried out once at most.                   *)

\* A call has sent its first request, or its second.
Used(c, repeated) ==
    \/ calls[c].at = "done"
    \/ calls[c].retry /\ (repeated => calls[c].at \in {"sent", "answer"})
    \/ ~repeated /\ calls[c].at \in {"sent", "answer"}

\* A nonce is on its way, or carried out, only once its call has used it, and it is on
\* its way with one time stamp.
NonceInv ==
    /\ \A r \in wire : Used(r.nonce[1], r.nonce[2])
    /\ \A n \in served : Used(n[1], n[2])
    /\ \A r, s \in wire : r.nonce = s.nonce => r.ts = s.ts

\* As long as a time stamp is good, the nonce of what was carried out is remembered.
RememberedInv ==
    \A r \in wire : r.nonce \in served =>
        clock > r.ts + MAX_SKEW \/ seenNonces[r.nonce] > r.ts + MAX_SKEW

\* A call under way has a token, and one that was told the path has a path.
CallsInv ==
    \A c \in Calls :
        /\ calls[c].at \notin {"new", "done"} => calls[c].token # 0
        /\ calls[c].at = "gate" => calls[c].gate # NoGate
        /\ calls[c].at = "new" => ~calls[c].retry

ClientInv == ClientTypeOK /\ CallsInv /\ NonceInv /\ RememberedInv /\ CarriedOutOnce

ClientAssumption == WindowAssumption /\ ClientBoundsAssumption

\* The window of a time is a time.
LEMMA WindowBounds ==
    ASSUME ClientAssumption, clock \in 0..MaxClock
    PROVE  CurrentWindow \in 0..MaxClock
<1>1. \A n \in Nat, d \in Nat \ {0} : n \div d \in Nat /\ n \div d <= n
  OBVIOUS
<1> QED
  BY <1>1 DEF CurrentWindow, ClientAssumption, WindowAssumption, ClientBoundsAssumption

\* An answer changes at most how far the call is that waits for it.
LEMMA AnswerStep ==
    ASSUME ClientTypeOK, CallsInv, NEW nonce \in Nonces, NEW code \in Replies,
           Answer(nonce, code), minted' = minted
    PROVE  /\ calls' \in [Calls -> [at : Steps, token : 0..minted, gate : -1..MaxClock,
                                    retry : BOOLEAN, code : Replies]]
           /\ CallsInv'
           /\ \A c \in Calls, b \in BOOLEAN : Used(c, b) => Used(c, b)'
<1> DEFINE c == nonce[1]
<1>1. c \in Calls
  BY DEF Nonces
<1>2. CASE UNCHANGED calls
  BY <1>2 DEF ClientTypeOK, CallsInv, Used
<1>3. CASE /\ calls[c].at = "sent"
           /\ calls' = [calls EXCEPT ![c].at = "answer", ![c].code = code]
  <2>1. /\ calls'[c] = [calls[c] EXCEPT !.at = "answer", !.code = code]
        /\ \A d \in Calls \ {c} : calls'[d] = calls[d]
    BY <1>1, <1>3 DEF ClientTypeOK
  <2>2. calls' \in [Calls -> [at : Steps, token : 0..minted, gate : -1..MaxClock,
                              retry : BOOLEAN, code : Replies]]
    BY <1>1, <1>3 DEF ClientTypeOK, Steps
  <2>3. /\ calls'[c].at = "answer" /\ calls'[c].retry = calls[c].retry
        /\ calls'[c].token = calls[c].token
    BY <1>1, <2>1 DEF ClientTypeOK
  <2> QED
    BY <1>3, <2>1, <2>2, <2>3 DEF CallsInv, Used
<1> QED
  BY <1>2, <1>3 DEF Answer

\* A request is carried out with a nonce that is not remembered, or not at all.
LEMMA ArriveStep ==
    ASSUME ClientAssumption, ClientInv, NEW r \in wire, Arrive(r) PROVE ClientInv'
<1> USE DEF ClientInv
<1>1. UNCHANGED <<clock, skew, minted, storage, wire>>
  BY DEF Arrive
<1>2. r.nonce \in Nonces /\ r.ts \in Int /\ clock \in Nat /\ seenNonces \in [Nonces -> Nat]
      /\ MAX_SKEW \in Nat /\ NONCE_TTL \in Nat /\ NONCE_TTL > 2 * MAX_SKEW
  BY DEF ClientTypeOK, ClientAssumption, WindowAssumption
<1>3. \E code \in Replies : Answer(r.nonce, code)
  BY DEF Arrive, Verdict, Replies
<1>4. /\ calls' \in [Calls -> [at : Steps, token : 0..minted, gate : -1..MaxClock,
                               retry : BOOLEAN, code : Replies]]
      /\ CallsInv'
      /\ \A c \in Calls, b \in BOOLEAN : Used(c, b) => Used(c, b)'
  BY <1>1, <1>2, <1>3, AnswerStep
<1>5. CASE Verdict(r) = "200"
  <2>1. /\ seenNonces' = [seenNonces EXCEPT ![r.nonce] = clock + NONCE_TTL]
        /\ served' = served \cup {r.nonce} /\ again' = again \cup (served \cap {r.nonce})
        /\ alive' \subseteq alive
    BY <1>5 DEF Arrive, RememberNonce
  <2>2. Distance(clock, r.ts) <= MAX_SKEW /\ ~NonceSeen(r.nonce)
    BY <1>2, <1>5 DEF Verdict, Distance
  <2>3. clock <= r.ts + MAX_SKEW /\ r.ts <= clock + MAX_SKEW
    BY <1>2, <2>2 DEF Distance
  <2>4. r.nonce \notin served
    BY <1>2, <2>2, <2>3 DEF RememberedInv, NonceSeen
  <2>5. CarriedOutOnce'
    BY <2>1, <2>4 DEF CarriedOutOnce
  <2>6. ClientTypeOK'
    BY <1>1, <1>2, <1>4, <2>1 DEF ClientTypeOK
  <2>7. NonceInv'
    BY <1>1, <1>2, <1>4, <2>1 DEF NonceInv, ClientTypeOK, Nonces
  <2>8. RememberedInv'
    <3>1. ASSUME NEW s \in wire, s.nonce \in served'
          PROVE  clock > s.ts + MAX_SKEW \/ seenNonces'[s.nonce] > s.ts + MAX_SKEW
      <4>1. CASE s.nonce = r.nonce
        <5>1. s.ts = r.ts /\ seenNonces'[s.nonce] = clock + NONCE_TTL
          BY <1>2, <2>1, <4>1 DEF NonceInv
        <5> QED
          BY <1>2, <2>3, <5>1
      <4>2. CASE s.nonce # r.nonce
        <5>1. s.nonce \in served /\ s.nonce \in Nonces
          BY <2>1, <3>1, <4>2 DEF ClientTypeOK
        <5> QED
          BY <1>2, <2>1, <4>2, <5>1 DEF RememberedInv
      <4> QED
        BY <4>1, <4>2
    <3> QED
      BY <1>1, <3>1 DEF RememberedInv
  <2> QED
    BY <1>4, <2>5, <2>6, <2>7, <2>8
<1>6. CASE Verdict(r) # "200"
  <2>1. UNCHANGED <<seenNonces, served, again, alive>>
    BY <1>6 DEF Arrive
  <2>2. ClientTypeOK'
    BY <1>1, <1>4, <2>1 DEF ClientTypeOK
  <2>3. NonceInv'
    BY <1>1, <1>4, <2>1 DEF NonceInv, ClientTypeOK, Nonces
  <2>4. RememberedInv' /\ CarriedOutOnce'
    BY <1>1, <2>1 DEF RememberedInv, CarriedOutOnce
  <2> QED
    BY <1>4, <2>2, <2>3, <2>4
<1> QED
  BY <1>5, <1>6

\* What the browser does with a call c, as far as nonces go: it may send the nonce n, which
\* c has not used before, and no other call is touched.
Moves(c) ==
    /\ \A d \in Calls \ {c} : calls'[d] = calls[d]
    /\ \A b \in BOOLEAN : Used(c, b) => Used(c, b)'
    /\ \/ wire' = wire
       \/ \E r : /\ wire' = wire \cup {r} /\ r.nonce[1] = c /\ r.nonce \in Nonces
                 /\ ~Used(c, r.nonce[2]) /\ Used(c, r.nonce[2])'

\* Then the nonces are still in order.
LEMMA MovesStep ==
    ASSUME ClientInv, NEW c \in Calls, Moves(c), UNCHANGED <<clock, seenNonces, served, again>>
    PROVE  NonceInv' /\ RememberedInv' /\ CarriedOutOnce'
<1> USE DEF ClientInv
<1>1. \A d \in Calls, b \in BOOLEAN : Used(d, b) => Used(d, b)'
  BY DEF Moves, Used
<1>2. /\ \A r \in wire : r.nonce \in Nonces /\ r.nonce[1] \in Calls /\ r.nonce[2] \in BOOLEAN
      /\ \A n \in served : n[1] \in Calls /\ n[2] \in BOOLEAN
  BY DEF ClientTypeOK, Nonces
<1>3. CASE wire' = wire
  BY <1>1, <1>2, <1>3 DEF NonceInv, RememberedInv, CarriedOutOnce
<1>4. CASE wire' # wire
  <2>1. PICK r : /\ wire' = wire \cup {r} /\ r.nonce[1] = c /\ r.nonce \in Nonces
                 /\ ~Used(c, r.nonce[2]) /\ Used(c, r.nonce[2])'
    BY <1>4 DEF Moves
  <2>2. r.nonce \notin served /\ \A s \in wire : s.nonce # r.nonce
    BY <2>1 DEF NonceInv
  <2> QED
    BY <1>1, <1>2, <2>1, <2>2 DEF NonceInv, RememberedInv, CarriedOutOnce
<1> QED
  BY <1>3, <1>4

\* The types of the calls, of which one has changed.
CallRecord == [at : Steps, token : 0..minted, gate : -1..MaxClock, retry : BOOLEAN, code : Replies]

\* One call is somewhere else, with a token if it is under way.
LEMMA CallStep ==
    ASSUME ClientTypeOK, CallsInv, NEW c \in Calls, NEW call \in CallRecord,
           calls' = [calls EXCEPT ![c] = call], minted' = minted,
           call.at \notin {"new", "done"} => call.token # 0,
           call.at = "gate" => call.gate # NoGate, call.at # "new"
    PROVE  /\ calls' \in [Calls -> CallRecord]' /\ CallsInv'
           /\ calls'[c] = call /\ \A d \in Calls \ {c} : calls'[d] = calls[d]
<1>1. calls \in [Calls -> CallRecord]
  BY DEF ClientTypeOK, CallRecord
<1>2. calls'[c] = call /\ \A d \in Calls \ {c} : calls'[d] = calls[d]
  BY <1>1
<1>3. calls' \in [Calls -> CallRecord]'
  BY <1>1 DEF CallRecord
<1> QED
  BY <1>2, <1>3 DEF CallsInv

\* A request that is sent has a nonce the call has not used.
LEMMA SentStep ==
    ASSUME ClientAssumption, ClientInv, NEW c \in Calls, NEW call \in CallRecord,
           NEW gate \in 0..MaxClock,
           calls[c].at \in {"new", "gate"}, call.retry = calls[c].retry,
           call.token # 0, Sent(c, call, gate),
           UNCHANGED <<clock, skew, minted, alive, seenNonces, served, again>>,
           storage' \in [token : 0..minted, gate : -1..MaxClock]
    PROVE  ClientInv'
<1> DEFINE next == [call EXCEPT !.at = "sent", !.gate = NoGate]
<1> USE DEF ClientInv
<1>1. PICK r : r = [nonce |-> <<c, call.retry>>, token |-> call.token, gate |-> gate,
                    ts |-> clock + skew]
  OBVIOUS
<1>2. wire' = wire \cup {r} /\ calls' = [calls EXCEPT ![c] = next]
  BY <1>1 DEF Sent
<1>3. /\ next \in CallRecord /\ next.at = "sent" /\ next.token = call.token
      /\ next.retry = call.retry
  <2>1. NoGate \in -1..MaxClock /\ "sent" \in Steps
    BY DEF NoGate, Steps, ClientAssumption, ClientBoundsAssumption
  <2> QED
    BY <2>1 DEF CallRecord
<1>4. /\ r \in [nonce : Nonces, token : 1..minted, gate : 0..MaxClock, ts : Int]
      /\ r.nonce \in Nonces /\ r.nonce[1] = c /\ r.nonce[2] = call.retry
  <2>1. call.token \in 1..minted /\ call.retry \in BOOLEAN /\ clock + skew \in Int
    BY DEF CallRecord, ClientTypeOK, ClientAssumption, ClientBoundsAssumption
  <2> QED
    BY <1>1, <2>1 DEF Nonces
<1> HIDE DEF next
<1>5. /\ calls' \in [Calls -> CallRecord]' /\ CallsInv'
      /\ calls'[c] = next /\ \A d \in Calls \ {c} : calls'[d] = calls[d]
  BY <1>2, <1>3, CallStep
<1>6. Moves(c)
  <2>1. \A b \in BOOLEAN : Used(c, b) => Used(c, b)'
    BY <1>3, <1>5 DEF Used
  <2>2. ~Used(c, r.nonce[2]) /\ Used(c, r.nonce[2])'
    <3>1. CASE call.retry
      BY <1>3, <1>4, <1>5, <3>1 DEF Used
    <3>2. CASE ~call.retry
      <4>1. r.nonce[2] = FALSE
        BY <1>4, <3>2 DEF CallRecord
      <4>2. ~Used(c, FALSE) /\ Used(c, FALSE)'
        BY <1>3, <1>5, <3>2 DEF Used
      <4> HIDE DEF Used
      <4> QED
        BY <4>1, <4>2
    <3> QED
      BY <3>1, <3>2
  <2>3. /\ wire' = wire \cup {r} /\ r.nonce[1] = c /\ r.nonce \in Nonces
        /\ ~Used(c, r.nonce[2]) /\ Used(c, r.nonce[2])'
    BY <1>2, <1>4, <2>2
  <2> HIDE DEF Used
  <2> QED
    BY <1>5, <2>1, <2>3 DEF Moves
<1>7. ClientTypeOK'
  BY <1>2, <1>4, <1>5 DEF ClientTypeOK, CallRecord
<1> QED
  BY <1>5, <1>6, <1>7, MovesStep

\* A call that asks for the path, or is done with, sends nothing.
LEMMA RestsStep ==
    ASSUME ClientAssumption, ClientInv, NEW c \in Calls, NEW call \in CallRecord,
           calls' = [calls EXCEPT ![c] = call], wire' = wire,
           call.at \in {"handshake", "gate"} => call.token # 0,
           call.at \in {"handshake", "gate", "done"},
           call.at = "gate" => call.gate # NoGate,
           \A b \in BOOLEAN : call.at # "done" /\ Used(c, b) => call.retry /\ ~b,
           UNCHANGED <<clock, skew, minted, alive, seenNonces, served, again>>,
           storage' \in [token : 0..minted, gate : -1..MaxClock]
    PROVE  ClientInv'
<1> USE DEF ClientInv
<1>1. /\ calls' \in [Calls -> CallRecord]' /\ CallsInv'
      /\ calls'[c] = call /\ \A d \in Calls \ {c} : calls'[d] = calls[d]
  BY CallStep
<1>2. Moves(c)
  BY <1>1 DEF Moves, Used
<1>3. ClientTypeOK'
  BY <1>1 DEF ClientTypeOK, CallRecord
<1> QED
  BY <1>1, <1>2, <1>3, MovesStep

\* A call that is done with has nothing left to send.
LEMMA DoneStep ==
    ASSUME ClientAssumption, ClientInv, NEW c \in Calls, Done(c),
           UNCHANGED <<clock, skew, minted, alive, seenNonces, served, again>>,
           storage' \in [token : 0..minted, gate : -1..MaxClock]
    PROVE  ClientInv'
<1> DEFINE call == [New EXCEPT !.at = "done"]
<1>1. call \in CallRecord /\ call.at = "done"
  <2>1. NoGate \in -1..MaxClock /\ "done" \in Steps /\ "200" \in Replies /\ 0 \in 0..minted
    BY DEF NoGate, Steps, Replies, ClientInv, ClientTypeOK, ClientAssumption,
           ClientBoundsAssumption
  <2> QED
    BY <2>1 DEF New, CallRecord
<1>2. calls' = [calls EXCEPT ![c] = call] /\ wire' = wire
  BY DEF Done
<1> HIDE DEF call
<1> QED
  BY <1>1, <1>2, RestsStep

\* A call begins: with the path that is stored, or by asking for it.
LEMMA BeginStep ==
    ASSUME ClientAssumption, ClientInv, NEW c \in Calls, Call(c) PROVE ClientInv'
<1> DEFINE call == [New EXCEPT !.token = storage.token]
<1> USE DEF ClientInv
<1>1. /\ calls[c].at = "new" /\ calls[c].retry = FALSE /\ storage.token # 0
      /\ UNCHANGED <<clock, skew, minted, alive, storage, seenNonces, served, again>>
      /\ storage' \in [token : 0..minted, gate : -1..MaxClock]
  BY DEF Call, ClientTypeOK, CallsInv
<1>2. /\ call \in CallRecord /\ call.token = storage.token /\ call.retry = FALSE
      /\ [call EXCEPT !.at = "handshake"] \in CallRecord
  <2>1. NoGate \in -1..MaxClock /\ {"new", "handshake"} \subseteq Steps /\ "200" \in Replies
    BY DEF NoGate, Steps, Replies, ClientAssumption, ClientBoundsAssumption
  <2> QED
    BY <2>1 DEF New, CallRecord, ClientTypeOK
<1> HIDE DEF call
<1>3. CASE Trusted(storage.gate) /\ Sent(c, call, storage.gate)
  <2>1. storage.gate \in 0..MaxClock
    BY <1>3 DEF Trusted, NoGate, ClientTypeOK, ClientAssumption, ClientBoundsAssumption
  <2> QED
    BY <1>1, <1>2, <1>3, <2>1, SentStep
<1>4. CASE Asked(c, call)
  <2> DEFINE next == [call EXCEPT !.at = "handshake"]
  <2>1. /\ next \in CallRecord /\ next.token # 0 /\ next.at = "handshake" /\ next.retry = FALSE
        /\ calls' = [calls EXCEPT ![c] = next] /\ wire' = wire
    BY <1>1, <1>2, <1>4 DEF Asked, CallRecord
  <2> HIDE DEF next
  <2>2. \A b \in BOOLEAN : ~Used(c, b)
    BY <1>1 DEF Used
  <2> QED
    BY <1>1, <2>1, <2>2, RestsStep
<1> QED
  BY <1>3, <1>4 DEF Call, call

\* The path is told.
LEMMA HandshakeStep ==
    ASSUME ClientAssumption, ClientInv, NEW c \in Calls, Handshake(c) PROVE ClientInv'
<1> USE DEF ClientInv
<1>1. /\ calls[c].at = "handshake" /\ calls[c] \in CallRecord /\ calls[c].token # 0
      /\ UNCHANGED <<clock, skew, minted, alive, storage, wire, seenNonces, served, again>>
      /\ storage' \in [token : 0..minted, gate : -1..MaxClock]
  BY DEF Handshake, ClientTypeOK, CallsInv, CallRecord
<1>2. PICK code \in Replies :
          calls' = [calls EXCEPT ![c].at = "gate", ![c].code = code, ![c].gate = CurrentWindow]
  BY DEF Handshake, Replies
<1>3. PICK next : next = [calls[c] EXCEPT !.at = "gate", !.code = code, !.gate = CurrentWindow]
  OBVIOUS
<1>4. calls' = [calls EXCEPT ![c] = next]
  BY <1>2, <1>3 DEF ClientTypeOK
<1>5. CurrentWindow \in 0..MaxClock
  BY WindowBounds DEF ClientTypeOK
<1>6. /\ next \in CallRecord /\ next.at = "gate" /\ next.token # 0 /\ next.gate # NoGate
      /\ next.retry = calls[c].retry
  <2>1. CurrentWindow \in -1..MaxClock /\ CurrentWindow # NoGate /\ "gate" \in Steps
    BY <1>5 DEF NoGate, Steps, ClientAssumption, ClientBoundsAssumption
  <2> QED
    BY <1>1, <1>3, <2>1 DEF CallRecord
<1>7. \A b \in BOOLEAN : Used(c, b) => next.retry /\ ~b
  BY <1>1, <1>6 DEF Used
<1> QED
  BY <1>1, <1>4, <1>6, <1>7, RestsStep

\* The path is stored and used, or the call fails.
LEMMA GateStep ==
    ASSUME ClientAssumption, ClientInv, NEW c \in Calls, Gate(c) PROVE ClientInv'
<1> USE DEF ClientInv
<1>1. /\ calls[c].at = "gate" /\ calls[c] \in CallRecord /\ calls[c].token # 0
      /\ calls[c].gate \in 0..MaxClock
      /\ UNCHANGED <<clock, skew, minted, alive, seenNonces, served, again>>
  BY DEF Gate, ClientTypeOK, CallsInv, CallRecord, NoGate, ClientAssumption,
         ClientBoundsAssumption
<1>2. CASE /\ storage' = [storage EXCEPT !.gate = calls[c].gate]
           /\ Sent(c, calls[c], calls[c].gate)
  <2>1. storage' \in [token : 0..minted, gate : -1..MaxClock]
    BY <1>1, <1>2 DEF ClientTypeOK, ClientAssumption, ClientBoundsAssumption
  <2>2. PICK call : call = calls[c]
    OBVIOUS
  <2>3. PICK gate : gate = calls[c].gate
    OBVIOUS
  <2>4. Sent(c, call, gate)
    BY <1>2, <2>2, <2>3
  <2> QED
    BY <1>1, <2>1, <2>2, <2>3, <2>4, SentStep
<1>3. CASE Conclude(c, calls[c].code = "guest") /\ Done(c)
  <2>1. storage' \in [token : 0..minted, gate : -1..MaxClock]
    BY <1>3 DEF Conclude, NoSession, NoGate, ClientTypeOK, ClientAssumption,
                ClientBoundsAssumption
  <2> QED
    BY <1>1, <1>3, <2>1, DoneStep
<1> QED
  BY <1>2, <1>3 DEF Gate

\* The answer is taken: once more, or for good.
LEMMA ReceiveStep ==
    ASSUME ClientAssumption, ClientInv, NEW c \in Calls, Receive(c) PROVE ClientInv'
<1> USE DEF ClientInv
<1>1. /\ calls[c].at = "answer" /\ calls[c] \in CallRecord /\ storage.token \in 0..minted
      /\ UNCHANGED <<clock, skew, minted, alive, seenNonces, served, again>>
  BY DEF Receive, ClientTypeOK, CallRecord
<1>2. CASE /\ ~calls[c].retry /\ storage.token # 0 /\ storage' = [storage EXCEPT !.gate = NoGate]
           /\ Asked(c, [calls[c] EXCEPT !.token = storage.token, !.retry = TRUE, !.code = "200"])
  <2>1. storage' \in [token : 0..minted, gate : -1..MaxClock]
    BY <1>2 DEF ClientTypeOK, NoGate, ClientAssumption, ClientBoundsAssumption
  <2>2. PICK next : next = [calls[c] EXCEPT !.token = storage.token, !.retry = TRUE,
                                            !.code = "200", !.at = "handshake"]
    OBVIOUS
  <2>3. calls' = [calls EXCEPT ![c] = next] /\ wire' = wire
    BY <1>1, <1>2, <2>2 DEF Asked, CallRecord
  <2>4. /\ next \in CallRecord /\ next.at = "handshake" /\ next.token # 0 /\ next.retry = TRUE
    BY <1>1, <1>2, <2>2 DEF CallRecord, Steps, Replies
  <2>5. \A b \in BOOLEAN : Used(c, b) => ~b
    BY <1>1, <1>2 DEF Used
  <2> QED
    BY <1>1, <2>1, <2>3, <2>4, <2>5, RestsStep
<1>3. CASE Conclude(c, calls[c].code \in Refusals) /\ Done(c)
  <2>1. storage' \in [token : 0..minted, gate : -1..MaxClock]
    BY <1>3 DEF Conclude, NoSession, NoGate, ClientTypeOK, ClientAssumption,
                ClientBoundsAssumption
  <2> QED
    BY <1>1, <1>3, <2>1, DoneStep
<1> QED
  BY <1>2, <1>3 DEF Receive

\* The network fails.
LEMMA UnreachableStep ==
    ASSUME ClientAssumption, ClientInv, NEW c \in Calls, Unreachable(c) PROVE ClientInv'
<1>1. /\ Done(c) /\ UNCHANGED <<clock, skew, minted, alive, seenNonces, served, again>>
      /\ storage' \in [token : 0..minted, gate : -1..MaxClock]
  BY DEF Unreachable, Conclude, NoSession, NoGate, ClientInv, ClientTypeOK, ClientAssumption,
         ClientBoundsAssumption
<1> QED
  BY <1>1, DoneStep

\* A new session touches no nonce.
LEMMA LoginStep ==
    ASSUME ClientAssumption, ClientInv, Login PROVE ClientInv'
<1> USE DEF ClientInv
<1>1. /\ minted' = minted + 1 /\ minted' \in 0..MaxTokens /\ minted \in Nat
      /\ alive' = alive \cup {minted'}
      /\ storage' = [token |-> minted', gate |-> CurrentWindow]
      /\ UNCHANGED <<clock, skew, calls, wire, seenNonces, served, again>>
  BY DEF Login, ClientTypeOK, ClientAssumption, ClientBoundsAssumption
<1>2. CurrentWindow \in 0..MaxClock
  BY WindowBounds DEF ClientTypeOK
<1>3. storage' \in [token : 0..minted', gate : -1..MaxClock]
  BY <1>1, <1>2 DEF ClientAssumption, ClientBoundsAssumption
<1>4. 0..minted \subseteq 0..minted' /\ 1..minted \subseteq 1..minted'
  BY <1>1
<1>5. calls' \in [Calls -> [at : Steps, token : 0..minted', gate : -1..MaxClock,
                            retry : BOOLEAN, code : Replies]]
  BY <1>1, <1>4 DEF ClientTypeOK
<1>6. wire' \subseteq [nonce : Nonces, token : 1..minted', gate : 0..MaxClock, ts : Int]
  BY <1>1, <1>4 DEF ClientTypeOK
<1>7. ClientTypeOK'
  BY <1>1, <1>3, <1>4, <1>5, <1>6 DEF ClientTypeOK
<1> QED
  BY <1>1, <1>7 DEF CallsInv, NonceInv, Used, RememberedInv, CarriedOutOnce

\* A nonce is forgotten only when the time stamp it came with is past.
LEMMA MinutesStep ==
    ASSUME ClientAssumption, ClientInv, Minutes PROVE ClientInv'
<1> USE DEF ClientInv
<1>1. /\ clock' = clock + 1 /\ clock' \in 0..MaxClock /\ clock \in Nat /\ wire' \subseteq wire
      /\ seenNonces' = [n \in Nonces |-> IF seenNonces[n] > clock' THEN seenNonces[n] ELSE 0]
      /\ UNCHANGED <<skew, minted, alive, storage, calls, served, again>>
      /\ MAX_SKEW \in Nat
  BY DEF Minutes, browser, ClientTypeOK, ClientAssumption, WindowAssumption,
         ClientBoundsAssumption
<1>2. ClientTypeOK'
  BY <1>1 DEF ClientTypeOK
<1>3. CallsInv' /\ NonceInv' /\ CarriedOutOnce'
  BY <1>1 DEF CallsInv, NonceInv, Used, CarriedOutOnce
<1>4. RememberedInv'
  <2>1. \A r \in wire : r.nonce \in Nonces /\ r.ts \in Int /\ seenNonces[r.nonce] \in Nat
    BY DEF ClientTypeOK
  <2> QED
    BY <1>1, <2>1 DEF RememberedInv
<1> QED
  BY <1>2, <1>3, <1>4

\* Every step of browser, network and server keeps the invariant.
LEMMA ClientStep ==
    ASSUME ClientAssumption, ClientInv, [ClientNext]_clientVars PROVE ClientInv'
<1>1. ASSUME NEW token \in alive, Die(token) PROVE ClientInv'
  BY <1>1 DEF Die, browser, ClientInv, ClientTypeOK, CallsInv, NonceInv, Used, RememberedInv,
              CarriedOutOnce
<1>2. ASSUME Restart PROVE ClientInv'
  BY <1>2 DEF Restart, browser, ClientInv, ClientTypeOK, CallsInv, NonceInv, Used,
              RememberedInv, CarriedOutOnce
<1>3. ASSUME UNCHANGED clientVars PROVE ClientInv'
  BY <1>3 DEF clientVars, browser, ClientInv, ClientTypeOK, CallsInv, NonceInv, Used,
              RememberedInv, CarriedOutOnce
<1> QED
  BY <1>1, <1>2, <1>3, ArriveStep, HandshakeStep, BeginStep, GateStep, ReceiveStep,
     UnreachableStep, LoginStep, MinutesStep DEF ClientNext

\* The invariant holds before anybody has logged in.
LEMMA ClientStart ==
    ASSUME ClientAssumption, ClientInit PROVE ClientInv
<1>1. /\ NoGate \in -1..MaxClock /\ "new" \in Steps /\ "200" \in Replies /\ MaxTokens \in Nat
      /\ MaxClock \in Nat
  BY DEF NoGate, Steps, Replies, ClientAssumption, ClientBoundsAssumption
<1>2. ClientTypeOK
  BY <1>1 DEF ClientInit, ClientTypeOK, New, NoSession
<1> QED
  BY <1>2 DEF ClientInit, New, ClientInv, CallsInv, NonceInv, RememberedInv, CarriedOutOnce

(***************************************************************************)
(* A signed request is carried out once at most by a server that is not    *)
(* started anew in between, whatever the network repeats and the clock of  *)
(* the browser says: signing.js remembers a nonce for longer than its time *)
(* stamp is accepted, and api.js signs every request with another one.     *)
(***************************************************************************)
THEOREM RequestsWorkOnce ==
    ASSUME ClientAssumption
    PROVE  ClientSpec => [](ClientTypeOK /\ CarriedOutOnce)
<1>1. ClientInit => ClientInv
  BY ClientStart
<1>2. ClientInv /\ [ClientNext]_clientVars => ClientInv'
  BY ClientStep
<1>3. ClientInv => ClientTypeOK /\ CarriedOutOnce
  BY DEF ClientInv
<1> QED
  BY <1>1, <1>2, <1>3, PTL DEF ClientSpec

\* Who was told to be a guest carries a dead token, and a call awaits the answer to the token
\* it was sent with.
GuestsInv ==
    \A c \in Calls : calls[c].at \in {"gate", "answer"} /\ calls[c].code = "guest" =>
        calls[c].token \notin alive
SentInv ==
    \A r \in wire : calls[r.nonce[1]].at = "sent" /\ calls[r.nonce[1]].retry = r.nonce[2] =>
        r.token = calls[r.nonce[1]].token

\* A request on its way is one of a call's.
LEMMA WireTypes ==
    ASSUME ClientTypeOK, NEW r \in wire
    PROVE  r.nonce \in Nonces /\ r.nonce[1] \in Calls /\ r.token \in 1..minted
BY DEF ClientTypeOK, Nonces

\* Tokens only die, and a new one is nobody's yet.
LEMMA StaysDead ==
    ASSUME ClientTypeOK, GuestsInv, SentInv, alive' \cap (0..minted) \subseteq alive,
           calls' = calls, wire' \subseteq wire
    PROVE  GuestsInv' /\ SentInv'
<1>1. \A c \in Calls : calls[c].token \in 0..minted
  BY DEF ClientTypeOK
<1>2. GuestsInv'
  BY <1>1 DEF GuestsInv
<1>3. SentInv'
  BY DEF SentInv
<1> QED
  BY <1>2, <1>3

\* A call that goes on and waits for nothing it has sent.
LEMMA GoesOnDead ==
    ASSUME ClientTypeOK, GuestsInv, SentInv, alive' \subseteq alive, wire' = wire,
           NEW c \in Calls, NEW call, calls' = [calls EXCEPT ![c] = call], call.at # "sent",
           call.at \in {"gate", "answer"} /\ call.code = "guest" => call.token \notin alive'
    PROVE  GuestsInv' /\ SentInv'
<1>1. calls'[c] = call /\ \A d \in Calls \ {c} : calls'[d] = calls[d]
  BY DEF ClientTypeOK
<1>2. GuestsInv'
  BY <1>1 DEF GuestsInv
<1>3. SentInv'
  <2> SUFFICES ASSUME NEW r \in wire, calls'[r.nonce[1]].at = "sent",
                      calls'[r.nonce[1]].retry = r.nonce[2]
               PROVE  r.token = calls'[r.nonce[1]].token
    BY DEF SentInv
  <2>1. r.nonce[1] \in Calls \ {c}
    BY <1>1, WireTypes
  <2> QED
    BY <1>1, <2>1 DEF SentInv
<1> QED
  BY <1>2, <1>3

\* A call that is sent has sent nothing with that nonce before.
LEMMA SentOnceEach ==
    ASSUME ClientInv, GuestsInv, SentInv, alive' = alive, NEW c \in Calls,
           NEW call \in CallRecord, NEW gate, calls[c].at \in {"new", "gate"},
           call.retry = calls[c].retry, Sent(c, call, gate)
    PROVE  GuestsInv' /\ SentInv'
<1> DEFINE next == [call EXCEPT !.at = "sent", !.gate = NoGate]
<1>1. PICK r : r = [nonce |-> <<c, call.retry>>, token |-> call.token, gate |-> gate,
                    ts |-> clock + skew]
  OBVIOUS
<1>2. wire' = wire \cup {r} /\ calls' = [calls EXCEPT ![c] = next]
  BY <1>1 DEF Sent
<1>3. next.at = "sent" /\ next.token = call.token /\ next.retry = call.retry
  BY DEF CallRecord
<1>4. r.token = call.token /\ r.nonce[1] = c
  BY <1>1
<1> HIDE DEF next
<1>5. calls'[c] = next /\ \A d \in Calls \ {c} : calls'[d] = calls[d]
  BY <1>2 DEF ClientInv, ClientTypeOK
<1>6. GuestsInv'
  BY <1>3, <1>5 DEF GuestsInv
<1>7. \A s \in wire : s.nonce[1] = c => s.nonce[2] # call.retry
  <2> SUFFICES ASSUME NEW s \in wire, s.nonce[1] = c, s.nonce[2] = call.retry
               PROVE  FALSE
    OBVIOUS
  <2>1. Used(c, call.retry)
    BY DEF ClientInv, NonceInv
  <2> QED
    BY <2>1 DEF Used
<1>8. SentInv'
  <2> SUFFICES ASSUME NEW s \in wire', calls'[s.nonce[1]].at = "sent",
                      calls'[s.nonce[1]].retry = s.nonce[2]
               PROVE  s.token = calls'[s.nonce[1]].token
    BY DEF SentInv
  <2>1. CASE s = r
    BY <1>3, <1>4, <1>5, <2>1
  <2>2. CASE s # r
    <3>1. s \in wire /\ s.nonce[1] # c
      BY <1>2, <1>3, <1>5, <1>7, <2>2
    <3>2. s.nonce[1] \in Calls \ {c}
      BY <3>1, WireTypes DEF ClientInv
    <3> QED
      BY <1>5, <3>1, <3>2 DEF SentInv
  <2> QED
    BY <2>1, <2>2
<1> QED
  BY <1>6, <1>8

\* The verdict on a request is for the token it carries.
LEMMA ToldDead ==
    ASSUME ClientInv, GuestsInv, SentInv, NEW r \in wire, Arrive(r)
    PROVE  GuestsInv' /\ SentInv'
<1> USE DEF ClientInv
<1>1. r.nonce \in Nonces /\ r.nonce[1] \in Calls /\ alive' \subseteq alive /\ wire' = wire
  BY WireTypes DEF Arrive
<1>2. CASE UNCHANGED calls
  BY <1>1, <1>2, StaysDead
<1>3. CASE calls' # calls
  <2> DEFINE c == r.nonce[1]
             call == [calls[c] EXCEPT !.at = "answer", !.code = Verdict(r)]
  <2>1. calls[c].at = "sent" /\ calls[c].retry = r.nonce[2]
        /\ calls' = [calls EXCEPT ![c].at = "answer", ![c].code = Verdict(r)]
    BY <1>3 DEF Arrive, Answer
  <2>2. calls' = [calls EXCEPT ![c] = call]
    BY <1>1, <2>1 DEF ClientTypeOK
  <2>3. call.at = "answer" /\ call.code = Verdict(r) /\ call.token = calls[c].token
    BY <1>1 DEF ClientTypeOK
  <2>4. r.token = calls[c].token
    BY <2>1 DEF SentInv
  <2>5. Verdict(r) = "guest" => r.token \notin alive
    BY DEF Verdict
  <2> HIDE DEF call
  <2> QED
    BY <1>1, <2>2, <2>3, <2>4, <2>5, GoesOnDead
<1> QED
  BY <1>2, <1>3

LEMMA GuestsStep ==
    ASSUME ClientAssumption, ClientInv, GuestsInv, SentInv, [ClientNext]_clientVars
    PROVE  GuestsInv' /\ SentInv'
<1> USE DEF ClientInv
<1>0. calls \in [Calls -> CallRecord] /\ minted \in Nat /\ NoGate \in -1..MaxClock
      /\ "handshake" \in Steps /\ "new" \in Steps /\ "200" \in Replies
  BY DEF ClientTypeOK, CallRecord, NoGate, Steps, Replies, ClientAssumption,
         ClientBoundsAssumption
<1>1. ASSUME NEW c \in Calls, Handshake(c)
      PROVE  GuestsInv' /\ SentInv'
  <2>1. PICK code \in IF calls[c].token \in alive THEN {"200", "5xx"} ELSE {"guest"} :
            calls' = [calls EXCEPT ![c].at = "gate", ![c].code = code,
                                   ![c].gate = CurrentWindow]
    BY <1>1 DEF Handshake
  <2> DEFINE call == [calls[c] EXCEPT !.at = "gate", !.code = code, !.gate = CurrentWindow]
  <2>2. calls' = [calls EXCEPT ![c] = call]
    BY <1>0, <2>1
  <2>3. call.at = "gate" /\ call.code = code /\ call.token = calls[c].token
    BY <1>0 DEF CallRecord
  <2>4. code = "guest" => calls[c].token \notin alive
    BY <2>1
  <2>5. alive' = alive /\ wire' = wire
    BY <1>1 DEF Handshake
  <2> HIDE DEF call
  <2> QED
    BY <2>2, <2>3, <2>4, <2>5, GoesOnDead
<1>2. ASSUME NEW c \in Calls, Done(c), alive' = alive
      PROVE  GuestsInv' /\ SentInv'
  <2> DEFINE call == [New EXCEPT !.at = "done"]
  <2>1. calls' = [calls EXCEPT ![c] = call] /\ wire' = wire /\ call.at = "done"
    BY <1>2 DEF Done, New
  <2> HIDE DEF call
  <2> QED
    BY <1>2, <2>1, GoesOnDead
<1>3. ASSUME NEW c \in Calls, NEW old \in CallRecord, Asked(c, old), alive' = alive
      PROVE  GuestsInv' /\ SentInv'
  <2> DEFINE call == [old EXCEPT !.at = "handshake"]
  <2>1. calls' = [calls EXCEPT ![c] = call] /\ wire' = wire /\ call.at = "handshake"
    BY <1>3 DEF Asked, CallRecord
  <2> HIDE DEF call
  <2> QED
    BY <1>3, <2>1, GoesOnDead
<1>4. ASSUME NEW c \in Calls, Call(c)
      PROVE  GuestsInv' /\ SentInv'
  <2> DEFINE call == [New EXCEPT !.token = storage.token]
  <2>1. call \in CallRecord /\ call.retry = FALSE
    BY <1>0 DEF New, CallRecord, ClientTypeOK
  <2>2. calls[c].at = "new" /\ calls[c].retry = FALSE /\ alive' = alive
    BY <1>0, <1>4 DEF Call, CallsInv, CallRecord
  <2>3. Sent(c, call, storage.gate) \/ Asked(c, call)
    BY <1>4 DEF Call
  <2> HIDE DEF call
  <2>4. CASE Sent(c, call, storage.gate)
    <3>1. call.retry = calls[c].retry /\ calls[c].at \in {"new", "gate"}
      BY <2>1, <2>2
    <3> QED
      BY <2>1, <2>2, <2>4, <3>1, SentOnceEach
  <2>5. CASE Asked(c, call)
    BY <1>3, <2>1, <2>2, <2>5
  <2> QED
    BY <2>3, <2>4, <2>5
<1>5. ASSUME NEW c \in Calls, Gate(c)
      PROVE  GuestsInv' /\ SentInv'
  <2>1. calls[c].at = "gate" /\ alive' = alive /\ (Sent(c, calls[c], calls[c].gate) \/ Done(c))
    BY <1>5 DEF Gate
  <2>2. calls[c] \in CallRecord
    BY <1>0
  <2> QED
    BY <1>2, <2>1, <2>2, SentOnceEach
<1>6. ASSUME NEW c \in Calls, Receive(c)
      PROVE  GuestsInv' /\ SentInv'
  <2> DEFINE old == [calls[c] EXCEPT !.token = storage.token, !.retry = TRUE, !.code = "200"]
  <2>1. old \in CallRecord
    BY <1>0 DEF CallRecord, ClientTypeOK
  <2>2. alive' = alive /\ (Asked(c, old) \/ Done(c))
    BY <1>6 DEF Receive
  <2> HIDE DEF old
  <2> QED
    BY <1>2, <1>3, <2>1, <2>2
<1>7. ASSUME NEW c \in Calls, Unreachable(c)
      PROVE  GuestsInv' /\ SentInv'
  BY <1>2, <1>7 DEF Unreachable
<1>8. CASE Login
  <2>1. alive' = alive \cup {minted + 1} /\ calls' = calls /\ wire' = wire
    BY <1>8 DEF Login
  <2>2. minted + 1 \notin 0..minted
    BY <1>0
  <2>3. alive' \cap (0..minted) \subseteq alive
    BY <2>1, <2>2
  <2> QED
    BY <2>1, <2>3, StaysDead
<1>9. CASE Restart \/ Minutes \/ UNCHANGED clientVars \/ \E token \in alive : Die(token)
  <2>1. alive' \subseteq alive /\ calls' = calls /\ wire' \subseteq wire
    BY <1>9 DEF Restart, Minutes, clientVars, browser, Die
  <2> QED
    BY <2>1, StaysDead
<1> QED
  BY <1>1, <1>4, <1>5, <1>6, <1>7, <1>8, <1>9, ToldDead DEF ClientNext

\* What ends the session in the browser.
Ends(c) ==
    /\ calls[c].at # "done" /\ calls'[c].at = "done"
    /\ \/ c \in Logouts
       \/ calls[c].code = "guest" /\ calls[c].token \notin alive
       \/ calls[c].code \in {"late", "replay"}

LEMMA SessionEnds ==
    ASSUME ClientAssumption, ClientInv, GuestsInv, ClientNext,
           storage.token # 0, storage'.token = 0
    PROVE  \E c \in Calls : Ends(c)
<1> USE DEF ClientInv
<1>1. storage \in [token : 0..minted, gate : -1..MaxClock] /\ minted \in Nat
      /\ calls \in [Calls -> CallRecord]
  BY DEF ClientTypeOK, CallRecord
<1>2. storage' # storage
  OBVIOUS
<1>3. ASSUME NEW c \in Calls, Done(c)
      PROVE  calls'[c].at = "done"
  BY <1>1, <1>3 DEF Done, New
<1>4. ASSUME NEW c \in Calls, Gate(c)
      PROVE  Ends(c)
  <2>1. calls[c].at = "gate" /\ calls[c].code # "200"
    BY <1>1, <1>4 DEF Gate
  <2>2. Done(c) /\ (calls[c].code = "guest" \/ c \in Logouts)
    BY <1>2, <1>4, <2>1 DEF Gate, Conclude
  <2> QED
    BY <1>3, <2>1, <2>2 DEF Ends, GuestsInv
<1>5. ASSUME NEW c \in Calls, Receive(c)
      PROVE  Ends(c)
  <2>1. calls[c].at = "answer"
    BY <1>5 DEF Receive
  <2>2. Done(c) /\ (calls[c].code \in Refusals \/ c \in Logouts)
    BY <1>1, <1>2, <1>5 DEF Receive, Conclude
  <2> QED
    BY <1>3, <2>1, <2>2 DEF Ends, GuestsInv, Refusals
<1>6. ASSUME NEW c \in Calls, Unreachable(c)
      PROVE  Ends(c)
  <2>1. calls[c].at # "done" /\ Done(c) /\ c \in Logouts
    BY <1>2, <1>6 DEF Unreachable, Conclude
  <2> QED
    BY <1>3, <2>1 DEF Ends
<1>7. ASSUME NEW c \in Calls
      PROVE  ~Handshake(c) /\ ~Call(c)
  BY <1>2 DEF Handshake, Call
<1>8. ~Restart /\ ~Minutes /\ \A token \in alive : ~Die(token)
  BY <1>2 DEF Restart, Minutes, Die, browser
<1>9. ~Login
  BY <1>1 DEF Login
<1>10. \A r \in wire : ~Arrive(r)
  BY <1>2 DEF Arrive
<1> QED
  BY <1>4, <1>5, <1>6, <1>7, <1>8, <1>9, <1>10 DEF ClientNext

(***************************************************************************)
(* "Only an answer from the server can end a session" (api.js): the        *)
(* browser forgets its token when a user signs out or on a 401, which was  *)
(* given to a dead token or to a request that came late or twice; so not   *)
(* because the API is away, unwell or under another path.                  *)
(***************************************************************************)
THEOREM OutagesEndNoSession ==
    ASSUME ClientAssumption
    PROVE  ClientSpec => SessionsSurviveOutages
<1>1. ClientInit => ClientInv /\ GuestsInv /\ SentInv
  <2>1. ClientInit => GuestsInv /\ SentInv
    BY DEF ClientInit, New, GuestsInv, SentInv
  <2> QED
    BY <2>1, ClientStart
<1>2. ClientInv /\ GuestsInv /\ SentInv /\ [ClientNext]_clientVars =>
        (ClientInv /\ GuestsInv /\ SentInv)'
  BY ClientStep, GuestsStep
<1>3. ClientInv /\ GuestsInv /\ [ClientNext]_clientVars =>
        [storage.token # 0 /\ storage'.token = 0 => \E c \in Calls : Ends(c)]_clientVars
  BY SessionEnds
<1>4. ClientSpec => [][storage.token # 0 /\ storage'.token = 0 =>
                           \E c \in Calls : Ends(c)]_clientVars
  BY <1>1, <1>2, <1>3, PTL DEF ClientSpec
<1> QED
  BY <1>4 DEF SessionsSurviveOutages, Ends

-----------------------------------------------------------------------------
(* Totp: a code works once.                                                *)

\* What was numbered before some time.
OldEntry(entry, n) ==
    /\ entry.secret <= n
    /\ \A code \in entry.recovery : code.set <= n

OldCode(code, n) ==
    /\ code \in StepCode => code.secret <= n
    /\ code \in RecoveryCode => code.set <= n

\* Numbers are given as they come: to the row, to what was read of it, to what has worked.
FreshInv ==
    /\ \A u \in Users : Enrolled(factors, u) => OldEntry(factors[u], fresh)
    /\ \A p \in Processes : doing[p].at = "read" =>
          \A u \in Users : Enrolled(doing[p].row, u) => OldEntry(doing[p].row[u], fresh)
    /\ \A a \in accepted : OldCode(a[2], fresh)

\* An operation has read the entry it is about, and its code belongs to it.
Sound(w, now) ==
    /\ w.step <= now
    /\ w.op \in {"login", "confirm", "codes"} => Enrolled(w.row, w.user)
    /\ w.op = "login" => w.row[w.user].enabled
    /\ w.op = "confirm" => ~w.row[w.user].enabled /\ w.code \in StepCode
    /\ w.op \in {"login", "confirm"} /\ w.code \in StepCode =>
          /\ w.code.secret = w.row[w.user].secret
          /\ w.code.step - w.step \in -DEFAULT_WINDOW..DEFAULT_WINDOW
    /\ w.op = "login" /\ w.code \in RecoveryCode => w.code \in w.row[w.user].recovery

ReadInv == \A p \in Processes : doing[p].at = "read" => Sound(doing[p], step)

\* A code that has worked is spent: the counter is past a code of the clock, a recovery
\* code is gone, and a secret that is not confirmed has let nobody in.
Spent(entry, code) ==
    entry # NotEnrolled =>
        /\ code \in StepCode /\ code.secret = entry.secret =>
              entry.enabled /\ code.step <= entry.last
        /\ code \in RecoveryCode => code \notin entry.recovery

SpentInv == \A a \in accepted : a[1] \in rewound \/ Spent(factors[a[1]], a[2])

TotpInv == TotpTypeOK /\ FreshInv /\ ReadInv /\ SpentInv /\ CodesWorkOnce

\* A code of the clock is no recovery code.
LEMMA NoRecoveryCode == \A code : ~(code \in StepCode /\ code \in RecoveryCode)
<1>1. \A code \in StepCode : DOMAIN code = {"secret", "step"}
  BY DEF StepCode
<1>2. \A code \in RecoveryCode : DOMAIN code = {"set", "i"}
  BY DEF RecoveryCode
<1> QED
  BY <1>1, <1>2

\* What is known of an operation that has read the row.
LEMMA ReadFacts ==
    ASSUME TotpAssumption, TotpInv, NEW p \in Processes, doing[p].at = "read"
    PROVE  /\ doing[p] \in [at : {"read"}, op : Ops, user : Users, row : Row, step : 2..MaxStep,
                            code : StepCode \cup RecoveryCode \cup {NoCode}]
           /\ Sound(doing[p], step)
           /\ \A u \in Users : Enrolled(doing[p].row, u) =>
                 doing[p].row[u] \in Entry /\ OldEntry(doing[p].row[u], fresh)
<1>1. doing[p] \in [at : {"read"}, op : Ops, user : Users, row : Row, step : 2..MaxStep,
                    code : StepCode \cup RecoveryCode \cup {NoCode}]
  BY DEF TotpInv, TotpTypeOK, Idle
<1> QED
  BY <1>1 DEF TotpInv, ReadInv, FreshInv, Enrolled, Row

\* Whoever saves an entry in which all that has worked is spent keeps the invariant: the
\* users whose entries it takes back are known from then on.
LEMMA SaveStep ==
    ASSUME TotpAssumption, TotpInv, NEW p \in Processes, doing[p].at = "read",
           NEW entry \in Entry \cup {NotEnrolled}, Save(p, entry),
           fresh' \in 0..MaxFresh, fresh <= fresh',
           entry # NotEnrolled => OldEntry(entry, fresh'),
           accepted' \subseteq Users \X (StepCode \cup RecoveryCode),
           \A a \in accepted' \ accepted :
              a[1] = doing[p].user /\ OldCode(a[2], fresh') /\ Spent(entry, a[2]),
           \A a \in accepted :
              a[1] = doing[p].user /\ a[1] \notin rewound /\ factors[a[1]] = doing[p].row[a[1]]
                  => Spent(entry, a[2]),
           reused' = FALSE
    PROVE  TotpInv'
<1> DEFINE w == doing[p]
<1>1. /\ w.user \in Users /\ w.row \in Row
      /\ \A u \in Users : Enrolled(w.row, u) => OldEntry(w.row[u], fresh)
  BY ReadFacts
<1>2. /\ factors' = [w.row EXCEPT ![w.user] = entry] /\ step' = step
      /\ rewound' = rewound \cup {u \in Users : factors[u] # w.row[u]}
      /\ doing' = [doing EXCEPT ![p] = Idle]
  BY DEF Save
<1>3. /\ factors'[w.user] = entry
      /\ \A u \in Users \ {w.user} : factors'[u] = w.row[u]
      /\ factors' \in Row
  BY <1>1, <1>2 DEF Row
<1>4. \A q \in Processes : doing'[q].at = "read" => q # p /\ doing'[q] = doing[q]
  BY <1>2 DEF TotpInv, TotpTypeOK, Idle
<1>5. /\ fresh \in Nat /\ fresh' \in Nat /\ fresh <= fresh'
      /\ \A e \in Entry : OldEntry(e, fresh) => OldEntry(e, fresh')
      /\ \A a \in accepted : OldCode(a[2], fresh) => OldCode(a[2], fresh')
  BY DEF TotpInv, TotpTypeOK, TotpAssumption, Entry, OldEntry, OldCode, Numbers, StepCode,
         RecoveryCode
<1>6. TotpTypeOK'
  <2>1. \A q \in Processes : doing'[q] = doing[q] \/ doing'[q] = Idle
    BY <1>2 DEF TotpInv, TotpTypeOK
  <2> QED
    BY <1>2, <1>3, <2>1 DEF TotpInv, TotpTypeOK
<1>7. FreshInv'
  <2>1. \A u \in Users : Enrolled(factors', u) => OldEntry(factors'[u], fresh')
    BY <1>1, <1>3, <1>5 DEF Enrolled, Row
  <2>2. \A q \in Processes : doing'[q].at = "read" =>
            \A u \in Users : Enrolled(doing'[q].row, u) => OldEntry(doing'[q].row[u], fresh')
    BY <1>4, <1>5, ReadFacts
  <2>3. \A a \in accepted' : OldCode(a[2], fresh')
    BY <1>5 DEF TotpInv, FreshInv
  <2> QED
    BY <2>1, <2>2, <2>3 DEF FreshInv
<1>8. ReadInv'
  BY <1>2, <1>4 DEF TotpInv, ReadInv
<1>9. SpentInv'
  <2>1. ASSUME NEW a \in accepted, a[1] \notin rewound' PROVE Spent(factors'[a[1]], a[2])
    <3>1. a[1] \in Users /\ a[1] \notin rewound /\ factors[a[1]] = w.row[a[1]]
      BY <1>2, <2>1 DEF TotpInv, TotpTypeOK
    <3>2. Spent(factors[a[1]], a[2])
      BY <3>1 DEF TotpInv, SpentInv
    <3> QED
      BY <1>3, <3>1, <3>2
  <2>2. \A a \in accepted' \ accepted : Spent(factors'[a[1]], a[2])
    BY <1>3
  <2> QED
    BY <2>1, <2>2 DEF SpentInv
<1> QED
  BY <1>6, <1>7, <1>8, <1>9 DEF TotpInv, CodesWorkOnce

\* Neither a secret nor recovery codes that are made now have been made before.
LEMMA NewAreUnused ==
    ASSUME TotpAssumption, TotpInv, fresh < MaxFresh
    PROVE  /\ fresh + 1 \in Numbers /\ fresh + 1 \in 0..MaxFresh /\ fresh <= fresh + 1
           /\ NewCodes \subseteq RecoveryCode
           /\ \A code \in NewCodes : code.set = fresh + 1
           /\ \A a \in accepted : a[2] \notin NewCodes
           /\ \A a \in accepted : a[2] \in StepCode => a[2].secret # fresh + 1
<1>1. fresh \in Nat /\ MaxFresh \in Nat
  BY DEF TotpInv, TotpTypeOK, TotpAssumption
<1>2. fresh + 1 \in Numbers /\ fresh + 1 \in 0..MaxFresh /\ fresh <= fresh + 1
  BY <1>1 DEF Numbers
<1>3. NewCodes \subseteq RecoveryCode /\ \A code \in NewCodes : code.set = fresh + 1
  BY <1>2 DEF NewCodes, RecoveryCode
<1>4. \A a \in accepted : a[2] \notin NewCodes
  BY <1>1, <1>3 DEF TotpInv, FreshInv, OldCode
<1>5. \A a \in accepted : a[2] \in StepCode => a[2].secret # fresh + 1
  BY <1>1 DEF TotpInv, FreshInv, OldCode
<1> QED
  BY <1>2, <1>3, <1>4, <1>5

\* A code is counted with the clock of the moment, which is no earlier than when it was read.
LEMMA CounterFacts ==
    ASSUME TotpAssumption, TotpInv, NEW p \in Processes, doing[p].at = "read",
           doing[p].op \in {"login", "confirm"}, doing[p].code \in StepCode
    PROVE  /\ Counter(doing[p]) \in 0..MaxStep + DEFAULT_WINDOW + 1
           /\ doing[p].code.step <= Counter(doing[p])
           /\ step = doing[p].step => Counter(doing[p]) = doing[p].code.step
<1> DEFINE w == doing[p]
<1>1. /\ w.step \in 2..MaxStep /\ w.step <= step /\ step \in 2..MaxStep /\ MaxStep \in Nat
      /\ w.code.step \in 1..MaxStep + DEFAULT_WINDOW
      /\ w.code.step - w.step \in -DEFAULT_WINDOW..DEFAULT_WINDOW
  BY ReadFacts DEF Sound, StepCode, TotpInv, TotpTypeOK, TotpAssumption
<1> QED
  BY <1>1 DEF Counter, DEFAULT_WINDOW

\* An enrollment begins with a secret nobody has used.
LEMMA EnrollStep ==
    ASSUME TotpAssumption, TotpInv, NEW p \in Processes, Enroll(p) PROVE TotpInv'
<1>1. PICK entry : entry = [secret |-> fresh + 1, enabled |-> FALSE, last |-> 0, recovery |-> {}]
  OBVIOUS
<1>2. /\ doing[p].at = "read" /\ fresh < MaxFresh /\ fresh' = fresh + 1 /\ Save(p, entry)
      /\ accepted' = accepted /\ reused' = reused
  BY <1>1 DEF Enroll
<1>3. /\ fresh' \in 0..MaxFresh /\ fresh <= fresh' /\ fresh' \in Numbers
      /\ \A a \in accepted : a[2] \in StepCode => a[2].secret # fresh'
  BY <1>2, NewAreUnused
<1>4. entry \in Entry /\ OldEntry(entry, fresh')
  BY <1>1, <1>2, <1>3 DEF Entry, OldEntry, Numbers, TotpAssumption, DEFAULT_WINDOW
<1>5. \A a \in accepted : Spent(entry, a[2])
  BY <1>1, <1>2, <1>3 DEF Spent
<1>6. accepted' \subseteq Users \X (StepCode \cup RecoveryCode) /\ accepted' \ accepted = {}
  BY <1>2 DEF TotpInv, TotpTypeOK
<1>7. reused' = FALSE
  BY <1>2 DEF TotpInv, CodesWorkOnce, TotpTypeOK
<1> QED
  BY <1>2, <1>3, <1>4, <1>5, <1>6, <1>7, SaveStep

\* The code that confirms an enrollment is the first of its secret.
LEMMA ConfirmStep ==
    ASSUME TotpAssumption, TotpInv, NEW p \in Processes, Confirm(p) PROVE TotpInv'
<1> DEFINE w == doing[p]
<1>1. PICK entry : entry = [w.row[w.user] EXCEPT !.enabled = TRUE, !.recovery = NewCodes,
                                                 !.last = Counter(w)]
  OBVIOUS
<1>2. PICK code : code = w.code
  OBVIOUS
<1>3. /\ w.at = "read" /\ w.op = "confirm" /\ fresh < MaxFresh /\ fresh' = fresh + 1
      /\ Save(p, entry) /\ Accept(w)
  BY <1>1 DEF Confirm
<1>4. /\ fresh' \in 0..MaxFresh /\ fresh <= fresh' /\ fresh \in Nat
      /\ NewCodes \subseteq RecoveryCode
      /\ \A new \in NewCodes : new.set = fresh'
      /\ \A a \in accepted : a[2] \notin NewCodes
  BY <1>3, NewAreUnused DEF TotpInv, TotpTypeOK
<1>5. /\ w.row[w.user] \in Entry /\ w.row[w.user] # NotEnrolled /\ w.user \in Users
      /\ OldEntry(w.row[w.user], fresh) /\ ~w.row[w.user].enabled
      /\ code \in StepCode /\ code.secret = w.row[w.user].secret
  BY <1>2, <1>3, ReadFacts DEF Sound, Enrolled
<1>6. Counter(w) \in 0..MaxStep + DEFAULT_WINDOW + 1 /\ code.step <= Counter(w)
  BY <1>2, <1>3, <1>5, CounterFacts
<1>7. /\ entry \in Entry /\ entry.secret = w.row[w.user].secret /\ entry.enabled = TRUE
      /\ entry.recovery = NewCodes /\ entry.last = Counter(w)
  BY <1>1, <1>4, <1>5, <1>6 DEF Entry
<1>8. OldEntry(entry, fresh')
  BY <1>3, <1>4, <1>5, <1>7 DEF OldEntry, Entry, Numbers
<1>9. OldCode(code, fresh') /\ Spent(entry, code)
  <2>1. code \notin RecoveryCode
    BY <1>5, NoRecoveryCode
  <2> QED
    BY <1>3, <1>4, <1>5, <1>6, <1>7, <2>1 DEF OldCode, OldEntry, Spent, StepCode, Entry, Numbers
<1>10. ASSUME NEW a \in accepted, a[1] = w.user, a[1] \notin rewound,
              factors[a[1]] = w.row[a[1]]
       PROVE  Spent(entry, a[2]) /\ a[2] # code
  <2>1. Spent(w.row[w.user], a[2])
    BY <1>10 DEF TotpInv, SpentInv
  <2>2. ~(a[2] \in StepCode /\ a[2].secret = w.row[w.user].secret)
    BY <1>5, <2>1 DEF Spent
  <2> QED
    BY <1>4, <1>5, <1>7, <2>2, <1>10 DEF Spent
<1>11. /\ accepted' \subseteq Users \X (StepCode \cup RecoveryCode)
       /\ \A a \in accepted' \ accepted : a[1] = w.user /\ a[2] = code
  BY <1>2, <1>3, <1>5 DEF Accept, TotpInv, TotpTypeOK
<1>12. reused' = FALSE
  BY <1>2, <1>3, <1>10 DEF Accept, TotpInv, CodesWorkOnce, TotpTypeOK
<1> QED
  BY <1>3, <1>4, <1>5, <1>7, <1>8, <1>9, <1>10, <1>11, <1>12, SaveStep

\* A recovery code is there until it has worked.
LEMMA RecoverStep ==
    ASSUME TotpAssumption, TotpInv, NEW p \in Processes, Recover(p) PROVE TotpInv'
<1> DEFINE w == doing[p]
<1>1. PICK entry : entry = [w.row[w.user] EXCEPT !.recovery = @ \ {w.code}]
  OBVIOUS
<1>2. PICK code : code = w.code
  OBVIOUS
<1>3. /\ w.at = "read" /\ w.op = "login" /\ code \in RecoveryCode /\ fresh' = fresh
      /\ Save(p, entry) /\ Accept(w)
  BY <1>1, <1>2 DEF Recover
<1>4. /\ w.row[w.user] \in Entry /\ w.row[w.user] # NotEnrolled /\ w.user \in Users
      /\ OldEntry(w.row[w.user], fresh) /\ code \in w.row[w.user].recovery
      /\ w.row[w.user].enabled
  BY <1>2, <1>3, ReadFacts DEF Sound, Enrolled
<1>5. /\ entry \in Entry /\ entry.secret = w.row[w.user].secret
      /\ entry.enabled = w.row[w.user].enabled
      /\ entry.recovery = w.row[w.user].recovery \ {code} /\ entry.last = w.row[w.user].last
  BY <1>1, <1>2, <1>4 DEF Entry
<1>6. fresh' \in 0..MaxFresh /\ fresh <= fresh' /\ OldEntry(entry, fresh')
  BY <1>3, <1>4, <1>5 DEF OldEntry, TotpInv, TotpTypeOK
<1>7. OldCode(code, fresh') /\ Spent(entry, code)
  <2>1. code \notin StepCode
    BY <1>3, NoRecoveryCode
  <2> QED
    BY <1>3, <1>4, <1>5, <2>1 DEF OldCode, OldEntry, Spent
<1>8. ASSUME NEW a \in accepted, a[1] = w.user, a[1] \notin rewound, factors[a[1]] = w.row[a[1]]
      PROVE  Spent(entry, a[2]) /\ a[2] # code
  <2>1. Spent(w.row[w.user], a[2])
    BY <1>8 DEF TotpInv, SpentInv
  <2> QED
    BY <1>3, <1>4, <1>5, <2>1 DEF Spent
<1>9. /\ accepted' \subseteq Users \X (StepCode \cup RecoveryCode)
      /\ \A a \in accepted' \ accepted : a[1] = w.user /\ a[2] = code
  BY <1>2, <1>3, <1>4 DEF Accept, TotpInv, TotpTypeOK
<1>10. reused' = FALSE
  BY <1>2, <1>3, <1>8 DEF Accept, TotpInv, CodesWorkOnce, TotpTypeOK
<1> QED
  BY <1>3, <1>5, <1>6, <1>7, <1>8, <1>9, <1>10, SaveStep

\* A code of the clock works only while it is newer than the last.
LEMMA VerifyStep ==
    ASSUME TotpAssumption, TotpInv, NEW p \in Processes, Verify(p) PROVE TotpInv'
<1> DEFINE w == doing[p]
<1>1. PICK entry : entry = [w.row[w.user] EXCEPT !.last = Counter(w)]
  OBVIOUS
<1>2. PICK code : code = w.code
  OBVIOUS
<1>3. w.at = "read" /\ w.op = "login" /\ code \in StepCode
  BY <1>2 DEF Verify
<1>4. /\ w.row[w.user] \in Entry /\ w.row[w.user] # NotEnrolled /\ w.user \in Users
      /\ OldEntry(w.row[w.user], fresh) /\ code.secret = w.row[w.user].secret
      /\ w.row[w.user].enabled
  BY <1>2, <1>3, ReadFacts DEF Sound, Enrolled
<1>5. /\ Counter(w) \in 0..MaxStep + DEFAULT_WINDOW + 1 /\ code.step <= Counter(w)
      /\ step = w.step => Counter(w) = code.step
  BY <1>2, <1>3, CounterFacts
<1>6. CASE /\ Counter(w) > w.row[w.user].last /\ Save(p, entry) /\ Accept(w) /\ fresh' = fresh
  <2>1. /\ entry \in Entry /\ entry.secret = w.row[w.user].secret
        /\ entry.enabled = w.row[w.user].enabled
        /\ entry.recovery = w.row[w.user].recovery /\ entry.last = Counter(w)
        /\ w.row[w.user].last \in Nat /\ Counter(w) \in Nat
    <3>1. w.row[w.user].last \in Nat /\ Counter(w) \in Nat
      BY <1>4, <1>5 DEF Entry
    <3> QED
      BY <1>1, <1>4, <1>5, <3>1 DEF Entry
  <2>2. fresh' \in 0..MaxFresh /\ fresh <= fresh' /\ OldEntry(entry, fresh')
    BY <1>4, <1>6, <2>1 DEF OldEntry, TotpInv, TotpTypeOK
  <2>3. OldCode(code, fresh') /\ Spent(entry, code)
    <3>1. code \notin RecoveryCode
      BY <1>3, NoRecoveryCode
    <3> QED
      BY <1>4, <1>5, <1>6, <2>1, <3>1 DEF OldCode, OldEntry, Spent
  <2>4. ASSUME NEW a \in accepted, a[1] = w.user, a[1] \notin rewound,
               factors[a[1]] = w.row[a[1]]
        PROVE  Spent(entry, a[2]) /\ (a[2] = code => step # w.step)
    <3>1. Spent(w.row[w.user], a[2])
      BY <2>4 DEF TotpInv, SpentInv
    <3>2. a[2] \in StepCode => a[2].step \in Nat
      BY DEF StepCode, TotpAssumption
    <3> QED
      BY <1>3, <1>4, <1>5, <1>6, <2>1, <3>1, <3>2 DEF Spent
  <2>5. /\ accepted' \subseteq Users \X (StepCode \cup RecoveryCode)
        /\ \A a \in accepted' \ accepted : a[1] = w.user /\ a[2] = code
    BY <1>2, <1>3, <1>4, <1>6 DEF Accept, TotpInv, TotpTypeOK
  <2>6. reused' = FALSE
    BY <1>2, <1>6, <2>4 DEF Accept, TotpInv, CodesWorkOnce, TotpTypeOK
  <2> QED
    BY <1>3, <1>6, <2>1, <2>2, <2>3, <2>4, <2>5, <2>6, SaveStep
<1>7. CASE /\ doing' = [doing EXCEPT ![p] = Idle]
           /\ UNCHANGED <<factors, step, fresh, accepted, rewound, reused>>
  BY <1>7 DEF TotpInv, TotpTypeOK, FreshInv, ReadInv, SpentInv, CodesWorkOnce, Idle
<1> QED
  BY <1>1, <1>6, <1>7 DEF Verify

\* Whoever is not enrolled has no code that works.
LEMMA DisableStep ==
    ASSUME TotpAssumption, TotpInv, NEW p \in Processes, Disable(p) PROVE TotpInv'
<1>1. /\ doing[p].at = "read" /\ fresh' = fresh /\ Save(p, NotEnrolled)
      /\ accepted' = accepted /\ reused' = reused
  BY DEF Disable
<1>2. accepted' \subseteq Users \X (StepCode \cup RecoveryCode) /\ accepted' \ accepted = {}
  BY <1>1 DEF TotpInv, TotpTypeOK
<1>3. /\ reused' = FALSE /\ fresh' \in 0..MaxFresh /\ fresh <= fresh'
      /\ \A a \in accepted : Spent(NotEnrolled, a[2])
  BY <1>1 DEF TotpInv, CodesWorkOnce, TotpTypeOK, Spent
<1> QED
  BY <1>1, <1>2, <1>3, SaveStep

\* New recovery codes are codes nobody has used.
LEMMA CodesStep ==
    ASSUME TotpAssumption, TotpInv, NEW p \in Processes, RegenerateRecoveryCodes(p)
    PROVE  TotpInv'
<1> DEFINE w == doing[p]
<1>1. PICK entry : entry = [w.row[w.user] EXCEPT !.recovery = NewCodes]
  OBVIOUS
<1>2. /\ w.at = "read" /\ w.op = "codes" /\ fresh < MaxFresh /\ fresh' = fresh + 1
      /\ Save(p, entry) /\ accepted' = accepted /\ reused' = reused
  BY <1>1 DEF RegenerateRecoveryCodes
<1>3. /\ fresh' \in 0..MaxFresh /\ fresh <= fresh' /\ fresh \in Nat
      /\ NewCodes \subseteq RecoveryCode
      /\ \A new \in NewCodes : new.set = fresh'
      /\ \A a \in accepted : a[2] \notin NewCodes
  BY <1>2, NewAreUnused DEF TotpInv, TotpTypeOK
<1>4. /\ w.row[w.user] \in Entry /\ w.row[w.user] # NotEnrolled /\ w.user \in Users
      /\ OldEntry(w.row[w.user], fresh)
  BY <1>2, ReadFacts DEF Sound, Enrolled
<1>5. /\ entry \in Entry /\ entry.secret = w.row[w.user].secret
      /\ entry.enabled = w.row[w.user].enabled
      /\ entry.recovery = NewCodes /\ entry.last = w.row[w.user].last
  BY <1>1, <1>3, <1>4 DEF Entry
<1>6. OldEntry(entry, fresh')
  BY <1>2, <1>3, <1>4, <1>5 DEF OldEntry, Entry, Numbers
<1>7. ASSUME NEW a \in accepted, a[1] = w.user, a[1] \notin rewound, factors[a[1]] = w.row[a[1]]
      PROVE  Spent(entry, a[2])
  <2>1. Spent(w.row[w.user], a[2])
    BY <1>7 DEF TotpInv, SpentInv
  <2> QED
    BY <1>3, <1>4, <1>5, <2>1 DEF Spent
<1>8. accepted' \subseteq Users \X (StepCode \cup RecoveryCode) /\ accepted' \ accepted = {}
  BY <1>2 DEF TotpInv, TotpTypeOK
<1>9. reused' = FALSE
  BY <1>2 DEF TotpInv, CodesWorkOnce, TotpTypeOK
<1> QED
  BY <1>2, <1>3, <1>5, <1>6, <1>7, <1>8, <1>9, SaveStep

\* An operation reads the row: its code belongs to the entry it has read.
LEMMA ReadStep ==
    ASSUME TotpAssumption, TotpInv, NEW p \in Processes, NEW op \in Ops, NEW u \in Users,
           Read(p, op, u)
    PROVE  TotpInv'
<1>1. PICK code \in Codes(u) :
        /\ MayGoOn(op, u, code)
        /\ doing' = [doing EXCEPT ![p] = [at |-> "read", op |-> op, user |-> u, row |-> factors,
                                          step |-> step, code |-> code]]
  BY DEF Read
<1>2. UNCHANGED <<factors, step, fresh, accepted, rewound, reused>>
  BY DEF Read
<1>3. PICK w : w = [at |-> "read", op |-> op, user |-> u, row |-> factors, step |-> step,
                    code |-> code]
  OBVIOUS
<1>4. /\ w.at = "read" /\ w.op = op /\ w.user = u /\ w.row = factors /\ w.step = step
      /\ w.code = code
  BY <1>3
<1>5. /\ factors \in Row /\ step \in 2..MaxStep /\ MaxStep \in Nat
      /\ Enrolled(factors, u) => factors[u] \in Entry
  BY DEF TotpInv, TotpTypeOK, TotpAssumption, Enrolled, Row
<1>6. code \in StepCode \cup RecoveryCode \cup {NoCode}
  <2>1. CASE code = NoCode
    BY <2>1
  <2>2. CASE Enrolled(factors, u) /\ code \in factors[u].recovery
    BY <1>5, <2>2 DEF Entry
  <2>3. CASE Enrolled(factors, u) /\ code \in [secret : {factors[u].secret}, step : step-1..step+1]
    BY <1>5, <2>3 DEF Entry, StepCode, DEFAULT_WINDOW
  <2> QED
    BY <2>1, <2>2, <2>3 DEF Codes
<1>7. Sound(w, step)
  <2>1. w.step <= step
    BY <1>4, <1>5
  <2>2. CASE op = "login"
    <3>1. Enrolled(factors, u) /\ factors[u].enabled /\ Matches(factors[u], code)
      BY <1>1, <2>2 DEF MayGoOn, IsEnabled
    <3>2. code \in StepCode =>
              /\ code.secret = factors[u].secret
              /\ code.step - step \in -DEFAULT_WINDOW..DEFAULT_WINDOW
      BY <1>5, <3>1, NoRecoveryCode DEF Matches, Entry
    <3>3. code \in RecoveryCode => code \in factors[u].recovery
      BY <3>1, NoRecoveryCode DEF Matches
    <3> QED
      BY <1>4, <2>1, <2>2, <3>1, <3>2, <3>3 DEF Sound
  <2>3. CASE op = "confirm"
    BY <1>1, <1>4, <2>1, <2>3 DEF MayGoOn, Sound, Matches
  <2>4. CASE op = "codes"
    BY <1>1, <1>4, <2>1, <2>4 DEF MayGoOn, Sound, IsEnabled
  <2>5. CASE op \in {"enroll", "disable"}
    BY <1>4, <2>1, <2>5 DEF Sound
  <2> QED
    BY <2>2, <2>3, <2>4, <2>5 DEF Ops
<1>8. \A q \in Processes : doing'[q] = IF q = p THEN w ELSE doing[q]
  BY <1>1, <1>3 DEF TotpInv, TotpTypeOK
<1>9. w \in [at : {"read"}, op : Ops, user : Users, row : Row, step : 2..MaxStep,
             code : StepCode \cup RecoveryCode \cup {NoCode}]
  BY <1>3, <1>5, <1>6
<1>10. TotpTypeOK'
  <2>1. DOMAIN doing' = Processes
    BY <1>1 DEF TotpInv, TotpTypeOK
  <2> QED
    BY <1>2, <1>8, <1>9, <2>1 DEF TotpInv, TotpTypeOK
<1>11. FreshInv'
  BY <1>2, <1>4, <1>8 DEF TotpInv, FreshInv
<1>12. ReadInv'
  BY <1>2, <1>7, <1>8 DEF TotpInv, ReadInv
<1> QED
  BY <1>2, <1>10, <1>11, <1>12 DEF TotpInv, SpentInv, CodesWorkOnce

\* A process that has not read the row yet has nothing to keep.
LEMMA PauseStep ==
    ASSUME TotpInv, NEW p \in Processes, NEW pause,
           pause = Idle \/ pause \in [at : {"asked"}, op : Asking, user : Users],
           doing' = [doing EXCEPT ![p] = pause],
           UNCHANGED <<factors, step, fresh, accepted, rewound, reused>>
    PROVE  TotpInv'
<1>1. \A q \in Processes : doing'[q] = IF q = p THEN pause ELSE doing[q]
  BY DEF TotpInv, TotpTypeOK
<1>2. pause.at # "read"
  BY DEF Idle
<1>3. TotpTypeOK'
  BY <1>1 DEF TotpInv, TotpTypeOK
<1> QED
  BY <1>1, <1>2, <1>3 DEF TotpInv, FreshInv, ReadInv, SpentInv, CodesWorkOnce

\* Time passes between the two readings of the clock.
LEMMA ClockStep ==
    ASSUME TotpAssumption, TotpInv, NextStep PROVE TotpInv'
<1>1. /\ step' = step + 1 /\ step' \in 2..MaxStep /\ step \in Nat
      /\ UNCHANGED <<factors, doing, fresh, accepted, rewound, reused>>
  BY DEF NextStep, TotpInv, TotpTypeOK, TotpAssumption
<1>2. TotpTypeOK'
  BY <1>1 DEF TotpInv, TotpTypeOK
<1>3. ReadInv'
  <2>1. ASSUME NEW p \in Processes, doing[p].at = "read" PROVE Sound(doing[p], step')
    <3>1. Sound(doing[p], step) /\ doing[p].step \in Nat
      BY <2>1, ReadFacts DEF TotpAssumption
    <3> QED
      BY <1>1, <3>1 DEF Sound
  <2> QED
    BY <1>1, <2>1 DEF ReadInv
<1> QED
  BY <1>1, <1>2, <1>3 DEF TotpInv, FreshInv, SpentInv, CodesWorkOnce

\* Every step of the second factor keeps the invariant.
LEMMA TotpStep ==
    ASSUME TotpAssumption, TotpInv, [TotpNext]_totpVars PROVE TotpInv'
<1>1. ASSUME NEW p \in Processes, NEW op \in Asking, NEW u \in Users, Ask(p, op, u)
      PROVE  TotpInv'
  <2>1. PICK pause : pause = [at |-> "asked", op |-> op, user |-> u]
    OBVIOUS
  <2> QED
    BY <1>1, <2>1, PauseStep DEF Ask
<1>2. ASSUME NEW p \in Processes, Return(p) PROVE TotpInv'
  BY <1>2, PauseStep DEF Return
<1>3. ASSUME UNCHANGED totpVars PROVE TotpInv'
  BY <1>3 DEF totpVars, TotpInv, TotpTypeOK, FreshInv, ReadInv, SpentInv, CodesWorkOnce
<1> QED
  BY <1>1, <1>2, <1>3, ReadStep, EnrollStep, ConfirmStep, RecoverStep, VerifyStep,
     DisableStep, CodesStep, ClockStep DEF TotpNext

\* The invariant holds before anybody has enrolled.
LEMMA TotpStart ==
    ASSUME TotpAssumption, TotpInit PROVE TotpInv
<1>1. TotpTypeOK
  <2>1. factors \in Row /\ DOMAIN doing = Processes /\ \A p \in Processes : doing[p] = Idle
    BY DEF TotpInit, Row
  <2>2. 2 \in 2..MaxStep /\ 0 \in 0..MaxFresh
    BY DEF TotpAssumption
  <2> QED
    BY <2>1, <2>2 DEF TotpInit, TotpTypeOK
<1> QED
  BY <1>1 DEF TotpInit, TotpInv, FreshInv, ReadInv, SpentInv, CodesWorkOnce, Enrolled, Idle

(***************************************************************************)
(* A code works once, be it of the clock, of an enrollment or of recovery, *)
(* for every number of users, secrets and steps of the clock, with the     *)
(* exceptions the property names: totp.js counts a code when it works,     *)
(* takes a recovery code away, and begins each enrollment with a secret of *)
(* its own.                                                                *)
(***************************************************************************)
THEOREM NoCodeWorksTwice ==
    ASSUME TotpAssumption
    PROVE  TotpSpec => [](TotpTypeOK /\ CodesWorkOnce)
<1>1. TotpInit => TotpInv
  BY TotpStart
<1>2. TotpInv /\ [TotpNext]_totpVars => TotpInv'
  BY TotpStep
<1>3. TotpInv => TotpTypeOK /\ CodesWorkOnce
  BY DEF TotpInv
<1> QED
  BY <1>1, <1>2, <1>3, PTL DEF TotpSpec

-----------------------------------------------------------------------------
(* Sessions: who has signed out stays out.                                 *)

\* Nothing is known, by the server or by the CLI, of a token that was never made.
KnownInv ==
    /\ \A j \in Jtis : expiry[j] = 0 =>
          /\ sessions[j] = NoRecord /\ cli.sessions[j] = NoRecord
          /\ revoked[j] = 0 /\ cli.revoked[j] = 0 /\ ended[j] = "no"
    /\ \A j \in cli.todo : expiry[j] > 0

\* A sign-out that promised to last is on record until the token has expired.
RevocationsInv ==
    \A j \in Jtis : ended[j] = "out" /\ tick < expiry[j] => revoked[j] >= expiry[j]

SessionsInv == SessionsTypeOK /\ KnownInv /\ RevocationsInv /\ SignedOutStaysOut

SessionsConstants == SessionsAssumption /\ SessionSettingsAssumption

\* What the helpers make of a map of records, or of revocations, is another one.
LEMMA MapTypes ==
    ASSUME SessionsConstants, SessionsTypeOK
    PROVE  /\ NoRecord \notin Record
           /\ \A map \in Maps, s \in SUBSET Jtis :
                 Fresh(map) \in Maps /\ Without(map, s) \in Maps
           /\ \A map \in [Jtis -> Nat] : Pruned(map) \in [Jtis -> Nat]
           /\ \A map \in [Jtis -> Nat], j \in Jtis : Revoked(map, j) \in [Jtis -> Nat]
<1> USE DEF SessionsConstants, SessionsAssumption, SessionSettingsAssumption, SessionsTypeOK
<1>1. Record \subseteq [created : Nat, seen : Nat, binding : Places \cup {Unbound}]
  BY DEF Record
<1>2. \A map \in Maps, s \in SUBSET Jtis : Fresh(map) \in Maps /\ Without(map, s) \in Maps
  BY DEF Maps, Fresh, Without
<1>3. \A map \in [Jtis -> Nat] : Pruned(map) \in [Jtis -> Nat]
  BY DEF Pruned
<1>4. tick + config.maxAge \in Nat
  <2>1. config.maxAge \in MaxAges /\ tick \in Nat
    OBVIOUS
  <2>2. config.maxAge \in Nat
    BY <2>1
  <2> QED
    BY <2>1, <2>2
<1>5. \A map \in [Jtis -> Nat], j \in Jtis : Revoked(map, j) \in [Jtis -> Nat]
  BY <1>3, <1>4 DEF Revoked
<1> QED
  BY <1>1, <1>2, <1>3, <1>5

TouchCodes == {"ok", "SESSION_REVOKED", "SESSION_BINDING", "SESSION_IDLE"}

\* A use writes a record of its session or none, and never one of another.
LEMMA TouchStep ==
    ASSUME SessionsConstants, SessionsTypeOK, NEW j \in Jtis, NEW place \in Places, Touch(j, place)
    PROVE  /\ sessions' \in Maps
           /\ \A i \in Jtis : sessions[i] = NoRecord => sessions'[i] = NoRecord
           /\ reply' \in [jti : {j}, code : TouchCodes]
           /\ reply'.code = "ok" => ~IsRevoked(j)
<1> USE DEF SessionsConstants, SessionsAssumption, SessionSettingsAssumption, SessionsTypeOK,
            TouchCodes
<1>1. Without(sessions, {j}) \in Maps
  <2>1. {j} \in SUBSET Jtis /\ sessions \in Maps
    OBVIOUS
  <2> QED
    BY <2>1, MapTypes
<1>2. \A i \in Jtis : sessions[i] = NoRecord => Without(sessions, {j})[i] = NoRecord
  BY DEF Without
<1>3. CASE UNCHANGED sessions
  BY <1>3 DEF Touch
<1>4. CASE sessions' = Without(sessions, {j})
  <2>1. /\ reply' \in [jti : {j}, code : TouchCodes]
        /\ reply'.code = "ok" => ~IsRevoked(j)
    BY DEF Touch
  <2> QED
    BY <1>1, <1>2, <1>4, <2>1
<1>5. CASE /\ sessions[j] # NoRecord /\ ~IsRevoked(j)
           /\ reply' = [jti |-> j, code |-> "ok"]
           /\ sessions' = [sessions EXCEPT ![j] =
                 IF Seen(j, @) = @ THEN @ ELSE Seen(j, Adopted(j, place))]
  <2>1. sessions[j] \in Record
    BY <1>5 DEF Maps
  <2>2. Adopted(j, place) \in Record
    BY <2>1 DEF Adopted, Record
  <2>3. \A r \in Record : Seen(j, r) \in Record
    BY DEF Seen, Record
  <2>4. sessions' \in Maps
    BY <1>5, <2>1, <2>2, <2>3 DEF Maps
  <2>5. \A i \in Jtis : sessions[i] = NoRecord => sessions'[i] = NoRecord
    BY <1>5 DEF Maps
  <2> QED
    BY <1>5, <2>4, <2>5
<1> QED
  BY <1>3, <1>4, <1>5 DEF Touch

\* The steps of the CLI keep what they touch well-formed.
LEMMA CliStep ==
    ASSUME SessionsConstants, SessionsInv, Cli
    PROVE  SessionsTypeOK' /\ KnownInv'
<1> DEFINE Run == [at : {"idle", "next", "revoke"}, sessions : Maps,
                   revoked : [Jtis -> Nat], todo : SUBSET Jtis, during : 0..MaxDuring]
<1>1. /\ NoRun.at = "idle" /\ NoRun.todo = {} /\ NoRun \in Run
      /\ \A j \in Jtis : NoRun.sessions[j] = NoRecord /\ NoRun.revoked[j] = 0
  BY DEF NoRun, Maps, SessionsConstants, SessionSettingsAssumption
<1>2. /\ expiry' = expiry /\ config' = config /\ tick' = tick
      /\ reply' = NoReply
      /\ NoReply \in [jti : Jtis \cup {NoRecord}, code : {"none"}]
  BY DEF Cli, CliLoads, CliReadsRevoked, CliRevokes, CliPersists, CliDies, NoReply
<1> SUFFICES /\ sessions' \in Maps /\ revoked' \in [Jtis -> Nat] /\ cli' \in Run
             /\ ended' \in [Jtis -> {"no", "out", "short", "lost"}]
             /\ \A j \in Jtis : expiry[j] = 0 =>
                   /\ sessions'[j] = NoRecord /\ cli'.sessions[j] = NoRecord
                   /\ revoked'[j] = 0 /\ cli'.revoked[j] = 0 /\ ended'[j] = "no"
             /\ \A j \in cli'.todo : expiry[j] > 0
  BY <1>2 DEF SessionsInv, SessionsTypeOK, KnownInv
<1> USE DEF SessionsInv, SessionsTypeOK, KnownInv, rows
<1>3. CASE CliLoads
  <2>1. Mine(sessions, Target) \in SUBSET Jtis
    BY DEF Mine
  <2>2. \A j \in Mine(sessions, Target) : expiry[j] > 0
    BY DEF Mine
  <2>3. cli' = [NoRun EXCEPT !.at = "next", !.sessions = sessions, !.todo = Mine(sessions, Target)]
    BY <1>3 DEF CliLoads
  <2>4. /\ cli'.sessions = sessions /\ cli'.todo = Mine(sessions, Target)
        /\ cli'.revoked = NoRun.revoked /\ cli' \in Run
    BY <1>1, <2>1, <2>3
  <2> QED
    BY <1>1, <1>3, <2>2, <2>4 DEF CliLoads
<1>4. CASE CliReadsRevoked
  <2>1. /\ cli'.sessions = cli.sessions /\ cli'.todo = cli.todo
        /\ cli'.revoked = revoked /\ cli' \in Run
    BY <1>4 DEF CliReadsRevoked
  <2> QED
    BY <1>4, <2>1 DEF CliReadsRevoked
<1>5. CASE CliRevokes
  <2>1. PICK j \in cli.todo :
          /\ revoked' = Revoked(cli.revoked, j)
          /\ cli' = [cli EXCEPT !.at = "next", !.revoked = NoRun.revoked, !.todo = @ \ {j},
                                !.sessions = Without(@, {j})]
          /\ ended' = [i \in Jtis |->
                IF i = j THEN Promise(i)
                ELSE IF revoked[i] > tick /\ cli.revoked[i] # revoked[i] THEN "lost" ELSE ended[i]]
    BY <1>5 DEF CliRevokes
  <2>2. j \in Jtis /\ expiry[j] > 0 /\ tick \in Nat
    BY DEF SessionsConstants, SessionSettingsAssumption
  <2>3. revoked' \in [Jtis -> Nat] /\ Without(cli.sessions, {j}) \in Maps
    <3>1. /\ {j} \in SUBSET Jtis
          /\ cli.sessions \in Maps /\ cli.revoked \in [Jtis -> Nat]
      BY <2>2
    <3> HIDE DEF SessionsInv, SessionsTypeOK
    <3> QED
      BY <2>1, <2>2, <3>1, MapTypes DEF SessionsInv
  <2>4. /\ cli'.sessions = Without(cli.sessions, {j}) /\ cli'.todo = cli.todo \ {j}
        /\ cli'.revoked = NoRun.revoked /\ cli' \in Run
    BY <1>1, <2>1, <2>3
  <2>5. ended' \in [Jtis -> {"no", "out", "short", "lost"}]
    BY <2>1 DEF Promise
  <2>6. ASSUME NEW i \in Jtis, expiry[i] = 0
        PROVE  /\ i # j /\ cli'.sessions[i] = NoRecord
               /\ ended'[i] = "no" /\ revoked'[i] = 0
    <3>1. i # j
      BY <2>2, <2>6
    <3>2. cli'.sessions[i] = NoRecord
      BY <2>4, <2>6 DEF Without
    <3>3. ended'[i] = "no"
      BY <2>1, <2>2, <2>6, <3>1
    <3>4. revoked'[i] = 0
      BY <2>1, <2>2, <2>6, <3>1 DEF Revoked, Pruned
    <3> QED
      BY <3>1, <3>2, <3>3, <3>4
  <2> QED
    BY <1>1, <1>5, <2>3, <2>4, <2>5, <2>6, SMTT(30) DEF CliRevokes
<1>6. CASE CliPersists
  BY <1>1, <1>6 DEF CliPersists
<1>7. CASE CliDies
  BY <1>1, <1>7 DEF CliDies
<1> QED
  BY <1>3, <1>4, <1>5, <1>6, <1>7 DEF Cli

\* The server's steps leave alone what the CLI has read.
LEMMA ServerRun ==
    ASSUME SessionsConstants, SessionsTypeOK, ServerStep
    PROVE  /\ cli' \in [at : {"idle", "next", "revoke"}, sessions : Maps,
                        revoked : [Jtis -> Nat], todo : SUBSET Jtis, during : 0..MaxDuring]
           /\ cli'.sessions = cli.sessions /\ cli'.revoked = cli.revoked /\ cli'.todo = cli.todo
<1> USE DEF SessionsTypeOK, SessionsConstants, SessionSettingsAssumption
<1>1. CASE cli' = cli
  BY <1>1
<1>2. CASE cli.during < MaxDuring /\ cli' = [cli EXCEPT !.during = @ + 1]
  <2>1. cli.during \in 0..MaxDuring
    OBVIOUS
  <2>2. cli.during + 1 \in 0..MaxDuring
    BY <1>2, <2>1
  <2> QED
    BY <1>2, <2>2
<1> QED
  BY <1>1, <1>2 DEF ServerStep

\* Every step keeps the types, and knows nothing of tokens that were never made.
LEMMA KnownStep ==
    ASSUME SessionsConstants, SessionsInv, [SessionsNext]_sessionVars
    PROVE  SessionsTypeOK' /\ KnownInv'
<1>1. /\ tick \in Nat /\ MaxTicks \in Nat /\ config.maxAge \in Nat \ {0}
      /\ \A j \in Jtis : Promise(j) \in {"out", "short"}
  <2>1. config.maxAge \in MaxAges /\ MaxAges \subseteq Nat \ {0}
    BY DEF SessionsInv, SessionsTypeOK, SessionsConstants, SessionSettingsAssumption
  <2>2. tick \in Nat /\ MaxTicks \in Nat
    BY DEF SessionsInv, SessionsTypeOK, SessionsConstants, SessionSettingsAssumption
  <2>3. config.maxAge \in Nat \ {0}
    BY <2>1
  <2>4. \A j \in Jtis : Promise(j) \in {"out", "short"}
    BY DEF Promise
  <2> QED
    BY <2>2, <2>3, <2>4
<1>2. /\ NoReply \in [jti : Jtis \cup {NoRecord}, code : {"none"}]
  BY DEF NoReply
<1>3. /\ \A map \in Maps, s \in SUBSET Jtis :
           Fresh(map) \in Maps /\ Without(map, s) \in Maps
      /\ \A map \in [Jtis -> Nat] : Pruned(map) \in [Jtis -> Nat]
      /\ \A map \in [Jtis -> Nat], j \in Jtis : Revoked(map, j) \in [Jtis -> Nat]
  BY MapTypes DEF SessionsInv
<1>4. /\ \A map \in Maps, j \in Jtis : map[j] = NoRecord => Fresh(map)[j] = NoRecord
      /\ \A map \in Maps, s \in SUBSET Jtis, j \in Jtis :
           map[j] = NoRecord => Without(map, s)[j] = NoRecord
      /\ \A map \in [Jtis -> Nat], j \in Jtis : map[j] = 0 => Pruned(map)[j] = 0
      /\ \A map \in [Jtis -> Nat], i, j \in Jtis : map[j] = 0 /\ i # j => Revoked(map, i)[j] = 0
  BY DEF Fresh, Without, Pruned, Revoked
<1>5. ServerStep =>
        /\ cli' \in [at : {"idle", "next", "revoke"}, sessions : Maps,
                     revoked : [Jtis -> Nat], todo : SUBSET Jtis, during : 0..MaxDuring]
        /\ cli'.sessions = cli.sessions /\ cli'.revoked = cli.revoked /\ cli'.todo = cli.todo
  BY ServerRun DEF SessionsInv
<1>6. ASSUME NEW j \in Jtis, NEW place \in Places, Open(j, place)
      PROVE  SessionsTypeOK' /\ KnownInv'
  <2> USE DEF SessionsInv, SessionsTypeOK, KnownInv, rows
  <2>1. /\ expiry' \in [Jtis -> Nat] /\ expiry'[j] > 0
        /\ \A i \in Jtis : i # j => expiry'[i] = expiry[i]
    BY <1>1, <1>6 DEF Open
  <2>2. PICK drop \in SUBSET Jtis :
          sessions' = [Without(Fresh(sessions), drop) EXCEPT ![j] =
             [created |-> tick, seen |-> tick, binding |-> IF config.bind THEN place ELSE Unbound]]
    BY <1>6 DEF Open, Dropped, Mine
  <2>3. Fresh(sessions) \in Maps /\ Without(Fresh(sessions), drop) \in Maps
    BY <1>3
  <2>4. [created |-> tick, seen |-> tick, binding |-> IF config.bind THEN place ELSE Unbound]
           \in Record
    BY DEF Record
  <2>5. sessions' \in Maps
    BY <2>2, <2>3, <2>4 DEF Maps
  <2>6. \A i \in Jtis : i # j /\ sessions[i] = NoRecord => sessions'[i] = NoRecord
    <3>1. ASSUME NEW i \in Jtis, i # j, sessions[i] = NoRecord PROVE sessions'[i] = NoRecord
      <4>1. Without(Fresh(sessions), drop)[i] = NoRecord
        BY <1>4, <2>3, <3>1
      <4> QED
        BY <2>2, <2>3, <3>1, <4>1 DEF Maps
    <3> QED
      BY <3>1
  <2>7. SessionsTypeOK'
    BY <1>2, <1>5, <1>6, <2>1, <2>5 DEF Open
  <2>8. KnownInv'
    BY <1>5, <1>6, <2>1, <2>6 DEF Open
  <2> QED
    BY <2>7, <2>8
<1>7. ASSUME NEW j \in Jtis, NEW place \in Places, Use(j, place)
      PROVE  SessionsTypeOK' /\ KnownInv'
  <2>1. /\ sessions' \in Maps
        /\ \A i \in Jtis : sessions[i] = NoRecord => sessions'[i] = NoRecord
        /\ reply' \in [jti : {j}, code : TouchCodes]
    BY <1>7, TouchStep DEF Use, SessionsInv
  <2> USE DEF SessionsInv, SessionsTypeOK, KnownInv, rows
  <2>2. SessionsTypeOK'
    BY <1>5, <1>7, <2>1 DEF Use, TouchCodes
  <2>3. KnownInv'
    BY <1>5, <1>7, <2>1 DEF Use, TouchCodes
  <2> QED
    BY <2>2, <2>3
<1>8. ASSUME NEW j \in Jtis, NEW place \in Places, Logout(j, place)
      PROVE  SessionsTypeOK' /\ KnownInv'
  <2> USE DEF SessionsInv, SessionsTypeOK, KnownInv, rows
  <2>1. expiry[j] > 0
    BY <1>1, <1>8 DEF Logout, Passes, Good
  <2>2. {j} \in SUBSET Jtis
    OBVIOUS
  <2>3. SessionsTypeOK'
    BY <1>1, <1>2, <1>3, <1>5, <1>8, <2>2 DEF Logout
  <2>4. KnownInv'
    BY <1>4, <1>5, <1>8, <2>1, <2>2 DEF Logout
  <2> QED
    BY <2>3, <2>4
<1>9. ASSUME NEW j \in Jtis, NEW place \in Places, RevokeAll(j, place)
      PROVE  SessionsTypeOK' /\ KnownInv'
  <2> USE DEF SessionsInv, SessionsTypeOK, KnownInv, rows
  <2>1. PICK mine \in SUBSET Jtis : mine = Mine(sessions, Owner[j])
    BY DEF Mine
  <2>2. \A i \in mine : expiry[i] > 0
    BY <2>1 DEF Mine
  <2>3. revoked' = [i \in Jtis |-> IF i \in mine THEN tick + config.maxAge ELSE Pruned(revoked)[i]]
    BY <1>9, <2>1 DEF RevokeAll
  <2>4. ended' = [i \in Jtis |-> IF i \in mine THEN Promise(i) ELSE ended[i]]
    BY <1>9, <2>1 DEF RevokeAll
  <2>5. sessions' = Without(sessions, mine) /\ sessions' \in Maps
    BY <1>3, <1>9, <2>1 DEF RevokeAll
  <2>6. revoked' \in [Jtis -> Nat] /\ ended' \in [Jtis -> {"no", "out", "short", "lost"}]
    BY <1>1, <1>3, <2>3, <2>4
  <2>7. \A i \in Jtis : expiry[i] = 0 => revoked'[i] = 0 /\ ended'[i] = "no"
    BY <1>4, <2>2, <2>3, <2>4
  <2>8. SessionsTypeOK'
    BY <1>2, <1>3, <1>5, <1>9, <2>5, <2>6 DEF RevokeAll
  <2>9. KnownInv'
    BY <1>4, <1>5, <1>9, <2>5, <2>7 DEF RevokeAll
  <2> QED
    BY <2>8, <2>9
<1>10. ASSUME List PROVE SessionsTypeOK' /\ KnownInv'
  <2> USE DEF SessionsInv, SessionsTypeOK, KnownInv, rows
  <2>1. SessionsTypeOK'
    BY <1>2, <1>3, <1>5, <1>10 DEF List
  <2>2. KnownInv'
    BY <1>4, <1>5, <1>10 DEF List
  <2> QED
    BY <2>1, <2>2
<1>11. ASSUME Configure PROVE SessionsTypeOK' /\ KnownInv'
  BY <1>2, <1>5, <1>11 DEF Configure, SessionsInv, SessionsTypeOK, KnownInv, rows
<1>12. ASSUME HalfMinute PROVE SessionsTypeOK' /\ KnownInv'
  <2> USE DEF SessionsInv, SessionsTypeOK, KnownInv, rows
  <2>1. SessionsTypeOK'
    BY <1>1, <1>2, <1>12 DEF HalfMinute
  <2>2. KnownInv'
    BY <1>12 DEF HalfMinute
  <2> QED
    BY <2>1, <2>2
<1>13. ASSUME UNCHANGED sessionVars PROVE SessionsTypeOK' /\ KnownInv'
  BY <1>13 DEF sessionVars, SessionsInv, SessionsTypeOK, KnownInv, rows
<1> QED
  BY <1>6, <1>7, <1>8, <1>9, <1>10, <1>11, <1>12, <1>13, CliStep DEF SessionsNext

\* A sign-out on record is taken off it only by a CLI that had read the list before, or
\* when the token has expired.
LEMMA RevocationsStep ==
    ASSUME SessionsConstants, SessionsInv, [SessionsNext]_sessionVars
    PROVE  RevocationsInv'
<1> USE DEF SessionsInv, SessionsTypeOK, KnownInv, RevocationsInv, rows
<1>1. tick \in Nat /\ config.maxAge \in Nat
  <2>1. config.maxAge \in MaxAges /\ MaxAges \subseteq Nat \ {0} /\ tick \in Nat
    BY DEF SessionsConstants, SessionSettingsAssumption
  <2> HIDE DEF SessionsInv
  <2> QED
    BY <2>1
<1>2. \A j \in Jtis : Promise(j) = "out" => tick + config.maxAge >= expiry[j]
  BY <1>1 DEF Promise
<1>3. \A j \in Jtis : ended[j] = "out" /\ tick < expiry[j] => Pruned(revoked)[j] >= expiry[j]
  BY <1>1 DEF Pruned
<1>4. ASSUME NEW j \in Jtis, NEW place \in Places, Open(j, place) PROVE RevocationsInv'
  BY <1>4 DEF Open
<1>5. ASSUME NEW j \in Jtis, NEW place \in Places, Use(j, place) PROVE RevocationsInv'
  BY <1>5 DEF Use
<1>6. ASSUME NEW j \in Jtis, NEW place \in Places, Logout(j, place) PROVE RevocationsInv'
  <2>1. \A i \in Jtis : revoked'[i] = IF i = j THEN tick + config.maxAge ELSE Pruned(revoked)[i]
    BY <1>6 DEF Logout, Revoked, Pruned
  <2> QED
    BY <1>2, <1>3, <1>6, <2>1 DEF Logout
<1>7. ASSUME NEW j \in Jtis, NEW place \in Places, RevokeAll(j, place) PROVE RevocationsInv'
  <2>1. PICK mine \in SUBSET Jtis : mine = Mine(sessions, Owner[j])
    BY DEF Mine
  <2>2. \A i \in Jtis :
           /\ revoked'[i] = IF i \in mine THEN tick + config.maxAge ELSE Pruned(revoked)[i]
           /\ ended'[i] = IF i \in mine THEN Promise(i) ELSE ended[i]
    BY <1>7, <2>1 DEF RevokeAll
  <2> QED
    BY <1>2, <1>3, <1>7, <2>2 DEF RevokeAll
<1>8. ASSUME List \/ Configure \/ UNCHANGED sessionVars PROVE RevocationsInv'
  BY <1>8 DEF List, Configure, sessionVars
<1>9. ASSUME HalfMinute PROVE RevocationsInv'
  BY <1>1, <1>9 DEF HalfMinute
<1>10. ASSUME CliRevokes PROVE RevocationsInv'
  <2>1. PICK j \in cli.todo :
          /\ revoked' = Revoked(cli.revoked, j)
          /\ ended' = [i \in Jtis |->
                IF i = j THEN Promise(i)
                ELSE IF revoked[i] > tick /\ cli.revoked[i] # revoked[i] THEN "lost" ELSE ended[i]]
    BY <1>10 DEF CliRevokes
  <2>2. /\ revoked'[j] = tick + config.maxAge
        /\ \A i \in Jtis : i # j => revoked'[i] = Pruned(cli.revoked)[i]
    BY <2>1 DEF Revoked, Pruned
  <2>3. expiry' = expiry /\ tick' = tick
    BY <1>10 DEF CliRevokes
  <2>4. ended'[j] = "out" /\ tick < expiry[j] => revoked'[j] >= expiry[j]
    BY <1>2, <2>1, <2>2
  <2>5. ASSUME NEW i \in Jtis, i # j, ended'[i] = "out", tick < expiry[i]
        PROVE  revoked'[i] >= expiry[i]
    <3>1. ended[i] = "out" /\ ~(revoked[i] > tick /\ cli.revoked[i] # revoked[i])
      BY <2>1, <2>5
    <3>2. revoked[i] >= expiry[i] /\ revoked[i] > tick /\ cli.revoked[i] = revoked[i]
      BY <1>1, <2>5, <3>1
    <3> QED
      BY <2>2, <2>5, <3>2 DEF Pruned
  <2> QED
    BY <2>3, <2>4, <2>5
<1>11. ASSUME CliLoads \/ CliReadsRevoked \/ CliPersists \/ CliDies PROVE RevocationsInv'
  BY <1>11 DEF CliLoads, CliReadsRevoked, CliPersists, CliDies
<1> QED
  BY <1>4, <1>5, <1>6, <1>7, <1>8, <1>9, <1>10, <1>11 DEF SessionsNext, Cli

\* A session that is served has not been signed out for good.
LEMMA ServedStep ==
    ASSUME SessionsConstants, SessionsInv, [SessionsNext]_sessionVars
    PROVE  SignedOutStaysOut'
<1>1. NoReply.code # "ok"
  BY DEF NoReply
<1>2. ASSUME NEW j \in Jtis, NEW place \in Places, Use(j, place) PROVE SignedOutStaysOut'
  <2>1. /\ reply' \in [jti : {j}, code : TouchCodes]
        /\ reply'.code = "ok" => ~IsRevoked(j)
    BY <1>2, TouchStep DEF Use, SessionsInv
  <2>2. tick < expiry[j] /\ ended' = ended /\ tick \in Nat
    BY <1>2 DEF Use, Good, SessionsConstants, SessionSettingsAssumption, SessionsInv, SessionsTypeOK
  <2>3. reply'.code = "ok" => ended[j] # "out"
    BY <2>1, <2>2 DEF SessionsInv, SessionsTypeOK, RevocationsInv, IsRevoked
  <2>4. reply'.jti = j /\ ended[j] \in {"no", "out", "short", "lost"}
    BY <2>1 DEF SessionsInv, SessionsTypeOK
  <2> QED
    BY <2>2, <2>3, <2>4 DEF SignedOutStaysOut
<1>3. ASSUME NEW j \in Jtis, NEW place \in Places,
             Open(j, place) \/ Logout(j, place) \/ RevokeAll(j, place)
      PROVE  SignedOutStaysOut'
  BY <1>1, <1>3 DEF Open, Logout, RevokeAll, SignedOutStaysOut
<1>4. ASSUME List \/ Configure \/ Cli \/ HalfMinute PROVE SignedOutStaysOut'
  BY <1>1, <1>4 DEF List, Configure, Cli, HalfMinute, SignedOutStaysOut
<1>5. ASSUME UNCHANGED sessionVars PROVE SignedOutStaysOut'
  BY <1>5 DEF sessionVars, SignedOutStaysOut, SessionsInv
<1> QED
  BY <1>2, <1>3, <1>4, <1>5 DEF SessionsNext

(***************************************************************************)
(* Who has signed out stays out, for any number of tokens, users and       *)
(* places, any settings and any run of `catwaf user passwd` beside the     *)
(* server: Sessions' SignedOutStaysOut.                                    *)
(***************************************************************************)
THEOREM SignedOutForGood ==
    ASSUME SessionsConstants
    PROVE  SessionsSpec => [](SessionsTypeOK /\ SignedOutStaysOut)
<1>1. SessionsInit => SessionsInv
  <2> SUFFICES ASSUME SessionsInit PROVE SessionsInv
    OBVIOUS
  <2> USE DEF SessionsInit
  <2>1. /\ NoRun.at = "idle" /\ NoRun.todo = {}
        /\ \A j \in Jtis : NoRun.sessions[j] = NoRecord /\ NoRun.revoked[j] = 0
        /\ NoRun \in [at : {"idle", "next", "revoke"}, sessions : Maps,
                      revoked : [Jtis -> Nat], todo : SUBSET Jtis, during : 0..MaxDuring]
    BY DEF NoRun, Maps, SessionsConstants, SessionSettingsAssumption
  <2>2. /\ NoReply.code # "ok"
        /\ NoReply \in [jti : Jtis \cup {NoRecord}, code : {"none"}]
    BY DEF NoReply
  <2>3. SessionsTypeOK
    BY <2>1, <2>2 DEF SessionsTypeOK, Maps, SessionsConstants, SessionSettingsAssumption
  <2>4. KnownInv
    BY <2>1 DEF KnownInv
  <2>5. RevocationsInv
    BY DEF RevocationsInv
  <2>6. SignedOutStaysOut
    BY <2>2 DEF SignedOutStaysOut
  <2> QED
    BY <2>3, <2>4, <2>5, <2>6 DEF SessionsInv
<1>2. SessionsInv /\ [SessionsNext]_sessionVars => SessionsInv'
  BY KnownStep, RevocationsStep, ServedStep DEF SessionsInv
<1>3. SessionsInv => SessionsTypeOK /\ SignedOutStaysOut
  BY DEF SessionsInv
<1> QED
  BY <1>1, <1>2, <1>3, PTL DEF SessionsSpec

=============================================================================
