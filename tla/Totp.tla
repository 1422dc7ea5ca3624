-------------------------------- MODULE Totp --------------------------------
(***************************************************************************)
(* The second factor of a login: totp.js with its callers, the routes of   *)
(* the API server and `catwaf 2fa`.  The row `totp` maps each user to the  *)
(* entry of its enrollment.  Every operation reads the whole row and, if it*)
(* changes an entry, writes it back whole; one process does so without a   *)
(* pause, but nothing keeps the other one out.                             *)
(*                                                                         *)
(* A code belongs to a step of 30 seconds and to a secret; HMAC, base32 and*)
(* sealing are left out, and so are codes that are wrong and operations    *)
(* that are refused: they change nothing.  Secrets and sets of recovery    *)
(* codes are numbered as they are made.  A code is checked at one reading  *)
(* of the clock and counted at a second one.                               *)
(***************************************************************************)
EXTENDS Integers, FiniteSets

CONSTANTS
    Users,
    Server, Console,        \* the two processes
    RECOVERY_CODE_COUNT,
    NotEnrolled,
    MaxFresh,               \* bound: secrets and sets of recovery codes
    MaxStep                 \* bound: the clock, which starts at 2

TotpAssumption ==
    /\ Server # Console /\ RECOVERY_CODE_COUNT \in Nat
    /\ MaxFresh \in Nat /\ MaxStep \in Nat /\ MaxStep > 1

VARIABLES
    factors,    \* the row: user -> entry
    step,       \* Date.now() / 1000 / PERIOD
    doing,      \* process -> the operation it is in
    fresh,      \* secrets and sets of codes that were made
    accepted,   \* history: the codes that have let somebody in or confirmed
    rewound,    \* history: users whose entry was written back from an older reading
    reused      \* history: a code worked that had worked before, for no such reason

totpVars == <<factors, step, doing, fresh, accepted, rewound, reused>>

Processes == {Server, Console}
DEFAULT_WINDOW == 1
Numbers == 1..MaxFresh
StepCode == [secret : Numbers, step : 1..MaxStep + DEFAULT_WINDOW]
RecoveryCode == [set : Numbers, i : 1..RECOVERY_CODE_COUNT]
NoCode == [none |-> TRUE]

\* A `last` of 0 is no last_counter.
Entry == [secret : Numbers, enabled : BOOLEAN, last : 0..MaxStep + DEFAULT_WINDOW + 1,
          recovery : SUBSET RecoveryCode]
Row == [Users -> Entry \cup {NotEnrolled}]
Asking == {"login", "enroll"}
Ops == {"login", "enroll", "confirm", "disable", "codes"}
Idle == [at |-> "idle"]

TotpTypeOK ==
    /\ factors \in Row /\ step \in 2..MaxStep /\ fresh \in 0..MaxFresh
    /\ DOMAIN doing = Processes
    /\ \A p \in Processes : \/ doing[p] = Idle
                            \/ doing[p] \in [at : {"asked"}, op : Asking, user : Users]
                            \/ doing[p] \in [at : {"read"}, op : Ops, user : Users, row : Row,
                                             step : 2..MaxStep,
                                             code : StepCode \cup RecoveryCode \cup {NoCode}]
    /\ accepted \subseteq Users \X (StepCode \cup RecoveryCode)
    /\ rewound \subseteq Users /\ reused \in BOOLEAN

-----------------------------------------------------------------------------
Enrolled(row, u) == row[u] # NotEnrolled
IsEnabled(row, u) == Enrolled(row, u) /\ row[u].enabled

\* generateRecoveryCodes()
NewCodes == [set : {fresh + 1}, i : 1..RECOVERY_CODE_COUNT]

\* verifyCode(): one step either side of the clock.
Matches(entry, code) ==
    \/ /\ code \in StepCode /\ code.secret = entry.secret
       /\ code.step - step \in -DEFAULT_WINDOW..DEFAULT_WINDOW
    \/ entry.enabled /\ code \in entry.recovery

\* Wrong variant: the drift of the code is left out.
CounterOfNow(w) == step

\* The counter that is remembered: the clock, read again, and the drift of the code.
Counter(w) == step + (w.code.step - w.step)

-----------------------------------------------------------------------------
\* What the caller has asked before: a login, after bcrypt, and both enrollments look for
\* an enabled entry.  Only the server logs anybody in.
Ask(p, op, u) ==
    /\ doing[p] = Idle
    /\ op = "login" => p = Server /\ IsEnabled(factors, u)
    /\ op = "enroll" => ~IsEnabled(factors, u) /\ fresh < MaxFresh
    /\ doing' = [doing EXCEPT ![p] = [at |-> "asked", op |-> op, user |-> u]]
    /\ UNCHANGED <<factors, step, fresh, accepted, rewound, reused>>

Codes(u) ==
    {NoCode} \cup IF Enrolled(factors, u)
                  THEN factors[u].recovery \cup [secret : {factors[u].secret}, step : step-1..step+1]
                  ELSE {}

\* What each operation looks for in the row.
MayGoOn(op, u, code) ==
    CASE op = "login"   -> IsEnabled(factors, u) /\ Matches(factors[u], code)
      [] op = "confirm" -> /\ Enrolled(factors, u) /\ ~factors[u].enabled
                           /\ Matches(factors[u], code) /\ fresh < MaxFresh
      [] op = "disable" -> Enrolled(factors, u) /\ code = NoCode
      [] op = "codes"   -> IsEnabled(factors, u) /\ code = NoCode /\ fresh < MaxFresh
      [] op = "enroll"  -> code = NoCode /\ fresh < MaxFresh

\* The operation reads the row for itself, and the clock.
Read(p, op, u) ==
    /\ doing[p] = IF op \in Asking THEN [at |-> "asked", op |-> op, user |-> u] ELSE Idle
    /\ \E code \in Codes(u) :
         /\ MayGoOn(op, u, code)
         /\ doing' = [doing EXCEPT ![p] = [at |-> "read", op |-> op, user |-> u,
                                           row |-> factors, step |-> step, code |-> code]]
    /\ UNCHANGED <<factors, step, fresh, accepted, rewound, reused>>

\* It has asked and cannot go on, or is refused: it returns.
Return(p) ==
    /\ doing[p].at = "asked"
    /\ doing' = [doing EXCEPT ![p] = Idle]
    /\ UNCHANGED <<factors, step, fresh, accepted, rewound, reused>>

\* saveStore(): the entry of u changed, the others as they were read.
Save(p, entry) ==
    LET w == doing[p]
        row == [w.row EXCEPT ![w.user] = entry]
    IN  /\ factors' = row
        /\ rewound' = rewound \cup {u \in Users : factors[u] # w.row[u]}
        /\ doing' = [doing EXCEPT ![p] = Idle]
        /\ UNCHANGED step

\* A code has worked.
Accept(w) ==
    /\ accepted' = accepted \cup {<<w.user, w.code>>}
    /\ reused' = \/ reused
                 \/ /\ <<w.user, w.code>> \in accepted /\ step = w.step
                    /\ w.user \notin rewound /\ factors[w.user] = w.row[w.user]

\* beginEnrollment()
Enroll(p) ==
    /\ doing[p].at = "read" /\ doing[p].op = "enroll" /\ fresh < MaxFresh
    /\ fresh' = fresh + 1
    /\ Save(p, [secret |-> fresh + 1, enabled |-> FALSE, last |-> 0, recovery |-> {}])
    /\ UNCHANGED <<accepted, reused>>

\* confirmEnrollment()
Confirm(p) ==
    LET w == doing[p] IN
    /\ w.at = "read" /\ w.op = "confirm" /\ fresh < MaxFresh
    /\ fresh' = fresh + 1
    /\ Save(p, [w.row[w.user] EXCEPT !.enabled = TRUE, !.recovery = NewCodes,
                                     !.last = Counter(w)])
    /\ Accept(w)

\* verify(), a recovery code: it is removed.
Recover(p) ==
    LET w == doing[p] IN
    /\ w.at = "read" /\ w.op = "login" /\ w.code \in RecoveryCode
    /\ Save(p, [w.row[w.user] EXCEPT !.recovery = @ \ {w.code}])
    /\ Accept(w) /\ UNCHANGED fresh

\* verify(), a code of the clock: refused unless it is newer than the last one.
Verify(p) ==
    LET w == doing[p] IN
    /\ w.at = "read" /\ w.op = "login" /\ w.code \in StepCode
    /\ \/ /\ Counter(w) > w.row[w.user].last
          /\ Save(p, [w.row[w.user] EXCEPT !.last = Counter(w)])
          /\ Accept(w) /\ UNCHANGED fresh
       \/ /\ Counter(w) <= w.row[w.user].last
          /\ doing' = [doing EXCEPT ![p] = Idle]
          /\ UNCHANGED <<factors, step, fresh, accepted, rewound, reused>>

\* disable()
Disable(p) ==
    /\ doing[p].at = "read" /\ doing[p].op = "disable"
    /\ Save(p, NotEnrolled)
    /\ UNCHANGED <<fresh, accepted, reused>>

\* regenerateRecoveryCodes()
RegenerateRecoveryCodes(p) ==
    LET w == doing[p] IN
    /\ w.at = "read" /\ w.op = "codes" /\ fresh < MaxFresh
    /\ fresh' = fresh + 1
    /\ Save(p, [w.row[w.user] EXCEPT !.recovery = NewCodes])
    /\ UNCHANGED <<accepted, reused>>

\* The next 30 seconds begin.
NextStep ==
    /\ step < MaxStep /\ step' = step + 1
    /\ UNCHANGED <<factors, doing, fresh, accepted, rewound, reused>>

TotpInit ==
    /\ factors = [u \in Users |-> NotEnrolled] /\ step = 2
    /\ doing = [p \in Processes |-> Idle] /\ fresh = 0
    /\ accepted = {} /\ rewound = {} /\ reused = FALSE

TotpNext ==
    \/ \E p \in Processes :
         \/ \E op \in Asking, u \in Users : Ask(p, op, u)
         \/ \E op \in Ops, u \in Users : Read(p, op, u)
         \/ Return(p) \/ Enroll(p) \/ Confirm(p) \/ Recover(p) \/ Verify(p) \/ Disable(p)
         \/ RegenerateRecoveryCodes(p)
    \/ NextStep

TotpSpec == TotpInit /\ [][TotpNext]_totpVars

-----------------------------------------------------------------------------
(***************************************************************************)
(* A code works once: neither the confirming code nor the code of a login  *)
(* nor a recovery code is accepted a second time, unless the entry was     *)
(* written back from a reading that had become stale, or the 30 seconds    *)
(* end between the two readings of the clock.                              *)
(***************************************************************************)
CodesWorkOnce == ~reused

=============================================================================
