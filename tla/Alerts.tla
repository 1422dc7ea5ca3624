------------------------------- MODULE Alerts -------------------------------
(***************************************************************************)
(* Alert delivery: alertDispatch.fire().  One row of the database maps each*)
(* kind of alert to when it was last claimed.  A claim reads and writes the*)
(* row under the configuration lock, the delivery to the channels is       *)
(* awaited, and if every channel fails the claim is refunded: the row is   *)
(* read, the kind deleted and the row written, without the lock.           *)
(*                                                                         *)
(* Times are ages, counted up to the cooldown.  A delivery is 8 s for each *)
(* of up to four channels and for each hop they redirect to, so it may     *)
(* outlast a cooldown of a minute.                                         *)
(***************************************************************************)
EXTENDS Naturals, FiniteSets

CONSTANTS
    Senders,        \* the processes
    Kinds,          \* of alerts
    Gap,            \* the cooldown
    Longest,        \* of deliveries
    Never,          \* no claim, nothing being sent
    MaxEnds         \* bound: processes that end

AlertsAssumption ==
    /\ Gap \in Nat \ {0} /\ Longest \in Nat /\ Never \notin Nat /\ MaxEnds \in Nat

VARIABLES
    claims,         \* alert_dispatch_state: kind -> age of its claim
    sending,        \* process -> kind -> age of the delivery it awaits
    busy,           \* process -> what it does with the row
    ends,
    heard,          \* history: kind -> age of the last claim not known to have failed
    dropped         \* history: the kinds whose last claim another refund took

alertVars == <<claims, sending, busy, ends, heard, dropped>>

Ages == 0..Gap
Map == [Kinds -> Ages \cup {Never}]
Free == [at |-> "free"]

AlertsTypeOK ==
    /\ claims \in Map /\ dropped \subseteq Kinds /\ ends \in 0..MaxEnds
    /\ sending \in [Senders -> [Kinds -> 0..Longest \cup {Never}]]
    /\ busy \in [Senders -> {Free} \cup [at : {"claim", "refund"}, kind : Kinds, read : Map]]
    /\ heard \in [Kinds -> Ages]

-----------------------------------------------------------------------------
Claiming == {p \in Senders : busy[p].at = "claim"}

\* fire(), claimCooldown(): the lock is had, the row is read, and the cooldown is over.
Claim(p, k) ==
    /\ busy[p] = Free /\ sending[p][k] = Never
    /\ Claiming = {} /\ claims[k] \in {Never, Gap}
    /\ busy' = [busy EXCEPT ![p] = [at |-> "claim", kind |-> k, read |-> claims]]
    /\ UNCHANGED <<claims, sending, ends, heard, dropped>>

\* The claim is written, and the delivery begins.
Send(p, k) ==
    /\ p \in Claiming /\ busy[p].kind = k
    /\ claims' = [busy[p].read EXCEPT ![k] = 0]
    /\ sending' = [sending EXCEPT ![p][k] = 0]
    /\ busy' = [busy EXCEPT ![p] = Free]
    /\ heard' = [heard EXCEPT ![k] = 0] /\ dropped' = dropped \ {k}
    /\ UNCHANGED ends

\* Some channel has taken it.
Delivered(p, k) ==
    /\ busy[p] = Free /\ sending[p][k] # Never
    /\ sending' = [sending EXCEPT ![p][k] = Never]
    /\ UNCHANGED <<claims, busy, ends, heard, dropped>>

\* Every channel has failed: refundCooldown() reads the row.
Failed(p, k) ==
    /\ busy[p] = Free /\ sending[p][k] # Never
    /\ busy' = [busy EXCEPT ![p] = [at |-> "refund", kind |-> k, read |-> claims]]
    /\ UNCHANGED <<claims, sending, ends, heard, dropped>>

\* The delivery that p has lost is the last of its kind.
Own(p, k) == busy[p].kind = k /\ heard[k] = sending[p][k]

\* And writes it.
Refund(p, k) ==
    LET row == [busy[p].read EXCEPT ![k] = Never]
    IN  /\ busy[p].at = "refund" /\ busy[p].kind = k
        /\ claims' = row
        /\ sending' = [sending EXCEPT ![p][k] = Never]
        /\ busy' = [busy EXCEPT ![p] = Free]
        /\ heard' = IF Own(p, k) THEN [heard EXCEPT ![k] = Gap] ELSE heard
        /\ dropped' = dropped \cup {j \in Kinds : row[j] # claims[j] /\ ~Own(p, j)}
        /\ UNCHANGED ends

\* The process ends: the CLI does when its command has, with deliveries under way.
End(p) ==
    /\ ends < MaxEnds /\ ends' = ends + 1
    /\ busy[p] # Free \/ \E k \in Kinds : sending[p][k] # Never
    /\ sending' = [sending EXCEPT ![p] = [k \in Kinds |-> Never]]
    /\ busy' = [busy EXCEPT ![p] = Free]
    /\ UNCHANGED <<claims, heard, dropped>>

Older(age) == IF age \in 0..Gap - 1 THEN age + 1 ELSE age

\* Time passes, not while the row is being read and written.
Pass ==
    /\ \A p \in Senders : busy[p] = Free
    /\ \A p \in Senders, k \in Kinds : sending[p][k] # Longest
    /\ claims' = [k \in Kinds |-> Older(claims[k])]
    /\ heard' = [k \in Kinds |-> Older(heard[k])]
    /\ sending' = [p \in Senders |-> [k \in Kinds |->
                     IF sending[p][k] = Never THEN Never ELSE sending[p][k] + 1]]
    /\ claims # claims' \/ sending # sending'
    /\ UNCHANGED <<busy, ends, dropped>>

AlertsInit ==
    /\ claims = [k \in Kinds |-> Never]
    /\ sending = [p \in Senders |-> [k \in Kinds |-> Never]]
    /\ busy = [p \in Senders |-> Free]
    /\ ends = 0 /\ heard = [k \in Kinds |-> Gap] /\ dropped = {}

AlertsNext ==
    \/ \E p \in Senders, k \in Kinds :
          Claim(p, k) \/ Send(p, k) \/ Delivered(p, k) \/ Failed(p, k) \/ Refund(p, k)
    \/ \E p \in Senders : End(p)
    \/ Pass

AlertsSpec == AlertsInit /\ [][AlertsNext]_alertVars

-----------------------------------------------------------------------------
(***************************************************************************)
(* "An ongoing attack produces one alert, not four thousand": whichever    *)
(* process sees it, an alert is sent only if the cooldown has passed since *)
(* the last of its kind that may have been heard, unless the refund of     *)
(* another alert took that one's claim.                                    *)
(***************************************************************************)
OneAlertPerCooldown ==
    [][\A k \in Kinds : (\E p \in Senders : sending[p][k] = Never /\ sending'[p][k] = 0)
                            => heard[k] = Gap \/ k \in dropped]_alertVars

=============================================================================
