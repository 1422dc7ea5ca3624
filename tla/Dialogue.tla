------------------------------ MODULE Dialogue ------------------------------
(***************************************************************************)
(* CatAI: what the dock of the dashboard shows of a question, what the     *)
(* server does about it (routes/catai.js), who may talk to the language    *)
(* model (ollama.js), and how a change is confirmed and undone             *)
(* (actions.js, undo.js, ActionCard.jsx).                                  *)
(*                                                                         *)
(* A question is what the extractor finds in it, an answer is what the     *)
(* patterns of the route find in it: that it claims a change, that it      *)
(* denies one, or neither.  The frames of an answer reach the dock as they *)
(* are sent, until the connection breaks; the server then goes on without  *)
(* anybody to hear it.  The protection is a level and a list: how a change *)
(* is persisted and rendered is in WafConfig.                              *)
(***************************************************************************)
EXTENDS Integers, FiniteSets, FiniteSetsExt, Sequences, SequencesExt

CONSTANTS
    Docks,              \* the dashboards that are open
    Role,               \* dock -> "admin" or "viewer"
    Own,                \* dock -> the address it is used from
    Addresses,
    Levels,             \* paranoia levels, 1..n
    Asked,              \* dock -> the questions asked in it
    MAX_ENTRIES,        \* undo entries kept
    BREAKER_THRESHOLD,
    MaxAsked, MaxOthers, MaxFaults      \* bounds

\* The paranoia level stands for every single value, the list for every list.
Actions == [id : {"paranoia.set"}, level : Levels] \cup [id : {"ip.block", "ip.unblock"}, ip : Addresses]
NoAction == [id |-> "none"]

\* What a user may ask for: an action, an action without its value, or something that the
\* extractor makes nothing of, with or without tools that might fit.
Missing(id) == [id |-> id]
Questions ==
    [found : {"action"}, act : Actions]
    \cup [found : {"incomplete"}, act : {Missing("paranoia.set"), Missing("ip.block"), Missing("ip.unblock")}]
    \cup [found : {"nothing", "tools"}, act : {NoAction}]

DialogueAssumption ==
    /\ \A d \in Docks : Role[d] \in {"admin", "viewer"} /\ Own[d] \in Addresses
    /\ {MAX_ENTRIES, BREAKER_THRESHOLD, MaxAsked} \subseteq Nat \ {0}
    /\ {MaxOthers, MaxFaults} \subseteq Nat /\ Levels = 1..Cardinality(Levels)
    /\ \A d \in Docks : Asked[d] \subseteq Questions

VARIABLES
    waf,                \* the protection: [level, blocked]
    ring,               \* the changes that can be undone, the oldest first
    slot,               \* the turn that talks to Ollama, or 0
    failures, open,     \* the circuit breaker
    turns,              \* every question so far and what the server does about it
    shown,              \* of each question, the answer in its dock
    others, faults,     \* changes by others, and faults so far
    chain               \* history: the changes that have not been undone since somebody
                        \* else changed something, with the protection before each

dialogueVars ==
    <<waf, ring, slot, failures, open, turns, shown, others, faults, chain>>

-----------------------------------------------------------------------------
(* actions.js *)

Field(a) == IF a.id = "paranoia.set" THEN "level" ELSE "blocked"

\* directionOf: a level is judged by the level of the moment.
Weakens(a) == a.id = "ip.unblock" \/ (a.id = "paranoia.set" /\ a.level <= waf.level)

\* validate: nobody blocks the address of their own.
Valid(a, d) ==
    CASE a.id = "paranoia.set" -> a.level # waf.level
      [] a.id = "ip.block" -> a.ip # Own[d]
      [] OTHER -> a.ip \in waf.blocked

Value(a) ==
    CASE a.id = "paranoia.set" -> a.level
      [] a.id = "ip.block" -> waf.blocked \cup {a.ip}
      [] OTHER -> waf.blocked \ {a.ip}

Weaker(w, v) == v.level < w.level \/ ~(w.blocked \subseteq v.blocked)

\* undo.record: the newest entries are kept.
NextId == IF ring = <<>> THEN 1 ELSE Last(ring).id + 1
Record(a) ==
    LET entry == [id |-> NextId, act |-> a, prev |-> waf[Field(a)], undone |-> FALSE]
        all == Append(ring, entry)
    IN  IF Len(all) > MAX_ENTRIES THEN Tail(all) ELSE all

\* apply, and record.
Perform(a) ==
    /\ waf' = [waf EXCEPT ![Field(a)] = Value(a)]
    /\ ring' = Record(a)
    /\ chain' = Append(chain, [id |-> NextId, before |-> waf])

SameProtection == UNCHANGED <<waf, ring, chain>>

-----------------------------------------------------------------------------
(* The dock *)

Words == {"claims", "denies"}
NoOutcome == [kind |-> "none", act |-> NoAction, undo |-> 0]
Outcome(kind, a, id) == [kind |-> kind, act |-> a, undo |-> id]

\* A dock that waits for the end of an answer does not send.
Sending(d) == \E i \in DOMAIN turns : turns[i].dock = d /\ turns[i].heard
Latest(d) == Max({i \in DOMAIN turns : turns[i].dock = d})

\* updateLast: a frame changes the last message of the dock.
UpdateLast(i, patch) ==
    shown' = IF turns[i].heard
             THEN [shown EXCEPT ![Latest(turns[i].dock)] = patch @@ [@ EXCEPT !.from = @ \cup {i}]]
             ELSE shown

Empty(i) == [text |-> {}, streaming |-> TRUE, error |-> FALSE, trail |-> FALSE, card |-> NoOutcome,
          done |-> 0, undone |-> FALSE, dismissed |-> FALSE, lost |-> FALSE, from |-> {i}]
Answered(s) == ~s.streaming /\ ~s.error

\* send()
Ask(d, q) ==
    /\ ~Sending(d) /\ Len(turns) < MaxAsked
    /\ turns' = Append(turns, [dock |-> d, question |-> q, at |-> "asked", outcome |-> NoOutcome,
                               full |-> {}, heard |-> TRUE])
    /\ shown' = Append(shown, Empty(Len(turns) + 1))
    /\ SameProtection /\ UNCHANGED <<slot, failures, open, others, faults>>

Failed == [text |-> {"error"}, error |-> TRUE]

\* The catch of send(): the limits, a disabled CatAI, or no server.
Refuse(i) ==
    /\ turns[i].at = "asked" /\ turns[i].heard
    /\ UpdateLast(i, [streaming |-> FALSE] @@ Failed)
    /\ turns' = [turns EXCEPT ![i].at = "over", ![i].heard = FALSE]
    /\ SameProtection /\ UNCHANGED <<slot, failures, open, others, faults>>

\* The connection breaks; the route does not care.
Break(i) ==
    /\ turns[i].heard /\ faults < MaxFaults /\ faults' = faults + 1
    /\ UpdateLast(i, [streaming |-> FALSE] @@ Failed)
    /\ turns' = [turns EXCEPT ![i].heard = FALSE]
    /\ SameProtection /\ UNCHANGED <<slot, failures, open, others>>

-----------------------------------------------------------------------------
(* The route and the model *)

\* resolveTurn(), once it is known what is asked for: what strengthens the protection is done
\* at once, and the dock told; what weakens it is offered.
Decide(i, a) ==
    LET d == turns[i].dock
        Go(o) == turns' = [turns EXCEPT ![i].at = "look", ![i].outcome = o]
    IN  \/ /\ a = NoAction /\ Go(NoOutcome)
           /\ SameProtection /\ UNCHANGED shown
        \/ /\ a # NoAction /\ ~Valid(a, d) /\ Go(Outcome("error", a, 0))
           /\ SameProtection /\ UNCHANGED shown
        \/ /\ a # NoAction /\ Valid(a, d) /\ Weakens(a) /\ Go(Outcome("offer", a, 0))
           /\ SameProtection /\ UNCHANGED shown
        \/ /\ a # NoAction /\ Valid(a, d) /\ ~Weakens(a) /\ Go(Outcome("applied", a, NextId))
           /\ Perform(a) /\ UpdateLast(i, [trail |-> TRUE])

\* resolveTurn() until its await: a viewer changes nothing, what the extractor has found
\* counts, and otherwise the model may choose a tool if it is free and well.
Resolve(i) ==
    LET t == turns[i]
        asks == t.question.found = "tools" /\ Role[t.dock] = "admin" /\ slot = 0 /\ ~open
    IN  /\ t.at = "asked" /\ UNCHANGED <<failures, open, others, faults>>
        /\ \/ /\ asks /\ slot' = i /\ turns' = [turns EXCEPT ![i].at = "tool"]
              /\ SameProtection /\ UNCHANGED shown
           \/ /\ Role[t.dock] = "admin" /\ t.question.found = "incomplete"
              /\ turns' = [turns EXCEPT ![i].at = "look",
                                        ![i].outcome = Outcome("incomplete", t.question.act, 0)]
              /\ SameProtection /\ UNCHANGED <<shown, slot>>
           \/ /\ ~asks /\ (Role[t.dock] = "admin" => t.question.found # "incomplete")
              /\ Decide(i, IF Role[t.dock] = "admin" THEN t.question.act ELSE NoAction)
              /\ UNCHANGED slot

Succeeds == failures' = 0 /\ open' = FALSE
Fails ==
    /\ failures' = Min({failures + 1, BREAKER_THRESHOLD})
    /\ open' = (open \/ failures + 1 >= BREAKER_THRESHOLD)

\* toolCall(): a proposal, none, or a failure, which is none.
Choose(i, a) ==
    /\ turns[i].at = "tool" /\ slot' = 0
    /\ Succeeds \/ (a = NoAction /\ Fails)
    /\ Decide(i, a)
    /\ UNCHANGED <<others, faults>>

\* The slot is taken, or the breaker open: an error, and nothing about the change.
Write(i) ==
    /\ turns[i].at = "look"
    /\ \/ /\ slot = 0 /\ ~open /\ slot' = i
          /\ turns' = [turns EXCEPT ![i].at = "write"] /\ UNCHANGED shown
       \/ /\ slot # 0 \/ open
          /\ UpdateLast(i, Failed) /\ UNCHANGED slot
          /\ turns' = [turns EXCEPT ![i].at = "over", ![i].heard = FALSE]
    /\ SameProtection /\ UNCHANGED <<failures, open, others, faults>>

Token(i, w) ==
    /\ turns[i].at = "write" /\ turns[i].full = {}
    /\ turns' = [turns EXCEPT ![i].full = w]
    /\ UpdateLast(i, [text |-> w])
    /\ SameProtection /\ UNCHANGED <<slot, failures, open, others, faults>>

\* A claim is corrected unless the change was made or could not be, a denial if it was made.
Corrected(t) ==
    \/ "claims" \in t.full /\ t.outcome.kind \in {"none", "offer", "incomplete"}
    \/ "denies" \in t.full /\ t.outcome.kind = "applied"

\* generateStream() returns: the correction, the card and the end of the answer.
Finish(i) ==
    LET t == turns[i]
        card == IF t.outcome.kind = "error" THEN NoOutcome ELSE t.outcome
    IN  /\ t.at = "write" /\ slot' = 0 /\ Succeeds
        /\ UpdateLast(i, [text |-> IF Corrected(t) THEN {"correction"} ELSE t.full,
                          card |-> card, done |-> card.undo, streaming |-> FALSE])
        /\ turns' = [turns EXCEPT ![i].at = "over", ![i].heard = FALSE]
        /\ SameProtection /\ UNCHANGED <<others, faults>>

\* It throws, or has taken 90 seconds.
GiveUp(i) ==
    /\ turns[i].at = "write" /\ slot' = 0 /\ Fails
    /\ UpdateLast(i, Failed)
    /\ turns' = [turns EXCEPT ![i].at = "over", ![i].heard = FALSE]
    /\ SameProtection /\ UNCHANGED <<others, faults>>

\* The breaker is open for a minute.
Cool ==
    /\ open /\ open' = FALSE
    /\ SameProtection /\ UNCHANGED <<slot, failures, turns, shown, others, faults>>

\* The server starts again between two steps; an answer ends as a stream or as an error.
Restart(broken) ==
    /\ faults < MaxFaults /\ faults' = faults + 1
    /\ slot' = 0 /\ failures' = 0 /\ open' = FALSE
    /\ turns' = [i \in DOMAIN turns |-> [turns[i] EXCEPT !.at = "over", !.heard = FALSE]]
    /\ shown' = [i \in DOMAIN shown |->
                    IF turns[i].heard /\ broken THEN [streaming |-> FALSE] @@ Failed @@ shown[i]
                    ELSE shown[i]]
    /\ SameProtection /\ UNCHANGED others

-----------------------------------------------------------------------------
(* The card *)

\* The answer of a request may be lost; the card can then be used again.
Answer(i, patch, lost) ==
    /\ shown' = [shown EXCEPT ![i] = IF lost THEN [lost |-> TRUE] @@ @ ELSE patch @@ @]
    /\ IF lost THEN faults < MaxFaults /\ faults' = faults + 1 ELSE UNCHANGED faults
    /\ UNCHANGED <<slot, failures, open, turns, others>>

\* /catai/apply: what weakens the protection has to be confirmed.
Allowed(a, confirmed) == Weakens(a) => confirmed

Open(i) == shown[i].card.kind \in {"offer", "incomplete"} /\ shown[i].done = 0 /\ ~shown[i].dismissed

\* confirm(), submitMissing(); a change that is refused leaves the card as it is.
Apply(i, a, lost) ==
    LET d == turns[i].dock
    IN  /\ Open(i) /\ a.id = shown[i].card.act.id
        /\ shown[i].card.kind = "offer" => a = shown[i].card.act
        /\ Role[d] = "admin" /\ Allowed(a, TRUE) /\ Valid(a, d)
        /\ Perform(a)
        /\ Answer(i, [done |-> NextId], lost)

\* A call from anywhere else.
Post(d, a) ==
    /\ others < MaxOthers /\ others' = others + 1
    /\ Role[d] = "admin" /\ Allowed(a, FALSE) /\ Valid(a, d)
    /\ Perform(a)
    /\ UNCHANGED <<slot, failures, open, turns, shown, faults>>

Dismiss(i) ==
    /\ Open(i) /\ shown' = [shown EXCEPT ![i].dismissed = TRUE]
    /\ SameProtection /\ UNCHANGED <<slot, failures, open, turns, others, faults>>

\* markUndone()
MarkUndone(k) == ring' = [ring EXCEPT ![k].undone = TRUE]

\* /catai/undo: unless the entry is gone or has been undone.
Undo(i, lost) ==
    \E k \in DOMAIN ring :
        LET e == ring[k]
        IN  /\ shown[i].done = e.id /\ ~shown[i].undone /\ ~e.undone
            /\ Role[turns[i].dock] = "admin"
            /\ waf' = [waf EXCEPT ![Field(e.act)] = e.prev]
            /\ MarkUndone(k)
            /\ chain' = IF chain # <<>> /\ Last(chain).id = e.id THEN Front(chain) ELSE <<>>
            /\ Answer(i, [undone |-> TRUE], lost)

\* Another page of the dashboard.
Interfere(a) ==
    /\ others < MaxOthers /\ others' = others + 1
    /\ waf' = [waf EXCEPT ![Field(a)] = Value(a)] /\ waf' # waf /\ chain' = <<>>
    /\ UNCHANGED <<ring, slot, failures, open, turns, shown, faults>>

Protections == [level : Levels, blocked : SUBSET Addresses]

DialogueInit ==
    /\ waf \in Protections
    /\ ring = <<>> /\ slot = 0 /\ failures = 0 /\ open = FALSE
    /\ turns = <<>> /\ shown = <<>> /\ others = 0 /\ faults = 0
    /\ chain = <<>>

DialogueNext ==
    \/ \E d \in Docks : \/ \E q \in Asked[d] : Ask(d, q)
                        \/ \E a \in Actions : Post(d, a)
    \/ \E i \in DOMAIN turns :
        \/ Refuse(i) \/ Break(i) \/ Resolve(i) \/ Write(i) \/ Finish(i) \/ GiveUp(i) \/ Dismiss(i)
        \/ \E a \in Actions \cup {NoAction} : Choose(i, a)
        \/ \E w \in SUBSET Words \ {{}} : Token(i, w)
        \/ \E lost \in BOOLEAN : Undo(i, lost) \/ \E a \in Actions : Apply(i, a, lost)
    \/ Cool \/ \E broken \in BOOLEAN : Restart(broken)
    \/ \E a \in Actions : Interfere(a)

-----------------------------------------------------------------------------
(* Properties *)

DialogueTypeOK ==
    /\ waf \in Protections /\ slot \in 0..Len(turns) /\ Len(shown) = Len(turns)
    /\ failures \in 0..BREAKER_THRESHOLD /\ open \in BOOLEAN
    /\ others \in 0..MaxOthers /\ faults \in 0..MaxFaults
    /\ \A i \in DOMAIN turns :
        /\ turns[i].at \in {"asked", "tool", "look", "write", "over"}
        /\ turns[i].full \subseteq Words
        /\ shown[i].text \subseteq Words \cup {"error", "correction"}

\* What is shown under a question is the answer to it.
AnswersTheirQuestions == \A i \in DOMAIN shown : shown[i].from \subseteq {i}

\* An answer that has come to its end says nothing about a change that is not so, and a
\* change that was made comes with its undo.  Where a change could not be made, a claim is
\* not corrected.
AnswersAreTrue ==
    \A i \in DOMAIN shown :
        LET s == shown[i]
            kind == turns[i].outcome.kind
        IN  Answered(s) => /\ "claims" \in s.text => kind \in {"applied", "error"}
                           /\ "denies" \in s.text => kind # "applied"
                           /\ kind = "applied" => s.card = turns[i].outcome /\ s.trail

\* The undo of a card is the one of its change, as long as it is kept; it has been used only if
\* the answer was lost.
UndoIsAtHand ==
    \A i \in DOMAIN shown :
        LET s == shown[i]
        IN  s.done # 0 =>
              \/ ring # <<>> /\ s.done < Head(ring).id
              \/ \E k \in DOMAIN ring :
                    /\ ring[k].id = s.done /\ ring[k].act.id = s.card.act.id
                    /\ ring[k].undone => s.undone \/ s.lost

\* The model answers one question at a time, and is free when it answers none.
OneAtATime == \A i \in DOMAIN turns : turns[i].at \in {"tool", "write"} <=> slot = i

\* CatAI weakens the protection only by a click on a card, and a viewer's question changes
\* nothing.
NothingWeakensUnasked ==
    [][/\ Weaker(waf, waf') /\ ring' # ring => turns' = turns /\ shown' # shown
       /\ \A i \in DOMAIN turns :
            Role[turns[i].dock] = "viewer" /\ turns'[i] # turns[i] => waf' = waf]_dialogueVars

\* A change is undone once.  Changes that are undone in the reverse order, with nothing else
\* changed in between, leave nothing.
Undoes(k) == k \in DOMAIN ring' /\ ring'[k] = [ring[k] EXCEPT !.undone = TRUE] /\ ~ring[k].undone
UndoGoesBack ==
    [][\A i \in DOMAIN shown :
        shown'[i] # shown[i] /\ shown[i].done # 0 /\ waf' # waf /\ turns' = turns =>
            \E k \in DOMAIN ring :
                /\ ring[k].id = shown[i].done /\ Undoes(k)
                /\ chain # <<>> /\ Last(chain).id = ring[k].id => waf' = Last(chain).before]_dialogueVars

DialogueHolds == AnswersTheirQuestions /\ AnswersAreTrue /\ UndoIsAtHand /\ OneAtATime
CardsHold == NothingWeakensUnasked /\ UndoGoesBack

=============================================================================
