-------------------------------- MODULE Form --------------------------------
(***************************************************************************)
(* The settings pages: SettingsForm.jsx and GroupsPage of pageKit.jsx, with*)
(* the routes they call (routes/settings.js).                              *)
(*                                                                         *)
(* Each admin has the form of one group open in a browser.  What he edits  *)
(* is a draft over the values that were loaded, and only the draft is sent.*)
(* While a request is under way the form is disabled.  The group has two   *)
(* fields, one that is sent whole whenever an entry of it changes and one  *)
(* that is never sent back to the browser.                                 *)
(***************************************************************************)
EXTENDS Naturals

CONSTANTS
    Editors,
    OwnToast,       \* admins whose page says "Applied" itself: not a GroupsPage
    Entries,        \* of the list
    Secret,         \* what is typed into the write-only field
    Kept,           \* what is in it at the start
    Blank,          \* the empty string
    Missing,        \* no values, request, answer or preview
    MaxRequests     \* bound: requests beside loading

VARIABLES
    group,      \* the stored values
    enforced,   \* what Caddy has loaded of them, Missing while it does not run
    forms,      \* Editors -> what the form holds: values, draft, preview
    requests,   \* Editors -> the request under way
    sent,       \* requests so far, beside loading
    edited,     \* history: Editors -> fields changed by hand since they were loaded or saved
    behind      \* history: Editors -> the form may be behind what is stored

formVars == <<group, enforced, forms, requests, sent, edited, behind>>

\* f where it says something, and g elsewhere.
Over(f, g) == [x \in DOMAIN f \cup DOMAIN g |-> IF x \in DOMAIN f THEN f[x] ELSE g[x]]

Values == [list : SUBSET Entries, secret : {Blank, Secret, Kept}]
Defaults == [list |-> {}, secret |-> Blank]
NoDraft == [f \in {} |-> Missing]
Typed == [list : SUBSET Entries, secret : {Blank, Secret}]
Drafts == {[f \in F |-> v[f]] : F \in SUBSET DOMAIN Defaults, v \in Typed}
Previews == [from : Values, to : Values]
Answers == [outcome : {"values", "applied", "saved", "refused"}, values : Values, live : BOOLEAN]
           \cup [outcome : {"preview"}, preview : Previews]

Asked == [op : {"load", "save", "reset", "preview"}, patch : Drafts,
          answer : Answers \cup {Missing}]

FormAssumption ==
    /\ OwnToast \subseteq Editors /\ MaxRequests \in Nat
    /\ Secret # Blank /\ Kept # Blank
    /\ Missing \notin Values /\ Missing \notin Previews
    /\ Missing \notin Answers /\ Missing \notin Asked

FormTypeOK ==
    /\ group \in Values /\ enforced \in Values \cup {Missing}
    /\ forms \in [Editors -> [values : Values \cup {Missing}, draft : Drafts,
                              preview : Previews \cup {Missing}]]
    /\ requests \in [Editors -> Asked \cup {Missing}]
    /\ sent \in 0..MaxRequests
    /\ edited \in [Editors -> SUBSET DOMAIN Defaults] /\ behind \in [Editors -> BOOLEAN]

-----------------------------------------------------------------------------
(* The form.                                                               *)

Redacted(v) == [v EXCEPT !.secret = Blank]
Shown(a) == Over(forms[a].draft, forms[a].values)
Dirty(a) == DOMAIN forms[a].draft # {}
Loaded(a) == forms[a].values # Missing
Free(a) == requests[a] = Missing

Ask(a, op, patch) ==
    requests' = [requests EXCEPT ![a] = [op |-> op, patch |-> patch, answer |-> Missing]]

\* useEffect(): the page is opened.
Open(a) ==
    /\ ~Loaded(a) /\ Free(a) /\ Ask(a, "load", NoDraft)
    /\ UNCHANGED <<group, enforced, forms, sent, edited, behind>>

\* setField().
SetField(a, f, v) ==
    forms' = [forms EXCEPT ![a].draft = Over([x \in {f} |-> v], @), ![a].preview = Missing]

\* onChange: of the list, all of it less or with an entry; disabled while a request is
\* under way.
Edit(a) ==
    /\ Loaded(a) /\ Free(a)
    /\ \/ \E e \in Entries : \E list \in {Shown(a).list \cup {e}, Shown(a).list \ {e}} :
             /\ list # Shown(a).list /\ SetField(a, "list", list)
             /\ edited' = [edited EXCEPT ![a] = @ \cup {"list"}]
       \/ \E s \in {Secret, Blank} \ {Shown(a).secret} :
             /\ SetField(a, "secret", s)
             /\ edited' = [edited EXCEPT ![a] = @ \cup {"secret"}]
    /\ UNCHANGED <<group, enforced, requests, sent, behind>>

Discard(a) ==
    /\ Dirty(a) /\ Free(a)
    /\ forms' = [forms EXCEPT ![a].draft = NoDraft, ![a].preview = Missing]
    /\ edited' = [edited EXCEPT ![a] = {}]
    /\ UNCHANGED <<group, enforced, requests, sent, behind>>

\* What save() and doPreview() send.
Patch(a) == forms[a].draft

Submit(a, op) ==
    /\ Loaded(a) /\ Free(a) /\ (op = "reset" \/ Dirty(a))
    /\ sent < MaxRequests /\ sent' = sent + 1
    /\ Ask(a, op, IF op = "reset" THEN NoDraft ELSE Patch(a))
    /\ UNCHANGED <<group, enforced, forms, edited, behind>>

-----------------------------------------------------------------------------
(* The routes.  Of configTx.apply there is what it comes to: refused and   *)
(* rolled back, or stored, and then loaded by Caddy unless it does not run.*)

Answer(a, answer) == requests' = [requests EXCEPT ![a].answer = answer]

Refuse(a) ==
    /\ Answer(a, [outcome |-> "refused", values |-> group, live |-> FALSE])
    /\ UNCHANGED <<group, enforced, behind>>

Store(a, new) ==
    /\ group' = new
    /\ enforced' = IF enforced = Missing THEN Missing ELSE new
    /\ Answer(a, [outcome |-> IF enforced = Missing THEN "saved" ELSE "applied",
                  values |-> new, live |-> enforced' = new])
    /\ behind' = [b \in Editors |-> b # a]

Serve(a) ==
    /\ ~Free(a) /\ requests[a].answer = Missing
    /\ LET r == requests[a]
           merged == Over(r.patch, group)
       IN  \/ /\ r.op = "load"
              /\ Answer(a, [outcome |-> "values", values |-> group, live |-> FALSE])
              /\ behind' = [behind EXCEPT ![a] = FALSE] /\ UNCHANGED <<group, enforced>>
           \/ r.op # "load" /\ Refuse(a)
           \/ r.op = "save" /\ Store(a, merged)
           \/ r.op = "reset" /\ Store(a, Defaults)
           \/ /\ r.op = "preview"
              /\ Answer(a, [outcome |-> "preview", preview |-> [from |-> group, to |-> merged]])
              /\ UNCHANGED <<group, enforced, behind>>
    /\ UNCHANGED <<forms, sent, edited>>

\* Caddy stops, or is started with the Caddyfile of what is stored.
Caddy ==
    /\ enforced' = IF enforced = Missing THEN group ELSE Missing
    /\ UNCHANGED <<group, forms, requests, sent, edited, behind>>

-----------------------------------------------------------------------------
(* The answer.                                                             *)

\* onSaved(): it says "Applied", but a GroupsPage "Saved, but Caddy did not reload" if there
\* is a reload_error, which the answer to a reset never has.
SaysApplied(a, r) ==
    /\ r.op \in {"save", "reset"} /\ r.answer.outcome # "refused"
    /\ a \in OwnToast \/ r.op = "reset" \/ r.answer.outcome = "applied"

Fill(a, r) ==
    /\ forms' = [forms EXCEPT ![a] = [values |-> Redacted(r.answer.values), draft |-> NoDraft,
                                      preview |-> Missing]]
    /\ edited' = [edited EXCEPT ![a] = {}]

Receive(a) ==
    /\ ~Free(a) /\ requests[a].answer # Missing
    /\ LET r == requests[a] IN
        CASE r.answer.outcome \in {"values", "applied", "saved"} -> Fill(a, r)
          [] r.answer.outcome = "preview" ->
                forms' = [forms EXCEPT ![a].preview = r.answer.preview] /\ UNCHANGED edited
          [] OTHER -> UNCHANGED <<forms, edited>>
    /\ requests' = [requests EXCEPT ![a] = Missing]
    /\ UNCHANGED <<group, enforced, sent, behind>>

\* The request or its answer does not arrive.
Lose(a) ==
    /\ ~Free(a) /\ requests' = [requests EXCEPT ![a] = Missing]
    /\ behind' = [behind EXCEPT ![a] = @ \/ requests[a].answer # Missing]
    /\ UNCHANGED <<group, enforced, forms, sent, edited>>

FormInit ==
    /\ group = [list |-> {}, secret |-> Kept] /\ enforced = group
    /\ forms = [a \in Editors |-> [values |-> Missing, draft |-> NoDraft, preview |-> Missing]]
    /\ requests = [a \in Editors |-> Missing] /\ sent = 0
    /\ edited = [a \in Editors |-> {}] /\ behind = [a \in Editors |-> FALSE]

FormNext ==
    \/ \E a \in Editors :
          \/ Open(a) \/ Edit(a) \/ Discard(a) \/ Serve(a) \/ Receive(a) \/ Lose(a)
          \/ \E op \in {"save", "reset", "preview"} : Submit(a, op)
    \/ Caddy

-----------------------------------------------------------------------------
\* The admin has asked for the defaults.
ResetBy(a) == ~Free(a) /\ requests[a].op = "reset"

(***************************************************************************)
(* Whatever others save at the same time and whatever answers are lost, a  *)
(* form changes only fields its admin has edited: the list as others have  *)
(* left it and the secret, which the form does not know, stay.             *)
(***************************************************************************)
OnlyEditsAreStored ==
    [][\A a \in Editors : \A f \in DOMAIN group :
        Serve(a) /\ group'[f] # group[f] => f \in edited[a] \/ ResetBy(a)]_formVars

(***************************************************************************)
(* An edit stays on the screen until its admin discards it or asks for the *)
(* defaults, or what he sees is what has been stored.                      *)
(***************************************************************************)
EditsStay ==
    [][\A a \in Editors : \A f \in DOMAIN forms[a].draft \ DOMAIN forms'[a].draft :
        \/ Free(a) \/ ResetBy(a)
        \/ /\ requests[a].answer.outcome \in {"applied", "saved"}
           /\ requests[a].answer.values[f] = forms[a].draft[f]]_formVars

(***************************************************************************)
(* "Applied" is said of what Caddy has loaded, and a failure to reload is  *)
(* told; except for a reset, and on the pages that say it themselves.      *)
(***************************************************************************)
AppliedIsLive ==
    [][\A a \in Editors \ OwnToast :
        Receive(a) /\ SaysApplied(a, requests[a])
            => requests[a].answer.live \/ ResetBy(a)]_formVars

(***************************************************************************)
(* The difference on the screen is the one the draft on the screen makes,  *)
(* and a form without edits shows what is stored, unless somebody else has *)
(* stored something since or an answer was lost.                           *)
(***************************************************************************)
ScreenIsTrue ==
    \A a \in Editors :
        /\ forms[a].preview # Missing =>
              forms[a].preview.to = Over(forms[a].draft, forms[a].preview.from)
        /\ Loaded(a) /\ Free(a) /\ ~Dirty(a) /\ ~behind[a] =>
              forms[a].values = Redacted(group)

FormsHold == OnlyEditsAreStored /\ EditsStay /\ AppliedIsLive

=============================================================================
