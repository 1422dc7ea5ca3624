------------------------------ MODULE Accounts ------------------------------
(***************************************************************************)
(* The accounts and the tokens that stand for them: middleware/auth.js with*)
(* the routes for login, users and the first-run wizard, and `catwaf user`.*)
(*                                                                         *)
(* The list of accounts is one row of the database.  The API server judges *)
(* by a copy that it reads again when it is a second old; a change is made *)
(* under the configuration lock, on a list read there, so two changes never*)
(* overlap.  A read of the server may fail, and then it keeps its copy.    *)
(* A login looks the account up, waits for bcrypt, and mints a token from  *)
(* what it had found.                                                      *)
(*                                                                         *)
(* The clock counts whole seconds, as the `iat` of a token does; within one*)
(* any number of steps may happen.  `changes` stands for the random ids and*)
(* the password hashes: each new account or password gets the next number. *)
(* How a session ends is in Sessions.  A CLI run that cannot read the list *)
(* does nothing.                                                           *)
(***************************************************************************)
EXTENDS Integers, FiniteSets

CONSTANTS
    Names,          \* usernames
    Tokens,         \* JWTs that may be minted
    NoAccount,
    NoToken,
    MaxChanges,     \* bound: accounts created and passwords set
    MaxFaults,      \* bound: reads of the server that fail
    MaxTime         \* bound: the clock

Roles == {"admin", "viewer"}
Account == [id : 1..MaxChanges, pw : 1..MaxChanges, role : Roles, stamp : 0..MaxTime]
Found == [id : 1..MaxChanges, pw : 1..MaxChanges, stamp : 0..MaxTime]
Token == [id : 1..MaxChanges, pw : 1..MaxChanges, iat : 1..MaxTime + 1, minted : 1..MaxTime]

AccountsAssumption ==
    /\ NoAccount \notin Account \cup Found
    /\ NoToken \notin Token \cup Tokens
AccountBoundsAssumption ==
    MaxChanges \in Nat /\ MaxFaults \in Nat /\ MaxTime \in Nat \ {0}

VARIABLES
    accounts,   \* the row `users`: name -> account
    copy,       \* _users of the server
    readAt,     \* _usersReadAt, 0 for "read it again"
    login,      \* the login that waits for bcrypt: what it found
    tokens,     \* token -> what it says
    outcome,    \* what the last request came to
    changes,
    faults,     \* reads of the server that have failed
    time,
    asOf,       \* history: when the copy was last what the database holds
    blind,      \* history: the last read of the server gave it nothing
    seen        \* history: the server has seen an account since it started

mem == <<copy, readAt>>
history == <<asOf, blind, seen>>
vars == <<accounts, mem, login, tokens, outcome, changes, faults, time, history>>

Lists == [Names -> Account \cup {NoAccount}]
None == [n \in Names |-> NoAccount]
Nothing == [token |-> NoToken, as |-> "nobody"]

AccountsTypeOK ==
    /\ accounts \in Lists /\ copy \in Lists
    /\ readAt \in 0..time
    /\ login \in Found \cup {NoAccount}
    /\ tokens \in [Tokens -> Token \cup {NoToken}]
    /\ outcome \in [token : Tokens \cup {NoToken}, as : Roles \cup {"nobody", "wizard", "stale"}]
    /\ changes \in 0..MaxChanges /\ faults \in 0..MaxFaults
    /\ time \in 1..MaxTime
    /\ asOf \in 0..time /\ blind \in BOOLEAN /\ seen \in BOOLEAN

-----------------------------------------------------------------------------
Live(list) == {n \in Names : list[n] # NoAccount}
Admins(list) == {n \in Live(list) : list[n].role = "admin"}

\* A copy is used for less than a second, which may span two of the clock.
USER_REVALIDATE == 2

Recent == readAt > 0 /\ time - readAt < USER_REVALIDATE

\* The row cannot be read, or what it holds cannot be parsed.
ReadFails == faults < MaxFaults /\ faults' = faults + 1

\* A list that is not empty is not given up for one that is.
Believed == IF accounts = None THEN copy ELSE accounts

\* refreshUsers()
RefreshUsers ==
    \/ /\ readAt # time /\ readAt' = time
       /\ \/ copy' = Believed /\ UNCHANGED faults
          \/ ReadFails /\ UNCHANGED copy
    \/ Recent /\ UNCHANGED <<mem, faults>>

\* Wrong variant: a token of the second of the reset is taken for a new one.
ExclusiveGrants(list, token, n) ==
    /\ n \in Live(list) /\ tokens[token] # NoToken
    /\ list[n].id = tokens[token].id
    /\ list[n].stamp = 0 \/ tokens[token].iat >= list[n].stamp

\* softAuth(): the account a token is good for.
Grants(list, token, n) ==
    /\ n \in Live(list) /\ tokens[token] # NoToken
    /\ list[n].id = tokens[token].id
    /\ list[n].stamp = 0 \/ tokens[token].iat > list[n].stamp

Remember ==
    /\ asOf' = IF copy' = accounts' THEN time' ELSE asOf
    /\ blind' = (copy' # accounts' /\ (blind \/ readAt' # readAt))
    /\ seen' = (seen \/ Live(copy') # {})

-----------------------------------------------------------------------------
(* What may be done to a list, by either process.                          *)

\* addUser()
Added(list, n, role) ==
    [list EXCEPT ![n] = [id |-> changes + 1, pw |-> changes + 1, role |-> role, stamp |-> 0]]

\* setPassword()
Reset(list, n) == [list EXCEPT ![n].pw = changes + 1, ![n].stamp = time]

\* removeUser(), setRole(): refused for the last admin.
MayRemove(list, n) == n \in Live(list) /\ Admins(list) # {n}
MayTurn(list, n, role) == n \in Live(list) /\ (role = "admin" \/ Admins(list) # {n})

\* One change of the list `list`, written back.
Change(list, n, role, kind) ==
    \/ /\ kind = "add" /\ n \notin Live(list) /\ changes < MaxChanges
       /\ accounts' = Added(list, n, role) /\ changes' = changes + 1
    \/ /\ kind = "passwd" /\ n \in Live(list) /\ changes < MaxChanges
       /\ accounts' = Reset(list, n) /\ changes' = changes + 1
    \/ /\ kind = "role" /\ MayTurn(list, n, role)
       /\ accounts' = [list EXCEPT ![n].role = role] /\ UNCHANGED changes
    \/ /\ kind = "remove" /\ MayRemove(list, n)
       /\ accounts' = [list EXCEPT ![n] = NoAccount] /\ UNCHANGED changes

\* catwaf user add | passwd | role | remove, and the terminal wizard
Cli(n, role, kind) ==
    /\ Change(accounts, n, role, kind)
    /\ outcome' = Nothing
    /\ UNCHANGED <<mem, login, tokens, faults, time>> /\ Remember

\* In the server: a forced read, then the change of the copy, which is saved.
Server(n, role, kind) ==
    LET read(list, failed) ==
            /\ Change(list, n, role, kind) /\ copy' = accounts' /\ readAt' = time
            /\ faults' = faults + failed
    IN  read(Believed, 0) \/ (faults < MaxFaults /\ read(copy, 1))

\* The account the server takes the holder of a token for.
Holder(token, n) == Grants(copy, token, n)

\* POST /api/users, .../password, .../role and DELETE /api/users/:username, by
\* an admin or, for a password, by the account itself.  Nobody deletes himself.
\* The copy is at most a second old, or the step is preceded by a Request.
Route(token, n, role, kind) ==
    \E by \in Names :
        /\ Holder(token, by) /\ Recent
        /\ copy[by].role = "admin" \/ (kind = "passwd" /\ by = n)
        /\ kind = "remove" => by # n
        /\ Server(n, role, kind)
        /\ outcome' = [token |-> token, as |-> copy[by].role]
        /\ UNCHANGED <<login, tokens, time>> /\ Remember

\* POST /api/setup/account, behind bootstrapOnly: addUser() does not ask again.
Wizard(n) ==
    /\ copy = None /\ Recent
    /\ Server(n, "admin", "add")
    /\ outcome' = [token |-> NoToken, as |-> "wizard"]
    /\ UNCHANGED <<login, tokens, time>> /\ Remember

-----------------------------------------------------------------------------
(* Requests.                                                               *)

\* POST /api/auth/login: the account is found, bcrypt is asked.
Login(n) ==
    /\ login = NoAccount
    /\ RefreshUsers
    /\ n \in Live(copy')
    /\ login' = [id |-> copy'[n].id, pw |-> copy'[n].pw, stamp |-> copy'[n].stamp]
    /\ outcome' = Nothing
    /\ UNCHANGED <<accounts, tokens, changes, time>> /\ Remember

\* routes/auth.js: a token is minted past the last reset.
Iat(account) == IF time > account.stamp THEN time ELSE account.stamp + 1

\* The password was right, for the hash that was found.
Mint(token) ==
    /\ login # NoAccount /\ tokens[token] = NoToken
    /\ tokens' = [tokens EXCEPT ![token] =
          [id |-> login.id, pw |-> login.pw, iat |-> Iat(login), minted |-> time]]
    /\ login' = NoAccount /\ outcome' = Nothing
    /\ UNCHANGED <<accounts, mem, changes, faults, time>> /\ Remember

\* The password was wrong, the queue full or the second factor missing.
Fail ==
    /\ login # NoAccount /\ login' = NoAccount /\ outcome' = Nothing
    /\ UNCHANGED <<accounts, mem, tokens, changes, faults, time>> /\ Remember

\* Any request with a token, through softAuth and authRequired.
Request(token) ==
    /\ tokens[token] # NoToken
    /\ RefreshUsers
    /\ \/ \E n \in Names :
             Grants(copy', token, n) /\ outcome' = [token |-> token, as |-> copy'[n].role]
       \/ /\ \A n \in Names : ~Grants(copy', token, n)
          /\ outcome' = [token |-> token, as |-> "stale"]
    /\ UNCHANGED <<accounts, login, tokens, changes, time>> /\ Remember

\* GET /api/auth/status, needsBootstrap() before a login or the wizard.
Bootstrap ==
    /\ RefreshUsers /\ outcome' = Nothing
    /\ UNCHANGED <<accounts, login, tokens, changes, time>> /\ Remember

\* The server is started again: the list is read when the module is loaded, and
\* what cannot be parsed reads as no list.
Restart ==
    /\ \/ copy' = accounts /\ UNCHANGED faults
       \/ faults < MaxFaults /\ faults' = faults + 1 /\ copy' = None
    /\ readAt' = 0 /\ login' = NoAccount /\ outcome' = Nothing
    /\ asOf' = IF copy' = accounts THEN time ELSE asOf
    /\ blind' = (copy' # accounts) /\ seen' = (Live(copy') # {})
    /\ UNCHANGED <<accounts, tokens, changes, time>>

\* A copy too old to be used is as good as one to be read again.
Second ==
    /\ time < MaxTime /\ time' = time + 1
    /\ readAt' = IF readAt = time THEN readAt ELSE 0
    /\ asOf' = IF copy = accounts THEN time' ELSE IF asOf = time THEN asOf ELSE 0
    /\ outcome' = Nothing
    /\ UNCHANGED <<accounts, copy, login, tokens, changes, faults, blind, seen>>

Init ==
    /\ accounts = None /\ copy = None /\ readAt = 0
    /\ login = NoAccount /\ tokens = [t \in Tokens |-> NoToken] /\ outcome = Nothing
    /\ changes = 0 /\ faults = 0 /\ time = 1
    /\ asOf = 1 /\ blind = FALSE /\ seen = FALSE

Next ==
    \/ \E n \in Names, role \in Roles, kind \in {"add", "passwd", "role", "remove"} :
          Cli(n, role, kind) \/ \E t \in Tokens : Route(t, n, role, kind)
    \/ \E n \in Names : Wizard(n) \/ Login(n)
    \/ \E t \in Tokens : Mint(t) \/ Request(t)
    \/ Fail \/ Bootstrap \/ Restart \/ Second

Spec == Init /\ [][Next]_vars

-----------------------------------------------------------------------------
(***************************************************************************)
(* Tokens follow their accounts: whoever is served, and as whom, was so    *)
(* entitled by the database within the last second, unless the server could*)
(* not read it, or reads that there are no accounts (as when the only one, *)
(* a viewer, is removed).  So removing an account, resetting its password  *)
(* or demoting it in another process reaches a running server.             *)
(***************************************************************************)
TokensFollowAccounts ==
    outcome.as \in Roles => time - asOf <= 1 \/ blind

(***************************************************************************)
(* A reset ends what was signed in before it and nothing else: a token from*)
(* an older password is good for the account only if it was minted after   *)
(* the second of the reset, by a login that had found the old password, or *)
(* between two resets of one second; and a token from the present password *)
(* is good from the start, in the second of the reset too.                 *)
(***************************************************************************)
ResetsEndTokens ==
    \A t \in Tokens, n \in Names :
        tokens[t] # NoToken /\ n \in Live(accounts) /\ accounts[n].id = tokens[t].id =>
            /\ tokens[t].pw = accounts[n].pw => Grants(accounts, t, n)
            /\ tokens[t].pw # accounts[n].pw /\ Grants(accounts, t, n) =>
                  \/ tokens[t].minted > accounts[n].stamp
                  \/ tokens[t].iat > tokens[t].minted

(***************************************************************************)
(* Once there is an admin there is one for ever, whoever changes accounts  *)
(* at the same time, unless the list could not be read under the lock.     *)
(***************************************************************************)
LastAdminStays ==
    [][Admins(accounts) # {} => Admins(accounts') # {} \/ faults' # faults]_vars

(***************************************************************************)
(* The first-run wizard, which needs no login, closes: it creates nothing  *)
(* once an account exists, but for the second a copy without it is used,   *)
(* or if the server cannot read the list and has not seen one since it     *)
(* started.  A server that has seen an account stays closed.               *)
(***************************************************************************)
WizardCloses ==
    [][outcome'.as = "wizard" /\ Live(accounts) # {} =>
          ~seen /\ (time - asOf <= 1 \/ blind)]_vars

=============================================================================
