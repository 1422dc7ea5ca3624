---------------------------- MODULE PanelProofs ----------------------------
(***************************************************************************)
(* Those who run CatWAF: what the accounts promise, by the server and by   *)
(* `catwaf user`; the life of the server process under the commands of the *)
(* CLI; the installer and the wizard; and the settings pages, for every    *)
(* number of names, tokens, processes, commands, runs, changes, pages and  *)
(* requests.                                                               *)
(***************************************************************************)
EXTENDS Accounts, Service, Setup, Form, SequenceTheorems, TLAPS

-----------------------------------------------------------------------------
(* The inductive invariant.                                                *)

\* The passwords of a list, each with the time it was set.
Passwords(list) == {<<list[n].pw, list[n].stamp>> : n \in Live(list)}

\* Those that are known anywhere: also to a login that is under way.
Known ==
    Passwords(accounts) \cup Passwords(copy)
        \cup (IF login = NoAccount THEN {} ELSE {<<login.pw, login.stamp>>})

\* A password was set at one time, and a token made from it is younger.
PasswordsInv ==
    /\ \A k \in Known : k[1] <= changes
    /\ \A k, l \in Known : k[1] = l[1] => k[2] = l[2]
    /\ \A t \in Tokens : tokens[t] # NoToken =>
          /\ tokens[t].pw <= changes
          /\ tokens[t].iat = tokens[t].minted \/ tokens[t].iat > tokens[t].minted
          /\ \A k \in Known : k[1] = tokens[t].pw => tokens[t].iat > k[2]

\* A copy that is not what the database holds was so when it was last read, unless that
\* read gave nothing.
CopyInv ==
    /\ copy = accounts => asOf = time
    /\ copy # accounts /\ ~blind => asOf >= readAt

\* The copy has no admin that the database does without, and a server that has seen an
\* account never takes the list for empty.
AdminsInv ==
    /\ Admins(copy) # {} => Admins(accounts) # {}
    /\ seen <=> copy # None

AccountsInv ==
    AccountsTypeOK /\ PasswordsInv /\ CopyInv /\ AdminsInv /\ TokensFollowAccounts

AccountsConstants == AccountsAssumption /\ AccountBoundsAssumption

-----------------------------------------------------------------------------
(* What a change makes of a list.                                          *)

\* A list without accounts is the empty one.
LEMMA EmptyList ==
    ASSUME NEW list \in Lists PROVE Live(list) = {} <=> list = None
<1>1. ASSUME Live(list) = {} PROVE list = None
  BY <1>1 DEF Live, Lists, None
<1>2. ASSUME list = None PROVE Live(list) = {}
  BY <1>2 DEF Live, None
<1> QED
  BY <1>1, <1>2

\* A change makes a list of a list, and takes at most one number.
LEMMA ChangeTypes ==
    ASSUME AccountsConstants, AccountsTypeOK, NEW list \in Lists,
           NEW n \in Names, NEW role \in Roles, NEW kind, Change(list, n, role, kind)
    PROVE  /\ accounts' \in Lists /\ changes' \in 0..MaxChanges
           /\ changes' \in {changes, changes + 1}
           /\ kind # "remove" => n \in Live(accounts')
<1> USE DEF AccountsConstants, AccountsAssumption, AccountBoundsAssumption, AccountsTypeOK,
            Lists, Live
<1>1. CASE /\ changes < MaxChanges
           /\ accounts' = Added(list, n, role) /\ changes' = changes + 1
  <2>1. [id |-> changes + 1, pw |-> changes + 1, role |-> role, stamp |-> 0] \in Account
    BY <1>1 DEF Account
  <2> QED
    BY <1>1, <2>1 DEF Added
<1>2. CASE /\ n \in Live(list) /\ changes < MaxChanges
           /\ accounts' = Reset(list, n) /\ changes' = changes + 1
  <2>1. list[n] \in Account
    BY <1>2
  <2>2. [list[n] EXCEPT !.pw = changes + 1, !.stamp = time] \in Account
    <3>1. changes + 1 \in 1..MaxChanges /\ time \in 0..MaxTime
      BY <1>2
    <3> QED
      BY <2>1, <3>1 DEF Account
  <2>3. Reset(list, n) = [list EXCEPT ![n] = [list[n] EXCEPT !.pw = changes + 1, !.stamp = time]]
    BY <2>1 DEF Reset, Account
  <2> QED
    BY <1>2, <2>2, <2>3
<1>3. CASE n \in Live(list) /\ accounts' = [list EXCEPT ![n].role = role] /\ UNCHANGED changes
  <2>1. list[n] \in Account
    BY <1>3
  <2>2. [list[n] EXCEPT !.role = role] \in Account
    BY <2>1 DEF Account
  <2> QED
    BY <1>3, <2>2
<1>4. CASE kind = "remove" /\ accounts' = [list EXCEPT ![n] = NoAccount] /\ UNCHANGED changes
  BY <1>4
<1> QED
  BY <1>1, <1>2, <1>3, <1>4 DEF Change, MayTurn

\* What a list becomes has the passwords of before, but for the one that was set; and an
\* admin, if there was one.
LEMMA ChangeEffect ==
    ASSUME AccountsConstants, AccountsTypeOK, NEW list \in Lists,
           NEW n \in Names, NEW role \in Roles, NEW kind, Change(list, n, role, kind)
    PROVE  /\ \A k \in Passwords(accounts') :
                 \/ k \in Passwords(list)
                 \/ changes' = changes + 1 /\ k = <<changes + 1, accounts'[n].stamp>>
           /\ Admins(list) # {} => Admins(accounts') # {}
<1>0. /\ \A m \in Live(list) : list[m] \in Account
      /\ kind # "remove" => n \in Live(accounts')
  BY ChangeTypes DEF Lists, Live
<1> USE DEF AccountsConstants, AccountsAssumption, Live
<1>1. CASE /\ kind = "add" /\ n \notin Live(list)
           /\ accounts' = Added(list, n, role) /\ changes' = changes + 1
  <2>1. /\ \A m \in Names : m # n => accounts'[m] = list[m]
        /\ accounts'[n].pw = changes + 1
    BY <1>1 DEF Added, Lists
  <2>2. n \in Live(accounts')
    BY <1>0, <1>1
  <2> QED
    BY <1>1, <2>1, <2>2 DEF Passwords, Admins
<1>2. CASE /\ kind = "passwd" /\ n \in Live(list)
           /\ accounts' = Reset(list, n) /\ changes' = changes + 1
  <2>1. /\ \A m \in Names : m # n => accounts'[m] = list[m]
        /\ accounts'[n] = [list[n] EXCEPT !.pw = changes + 1, !.stamp = time]
    BY <1>0, <1>2 DEF Reset, Lists
  <2>2. accounts'[n].pw = changes + 1 /\ accounts'[n].role = list[n].role
    BY <1>0, <1>2, <2>1 DEF Account
  <2>3. accounts'[n] # NoAccount
    BY <1>0, <1>2
  <2> QED
    BY <1>2, <2>1, <2>2, <2>3, ZenonT(30) DEF Passwords, Admins
<1>3. CASE /\ MayTurn(list, n, role)
           /\ accounts' = [list EXCEPT ![n].role = role] /\ UNCHANGED changes
  <2>1. /\ n \in Live(list)
        /\ \A m \in Names : m # n => accounts'[m] = list[m]
        /\ accounts'[n] = [list[n] EXCEPT !.role = role]
    BY <1>0, <1>3 DEF Lists, MayTurn
  <2>2. /\ accounts'[n].pw = list[n].pw /\ accounts'[n].stamp = list[n].stamp
        /\ accounts'[n].role = role
    BY <1>0, <2>1 DEF Account
  <2>3. accounts'[n] # NoAccount
    <3>1. [list[n] EXCEPT !.role = role] \in Account
      BY <1>0, <2>1 DEF Account
    <3> QED
      BY <2>1, <3>1
  <2>4. Admins(list) # {} => Admins(accounts') # {}
    BY <1>3, <2>1, <2>2, <2>3 DEF MayTurn, Admins
  <2>5. \A m \in Live(accounts') :
           m \in Live(list) /\ accounts'[m].pw = list[m].pw /\ accounts'[m].stamp = list[m].stamp
    BY <2>1, <2>2
  <2> QED
    BY <2>4, <2>5 DEF Passwords
<1>4. CASE /\ kind = "remove" /\ MayRemove(list, n)
           /\ accounts' = [list EXCEPT ![n] = NoAccount] /\ UNCHANGED changes
  <2>1. /\ \A m \in Names : m # n => accounts'[m] = list[m]
        /\ accounts'[n] = NoAccount
    BY <1>4 DEF Lists
  <2> QED
    BY <1>4, <2>1 DEF Passwords, Admins, MayRemove
<1> QED
  BY <1>1, <1>2, <1>3, <1>4 DEF Change, Live

-----------------------------------------------------------------------------
(* What the parts of a step keep.                                          *)

\* As long as what is known was known before, or has the next number, the passwords are
\* told apart.
LEMMA PasswordsKeep ==
    ASSUME AccountsTypeOK, AccountsConstants, PasswordsInv, tokens' = tokens,
           changes' \in {changes, changes + 1}, NEW x,
           \A k \in Known' : k \in Known \/ (changes' = changes + 1 /\ k = <<changes + 1, x>>)
    PROVE  PasswordsInv'
<1>1. /\ changes \in Nat
      /\ \A t \in Tokens : tokens[t] # NoToken => tokens[t] \in Token
  BY DEF AccountsTypeOK, AccountsConstants, AccountBoundsAssumption
<1>2. \A k \in Known : k[1] <= changes
  BY DEF PasswordsInv
<1>3. \A k, l \in Known : k[1] = l[1] => k[2] = l[2]
  BY DEF PasswordsInv
<1>4. \A k \in Known : k[1] \in Nat
  BY <1>1 DEF Known, Passwords, AccountsTypeOK, Lists, Live, Account, Found
<1>5. \A k \in Known' : k[1] <= changes'
  BY <1>1, <1>2, <1>4
<1>6. \A k, l \in Known' : k[1] = l[1] => k[2] = l[2]
  BY <1>1, <1>2, <1>3, <1>4
<1>7. ASSUME NEW t \in Tokens, tokens[t] # NoToken
      PROVE  /\ tokens[t].pw <= changes'
             /\ tokens[t].iat = tokens[t].minted \/ tokens[t].iat > tokens[t].minted
             /\ \A k \in Known' : k[1] = tokens[t].pw => tokens[t].iat > k[2]
  <2>1. /\ tokens[t].pw \in Nat /\ tokens[t].pw <= changes
        /\ tokens[t].iat = tokens[t].minted \/ tokens[t].iat > tokens[t].minted
        /\ \A k \in Known : k[1] = tokens[t].pw => tokens[t].iat > k[2]
    BY <1>1, <1>7 DEF PasswordsInv, Token
  <2> QED
    BY <1>1, <2>1
<1> QED
  BY <1>5, <1>6, <1>7 DEF PasswordsInv

\* A step of Remember leaves a copy that is dated right.
LEMMA RememberStep ==
    ASSUME AccountsTypeOK, AccountsConstants, CopyInv, Remember, time' = time,
           \/ copy' = accounts' /\ readAt' \in 0..time
           \/ readAt' = time /\ readAt' # readAt
           \/ UNCHANGED mem
    PROVE  CopyInv' /\ asOf' \in 0..time /\ blind' \in BOOLEAN /\ seen' \in BOOLEAN
<1> USE DEF AccountsTypeOK, AccountsConstants, AccountBoundsAssumption, CopyInv, mem
<1>1. asOf' \in 0..time /\ blind' \in BOOLEAN /\ seen' \in BOOLEAN
  BY DEF Remember
<1>2. copy' = accounts' => asOf' = time'
  BY DEF Remember
<1>3. ASSUME copy' # accounts', ~blind' PROVE asOf' >= readAt'
  <2>1. asOf' = asOf /\ ~(blind \/ readAt' # readAt)
    BY <1>3 DEF Remember
  <2>2. copy' = copy /\ readAt' = readAt
    BY <1>3, <2>1
  <2> QED
    BY <2>1, <2>2
<1> QED
  BY <1>1, <1>2, <1>3

\* After the server has looked, its copy is the list or what it was before, and recent.
LEMMA RefreshStep ==
    ASSUME AccountsTypeOK, AccountsConstants, CopyInv, AdminsInv,
           RefreshUsers, accounts' = accounts, time' = time, Remember
    PROVE  /\ copy' \in {accounts, copy} /\ copy' \in Lists
           /\ readAt' \in 0..time /\ faults' \in 0..MaxFaults
           /\ asOf' \in 0..time /\ blind' \in BOOLEAN /\ seen' \in BOOLEAN
           /\ CopyInv' /\ AdminsInv'
           /\ time - asOf' <= 1 \/ blind'
<1> USE DEF AccountsConstants, AccountBoundsAssumption
<1>1. /\ copy' \in {accounts, copy} /\ readAt' \in 0..time /\ faults' \in 0..MaxFaults
      /\ copy # None => copy' # None
      /\ \/ readAt' = time /\ readAt' # readAt
         \/ UNCHANGED mem
      /\ readAt' > 0 /\ time - readAt' < 2
  BY DEF RefreshUsers, Believed, ReadFails, Recent, USER_REVALIDATE, mem, AccountsTypeOK
<1>2. CopyInv' /\ asOf' \in 0..time /\ blind' \in BOOLEAN /\ seen' \in BOOLEAN
  BY <1>1, RememberStep
<1>3. copy' \in Lists
  BY <1>1 DEF AccountsTypeOK
<1>4. AdminsInv'
  <2>1. Live(copy') # {} <=> copy' # None
    BY <1>3, EmptyList
  <2> QED
    BY <1>1, <2>1 DEF AdminsInv, Remember, AccountsTypeOK
<1>5. time - asOf' <= 1 \/ blind'
  <2>1. ASSUME ~blind' PROVE time - asOf' <= 1
    <3>1. asOf' = time \/ asOf' >= readAt'
      BY <1>2, <2>1 DEF CopyInv
    <3>2. time \in Nat /\ asOf' \in 0..time /\ readAt' \in 0..time
      BY <1>1, <1>2 DEF AccountsTypeOK
    <3>3. readAt' > 0 /\ time - readAt' < 2
      BY <1>1
    <3>4. time \in Int /\ asOf' \in Int /\ readAt' \in Int
      BY <3>2
    <3>5. CASE asOf' = time
      BY <3>4, <3>5
    <3>6. CASE asOf' >= readAt'
      <4>1. \A a, b, t \in Int : t - b < 2 /\ a >= b => t - a <= 1
        OBVIOUS
      <4> QED
        BY <3>3, <3>4, <3>6, <4>1
    <3> QED
      BY <3>1, <3>5, <3>6
  <2> QED
    BY <2>1
<1> QED
  BY <1>1, <1>2, <1>3, <1>4, <1>5

\* The server changes the list of the database, or its copy when it cannot read that or
\* reads that there are no accounts.
LEMMA ServerLists ==
    ASSUME AccountsTypeOK, AccountsConstants, NEW n \in Names, NEW role, NEW kind,
           Server(n, role, kind)
    PROVE  \E list \in {accounts, copy} :
              /\ Change(list, n, role, kind)
              /\ copy' = accounts' /\ readAt' = time /\ faults' \in 0..MaxFaults
              /\ faults' = faults /\ Admins(accounts) # {} => list = accounts
<1>1. Admins(accounts) # {} => accounts # None
  BY DEF Admins, Live, None
<1>2. faults \in Nat /\ MaxFaults \in Nat /\ faults <= MaxFaults
  BY DEF AccountsTypeOK, AccountsConstants, AccountBoundsAssumption
<1>3. CASE /\ Change(Believed, n, role, kind)
           /\ copy' = accounts' /\ readAt' = time /\ faults' = faults + 0
  BY <1>1, <1>2, <1>3 DEF Believed
<1>4. CASE /\ faults < MaxFaults /\ Change(copy, n, role, kind)
           /\ copy' = accounts' /\ readAt' = time /\ faults' = faults + 1
  BY <1>2, <1>4
<1> QED
  BY <1>3, <1>4 DEF Server

-----------------------------------------------------------------------------
(* Each step keeps the invariant.                                          *)

\* Nobody is served by a step that answers nothing.
LEMMA NothingServed ==
    ASSUME outcome' = Nothing
    PROVE  TokensFollowAccounts' /\ outcome' \in [token : Tokens \cup {NoToken}, as : {"nobody"}]
  BY DEF Nothing, TokensFollowAccounts, Roles

\* catwaf user and the terminal wizard.
LEMMA CliStep ==
    ASSUME AccountsConstants, AccountsInv, NEW n \in Names, NEW role \in Roles, NEW kind,
           Cli(n, role, kind)
    PROVE  AccountsInv'
<1>1. AccountsTypeOK /\ PasswordsInv /\ CopyInv /\ AdminsInv
  BY DEF AccountsInv
<1>2. /\ Change(accounts, n, role, kind) /\ accounts \in Lists
      /\ UNCHANGED <<mem, copy, readAt, login, tokens, faults, time>>
      /\ outcome' = Nothing /\ Remember
  BY <1>1 DEF Cli, mem, AccountsTypeOK
<1>3. /\ accounts' \in Lists /\ changes' \in 0..MaxChanges /\ changes' \in {changes, changes + 1}
      /\ Admins(accounts) # {} => Admins(accounts') # {}
      /\ \A k \in Passwords(accounts') :
            \/ k \in Passwords(accounts)
            \/ changes' = changes + 1 /\ k = <<changes + 1, accounts'[n].stamp>>
  BY <1>1, <1>2, ChangeTypes, ChangeEffect
<1>4. CopyInv' /\ asOf' \in 0..time /\ blind' \in BOOLEAN /\ seen' \in BOOLEAN
  BY <1>1, <1>2, RememberStep
<1>5. AccountsTypeOK'
  BY <1>1, <1>2, <1>3, <1>4, NothingServed DEF AccountsTypeOK
<1>6. PasswordsInv'
  <2>1. PICK x : x = accounts'[n].stamp
    OBVIOUS
  <2>2. \A k \in Known' : k \in Known \/ (changes' = changes + 1 /\ k = <<changes + 1, x>>)
    BY <1>2, <1>3, <2>1 DEF Known
  <2> QED
    BY <1>1, <1>2, <1>3, <2>2, PasswordsKeep
<1>7. AdminsInv'
  <2>1. Live(copy) # {} <=> copy # None
    BY <1>1, EmptyList DEF AccountsTypeOK
  <2> QED
    BY <1>1, <1>2, <1>3, <2>1 DEF AdminsInv, Remember, AccountsTypeOK
<1> QED
  BY <1>2, <1>4, <1>5, <1>6, <1>7, NothingServed DEF AccountsInv

\* What a change by the server leaves, whoever asked for it.
LEMMA ServerStep ==
    ASSUME AccountsConstants, AccountsInv, NEW n \in Names, NEW role \in Roles, NEW kind,
           Server(n, role, kind), UNCHANGED <<login, tokens, time>>, Remember,
           kind = "remove" => Admins(copy) # {}
    PROVE  /\ accounts' \in Lists /\ copy' = accounts' /\ readAt' = time
           /\ changes' \in 0..MaxChanges /\ faults' \in 0..MaxFaults
           /\ asOf' = time /\ blind' \in BOOLEAN /\ seen' \in BOOLEAN
           /\ PasswordsInv' /\ CopyInv' /\ AdminsInv'
<1>1. AccountsTypeOK /\ PasswordsInv /\ CopyInv /\ AdminsInv
  BY DEF AccountsInv
<1>2. PICK list \in {accounts, copy} :
        /\ Change(list, n, role, kind)
        /\ copy' = accounts' /\ readAt' = time /\ faults' \in 0..MaxFaults
        /\ faults' = faults /\ Admins(accounts) # {} => list = accounts
  BY <1>1, ServerLists
<1>3. list \in Lists /\ time \in Nat
  BY <1>1 DEF AccountsTypeOK, AccountsConstants, AccountBoundsAssumption
<1>4. /\ accounts' \in Lists /\ changes' \in 0..MaxChanges /\ changes' \in {changes, changes + 1}
      /\ Admins(list) # {} => Admins(accounts') # {}
      /\ kind # "remove" => n \in Live(accounts')
      /\ \A k \in Passwords(accounts') :
            \/ k \in Passwords(list)
            \/ changes' = changes + 1 /\ k = <<changes + 1, accounts'[n].stamp>>
  BY <1>1, <1>2, <1>3, ChangeTypes, ChangeEffect
<1>5. CopyInv' /\ blind' \in BOOLEAN /\ seen' \in BOOLEAN
  BY <1>1, <1>2, <1>3, RememberStep
<1>6. asOf' = time
  BY <1>2 DEF Remember
<1>7. PasswordsInv'
  <2>1. PICK x : x = accounts'[n].stamp
    OBVIOUS
  <2>2. \A k \in Known' : k \in Known \/ (changes' = changes + 1 /\ k = <<changes + 1, x>>)
    BY <1>2, <1>4, <2>1 DEF Known
  <2> QED
    BY <1>1, <1>4, <2>2, PasswordsKeep
<1>8. AdminsInv'
  <2>1. Live(copy') # {}
    <3>1. CASE kind # "remove"
      BY <1>2, <1>4, <3>1
    <3>2. CASE kind = "remove"
      <4>1. Admins(list) # {}
        BY <1>1, <1>2, <3>2 DEF AdminsInv
      <4> QED
        BY <1>2, <1>4, <4>1 DEF Admins
    <3> QED
      BY <3>1, <3>2
  <2>2. Live(copy') # {} <=> copy' # None
    BY <1>2, <1>4, EmptyList
  <2> QED
    BY <1>2, <2>1, <2>2 DEF AdminsInv, Remember
<1> QED
  BY <1>2, <1>4, <1>5, <1>6, <1>7, <1>8

\* The routes for users: what an admin removes is never the last admin.
LEMMA RouteStep ==
    ASSUME AccountsConstants, AccountsInv, NEW token \in Tokens, NEW n \in Names,
           NEW role \in Roles, NEW kind, Route(token, n, role, kind)
    PROVE  AccountsInv'
<1>1. PICK by \in Names :
        /\ by \in Live(copy)
        /\ copy[by].role = "admin" \/ (kind = "passwd" /\ by = n)
        /\ Server(n, role, kind)
        /\ outcome' = [token |-> token, as |-> copy[by].role]
        /\ UNCHANGED <<login, tokens, time>> /\ Remember
  BY DEF Route, Holder, Grants
<1>2. kind = "remove" => Admins(copy) # {}
  BY <1>1 DEF Admins
<1>3. /\ accounts' \in Lists /\ copy' = accounts' /\ readAt' = time
      /\ changes' \in 0..MaxChanges /\ faults' \in 0..MaxFaults
      /\ asOf' = time /\ blind' \in BOOLEAN /\ seen' \in BOOLEAN
      /\ PasswordsInv' /\ CopyInv' /\ AdminsInv'
  BY <1>1, <1>2, ServerStep
<1>4. copy[by].role \in Roles
  BY <1>1 DEF AccountsInv, AccountsTypeOK, Lists, Live, Account
<1>5. AccountsTypeOK'
  BY <1>1, <1>3, <1>4 DEF AccountsInv, AccountsTypeOK, AccountsConstants, AccountBoundsAssumption
<1>6. TokensFollowAccounts'
  BY <1>1, <1>3 DEF TokensFollowAccounts, AccountsInv, AccountsTypeOK
<1> QED
  BY <1>3, <1>5, <1>6 DEF AccountsInv

\* The first-run wizard adds an admin, and never removes.
LEMMA WizardStep ==
    ASSUME AccountsConstants, AccountsInv, NEW n \in Names, Wizard(n) PROVE AccountsInv'
<1>1. /\ Server(n, "admin", "add") /\ UNCHANGED <<login, tokens, time>> /\ Remember
      /\ outcome' = [token |-> NoToken, as |-> "wizard"] /\ "admin" \in Roles
  BY DEF Wizard, Roles
<1>2. /\ accounts' \in Lists /\ copy' = accounts' /\ readAt' = time
      /\ changes' \in 0..MaxChanges /\ faults' \in 0..MaxFaults
      /\ asOf' = time /\ blind' \in BOOLEAN /\ seen' \in BOOLEAN
      /\ PasswordsInv' /\ CopyInv' /\ AdminsInv'
  BY <1>1, ServerStep
<1>3. AccountsTypeOK'
  BY <1>1, <1>2 DEF AccountsInv, AccountsTypeOK, AccountsConstants, AccountBoundsAssumption
<1>4. TokensFollowAccounts'
  BY <1>1, <1>2 DEF TokensFollowAccounts, Roles
<1> QED
  BY <1>2, <1>3, <1>4 DEF AccountsInv

\* Requests that only look: a login's first half, any request, the status page.
LEMMA LookStep ==
    ASSUME AccountsConstants, AccountsInv, RefreshUsers, Remember,
           UNCHANGED <<accounts, tokens, changes, time>>,
           \/ login' = login
           \/ \E n \in Live(copy') :
                 login' = [id |-> copy'[n].id, pw |-> copy'[n].pw, stamp |-> copy'[n].stamp],
           outcome' \in [token : Tokens \cup {NoToken}, as : Roles \cup {"nobody", "stale"}]
    PROVE  AccountsInv'
<1>1. AccountsTypeOK /\ PasswordsInv /\ CopyInv /\ AdminsInv
  BY DEF AccountsInv
<1>2. /\ copy' \in {accounts, copy} /\ copy' \in Lists
      /\ readAt' \in 0..time /\ faults' \in 0..MaxFaults
      /\ asOf' \in 0..time /\ blind' \in BOOLEAN /\ seen' \in BOOLEAN
      /\ CopyInv' /\ AdminsInv'
      /\ time - asOf' <= 1 \/ blind'
  BY <1>1, RefreshStep
<1>3. login' \in Found \cup {NoAccount}
  BY <1>1, <1>2 DEF AccountsTypeOK, Lists, Live, Account, Found
<1>4. AccountsTypeOK'
  BY <1>1, <1>2, <1>3 DEF AccountsTypeOK
<1>5. PasswordsInv'
  <2>1. Passwords(copy') \subseteq Known /\ Passwords(accounts') \subseteq Known
    BY <1>2 DEF Known
  <2>2. \A k \in Known' : k \in Known
    <3>1. CASE login' = login
      BY <2>1, <3>1 DEF Known
    <3>2. ASSUME NEW n \in Live(copy'),
                 login' = [id |-> copy'[n].id, pw |-> copy'[n].pw, stamp |-> copy'[n].stamp]
          PROVE  \A k \in Known' : k \in Known
      <4>1. <<login'.pw, login'.stamp>> \in Passwords(copy')
        BY <3>2 DEF Passwords
      <4> QED
        BY <2>1, <4>1 DEF Known
    <3> QED
      BY <3>1, <3>2
  <2> QED
    BY <1>1, <2>2, PasswordsKeep
<1>6. TokensFollowAccounts'
  BY <1>2 DEF TokensFollowAccounts
<1> QED
  BY <1>2, <1>4, <1>5, <1>6 DEF AccountsInv

\* The second half of a login, right or wrong.
LEMMA MintStep ==
    ASSUME AccountsConstants, AccountsInv, NEW token \in Tokens, Mint(token)
    PROVE  AccountsInv'
<1> USE DEF AccountsConstants, AccountBoundsAssumption
<1>1. AccountsTypeOK /\ PasswordsInv /\ CopyInv /\ AdminsInv
  BY DEF AccountsInv
<1>2. /\ UNCHANGED <<accounts, mem, copy, readAt, changes, faults, time>>
      /\ login' = NoAccount /\ outcome' = Nothing /\ Remember
      /\ login \in Found
  BY <1>1 DEF Mint, mem, AccountsTypeOK
<1>3. PICK new : new = [id |-> login.id, pw |-> login.pw, iat |-> Iat(login), minted |-> time]
  OBVIOUS
<1>4. tokens' = [tokens EXCEPT ![token] = new]
  BY <1>3 DEF Mint
<1>5. /\ new.pw = login.pw /\ new.minted = time
      /\ new.iat = time \/ new.iat > time
      /\ new.iat > login.stamp /\ new \in Token
  <2>1. /\ time \in 1..MaxTime /\ MaxTime \in Nat
        /\ login.stamp \in 0..MaxTime /\ login.id \in 1..MaxChanges /\ login.pw \in 1..MaxChanges
    BY <1>1, <1>2 DEF AccountsTypeOK, Found
  <2>2. Iat(login) \in 1..MaxTime + 1 /\ Iat(login) > login.stamp /\ Iat(login) >= time
    BY <2>1 DEF Iat
  <2>3. new.iat = Iat(login) /\ new.minted = time /\ new.pw = login.pw
    BY <1>3
  <2>4. new \in Token
    BY <1>3, <2>1, <2>2 DEF Token
  <2>5. Iat(login) = time \/ Iat(login) > time
    BY <2>1, <2>2
  <2> QED
    BY <2>2, <2>3, <2>4, <2>5
<1>6. CopyInv' /\ asOf' \in 0..time /\ blind' \in BOOLEAN /\ seen' \in BOOLEAN
  BY <1>1, <1>2, RememberStep
<1>7. AccountsTypeOK'
  BY <1>1, <1>2, <1>4, <1>5, <1>6, NothingServed DEF AccountsTypeOK
<1>8. PasswordsInv'
  <2>1. <<login.pw, login.stamp>> \in Known
    BY <1>1, <1>2 DEF Known, AccountsAssumption
  <2>2. \A k \in Known' : k \in Known
    BY <1>2 DEF Known
  <2>3. \A k \in Known : k[1] = login.pw => k[2] = login.stamp
    BY <1>1, <2>1 DEF PasswordsInv
  <2>4. login.pw <= changes
    BY <1>1, <2>1 DEF PasswordsInv
  <2>5. \A t \in Tokens : t # token => tokens'[t] = tokens[t]
    BY <1>1, <1>4 DEF AccountsTypeOK
  <2>6. tokens'[token] = new
    BY <1>1, <1>4 DEF AccountsTypeOK
  <2>7. /\ new.pw <= changes'
        /\ new.iat = new.minted \/ new.iat > new.minted
        /\ \A k \in Known' : k[1] = new.pw => new.iat > k[2]
    BY <1>2, <1>5, <2>2, <2>3, <2>4
  <2>8. /\ \A k \in Known' : k[1] <= changes'
        /\ \A k, l \in Known' : k[1] = l[1] => k[2] = l[2]
    BY <1>1, <1>2, <2>2 DEF PasswordsInv
  <2>9. ASSUME NEW t \in Tokens, tokens'[t] # NoToken
        PROVE  /\ tokens'[t].pw <= changes'
               /\ tokens'[t].iat = tokens'[t].minted \/ tokens'[t].iat > tokens'[t].minted
               /\ \A k \in Known' : k[1] = tokens'[t].pw => tokens'[t].iat > k[2]
    <3>1. CASE t = token
      BY <2>6, <2>7, <3>1
    <3>2. CASE t # token
      BY <1>1, <1>2, <2>2, <2>5, <2>9, <3>2 DEF PasswordsInv
    <3> QED
      BY <3>1, <3>2
  <2> QED
    BY <2>8, <2>9 DEF PasswordsInv
<1>9. AdminsInv'
  <2>1. Live(copy) # {} <=> copy # None
    BY <1>1, EmptyList DEF AccountsTypeOK
  <2> QED
    BY <1>1, <1>2, <2>1 DEF AdminsInv, Remember, AccountsTypeOK
<1> QED
  BY <1>2, <1>6, <1>7, <1>8, <1>9, NothingServed DEF AccountsInv

\* A login that fails leaves nothing behind.
LEMMA FailStep ==
    ASSUME AccountsConstants, AccountsInv, Fail PROVE AccountsInv'
<1>1. AccountsTypeOK /\ PasswordsInv /\ CopyInv /\ AdminsInv
  BY DEF AccountsInv
<1>2. /\ UNCHANGED <<accounts, mem, copy, readAt, tokens, changes, faults, time>>
      /\ login' = NoAccount /\ outcome' = Nothing /\ Remember
  BY DEF Fail, mem
<1>3. CopyInv' /\ asOf' \in 0..time /\ blind' \in BOOLEAN /\ seen' \in BOOLEAN
  BY <1>1, <1>2, RememberStep
<1>4. AccountsTypeOK'
  BY <1>1, <1>2, <1>3, NothingServed DEF AccountsTypeOK
<1>5. PasswordsInv'
  <2>1. \A k \in Known' : k \in Known
    BY <1>2 DEF Known
  <2> QED
    BY <1>1, <1>2, <2>1, PasswordsKeep
<1>6. AdminsInv'
  <2>1. Live(copy) # {} <=> copy # None
    BY <1>1, EmptyList DEF AccountsTypeOK
  <2> QED
    BY <1>1, <1>2, <2>1 DEF AdminsInv, Remember, AccountsTypeOK
<1> QED
  BY <1>2, <1>3, <1>4, <1>5, <1>6, NothingServed DEF AccountsInv

\* A server that starts has the list, or could not read it.
LEMMA RestartStep ==
    ASSUME AccountsConstants, AccountsInv, Restart PROVE AccountsInv'
<1>1. AccountsTypeOK /\ PasswordsInv /\ CopyInv /\ AdminsInv
  BY DEF AccountsInv
<1>2. /\ UNCHANGED <<accounts, tokens, changes, time>>
      /\ copy' \in {accounts, None} /\ faults' \in 0..MaxFaults
      /\ readAt' = 0 /\ login' = NoAccount /\ outcome' = Nothing
      /\ asOf' = IF copy' = accounts THEN time ELSE asOf
      /\ blind' = (copy' # accounts) /\ seen' = (Live(copy') # {})
  BY <1>1 DEF Restart, AccountsTypeOK, AccountsConstants, AccountBoundsAssumption
<1>3. None \in Lists /\ Passwords(None) = {} /\ Admins(None) = {}
  BY DEF None, Lists, Passwords, Admins, Live
<1>4. AccountsTypeOK'
  BY <1>1, <1>2, <1>3, NothingServed
     DEF AccountsTypeOK, AccountsConstants, AccountBoundsAssumption
<1>5. PasswordsInv'
  <2>1. \A k \in Known' : k \in Known
    BY <1>2, <1>3 DEF Known
  <2> QED
    BY <1>1, <1>2, <2>1, PasswordsKeep
<1>6. CopyInv'
  BY <1>1, <1>2 DEF CopyInv, AccountsTypeOK
<1>7. AdminsInv'
  <2>1. Live(copy') # {} <=> copy' # None
    BY <1>4, EmptyList DEF AccountsTypeOK
  <2> QED
    BY <1>2, <1>3, <2>1 DEF AdminsInv
<1> QED
  BY <1>2, <1>4, <1>5, <1>6, <1>7, NothingServed DEF AccountsInv

\* A second later, what was read in the one before is to be read again.
LEMMA SecondStep ==
    ASSUME AccountsConstants, AccountsInv, Second PROVE AccountsInv'
<1>1. AccountsTypeOK /\ PasswordsInv /\ CopyInv /\ AdminsInv
  BY DEF AccountsInv
<1>2. /\ time < MaxTime /\ time' = time + 1 /\ time \in 1..MaxTime /\ MaxTime \in Nat
      /\ readAt' = IF readAt = time THEN readAt ELSE 0
      /\ asOf' = IF copy = accounts THEN time' ELSE IF asOf = time THEN asOf ELSE 0
      /\ outcome' = Nothing
      /\ UNCHANGED <<accounts, copy, login, tokens, changes, faults, blind, seen>>
  BY <1>1 DEF Second, AccountsTypeOK, AccountsConstants, AccountBoundsAssumption
<1>3. AccountsTypeOK'
  BY <1>1, <1>2, NothingServed DEF AccountsTypeOK
<1>4. PasswordsInv'
  <2>1. \A k \in Known' : k \in Known
    BY <1>2 DEF Known
  <2> QED
    BY <1>1, <1>2, <2>1, PasswordsKeep
<1>5. CopyInv'
  BY <1>1, <1>2 DEF CopyInv, AccountsTypeOK
<1>6. AdminsInv'
  BY <1>1, <1>2 DEF AdminsInv
<1> QED
  BY <1>2, <1>3, <1>4, <1>5, <1>6, NothingServed DEF AccountsInv

\* Nothing changes when nothing happens.
LEMMA AccountsStutter ==
    ASSUME AccountsInv, UNCHANGED vars PROVE AccountsInv'
<1>1. /\ AccountsTypeOK /\ PasswordsInv /\ CopyInv /\ AdminsInv /\ TokensFollowAccounts
      /\ UNCHANGED <<accounts, copy, readAt, login, tokens, outcome, changes, faults, time,
                     asOf, blind, seen>>
  BY DEF AccountsInv, vars, mem, history
<1>2. AccountsTypeOK'
  BY <1>1 DEF AccountsTypeOK
<1>3. PasswordsInv'
  BY <1>1 DEF PasswordsInv, Known
<1>4. CopyInv' /\ AdminsInv' /\ TokensFollowAccounts'
  BY <1>1 DEF CopyInv, AdminsInv, TokensFollowAccounts
<1> QED
  BY <1>2, <1>3, <1>4 DEF AccountsInv

\* Every step keeps the invariant.
LEMMA AccountsStep ==
    ASSUME AccountsConstants, AccountsInv, [Next]_vars PROVE AccountsInv'
<1>1. ASSUME NEW n \in Names, Login(n) PROVE AccountsInv'
  <2>1. /\ RefreshUsers /\ Remember /\ UNCHANGED <<accounts, tokens, changes, time>>
        /\ \E m \in Live(copy') :
              login' = [id |-> copy'[m].id, pw |-> copy'[m].pw, stamp |-> copy'[m].stamp]
        /\ outcome' \in [token : Tokens \cup {NoToken}, as : Roles \cup {"nobody", "stale"}]
    BY <1>1 DEF Login, Nothing
  <2> QED
    BY <2>1, LookStep
<1>2. ASSUME NEW t \in Tokens, Request(t) PROVE AccountsInv'
  <2>1. RefreshUsers /\ Remember /\ UNCHANGED <<accounts, login, tokens, changes, time>>
    BY <1>2 DEF Request
  <2>2. copy' \in Lists
    BY <2>1, RefreshStep DEF AccountsInv
  <2>3. outcome' \in [token : Tokens \cup {NoToken}, as : Roles \cup {"nobody", "stale"}]
    <3>1. CASE \E n \in Names :
                  Grants(copy', t, n) /\ outcome' = [token |-> t, as |-> copy'[n].role]
      BY <2>2, <3>1 DEF Grants, Lists, Live, Account
    <3>2. CASE outcome' = [token |-> t, as |-> "stale"]
      BY <3>2
    <3> QED
      BY <1>2, <3>1, <3>2 DEF Request
  <2> QED
    BY <2>1, <2>3, LookStep
<1>3. ASSUME Bootstrap PROVE AccountsInv'
  <2>1. /\ RefreshUsers /\ Remember /\ UNCHANGED <<accounts, login, tokens, changes, time>>
        /\ outcome' \in [token : Tokens \cup {NoToken}, as : Roles \cup {"nobody", "stale"}]
    BY <1>3 DEF Bootstrap, Nothing
  <2> QED
    BY <2>1, LookStep
<1> QED
  BY <1>1, <1>2, <1>3, CliStep, RouteStep, WizardStep, MintStep, FailStep, RestartStep,
     SecondStep, AccountsStutter DEF Next

-----------------------------------------------------------------------------
(* The theorems.                                                           *)

(***************************************************************************)
(* The inductive invariant holds, for any number of names, tokens and      *)
(* changes, failed reads of the server and restarts.                       *)
(***************************************************************************)
THEOREM AccountsInvariant == ASSUME AccountsConstants PROVE Spec => []AccountsInv
<1>1. Init => AccountsInv
  <2> SUFFICES ASSUME Init PROVE AccountsInv
    OBVIOUS
  <2> USE DEF Init, AccountsConstants, AccountBoundsAssumption
  <2>1. Live(None) = {} /\ None \in Lists /\ Passwords(None) = {} /\ Admins(None) = {}
    BY DEF None, Live, Lists, Passwords, Admins
  <2>2. Known = {}
    BY <2>1 DEF Known
  <2>3. AccountsTypeOK
    <3>1. accounts \in Lists /\ copy \in Lists /\ login \in Found \cup {NoAccount}
      BY <2>1
    <3>2. tokens \in [Tokens -> Token \cup {NoToken}]
      OBVIOUS
    <3>3. outcome \in [token : Tokens \cup {NoToken},
                      as : Roles \cup {"nobody", "wizard", "stale"}]
      BY DEF Nothing
    <3>4. changes \in 0..MaxChanges /\ faults \in 0..MaxFaults
      OBVIOUS
    <3>5. time \in 1..MaxTime /\ readAt \in 0..time /\ asOf \in 0..time
      <4>1. time = 1 /\ readAt = 0 /\ asOf = 1 /\ MaxTime \in Nat \ {0}
        OBVIOUS
      <4> HIDE DEF Init, AccountsConstants
      <4> QED
        BY <4>1
    <3>6. blind \in BOOLEAN /\ seen \in BOOLEAN
      OBVIOUS
    <3> QED
      BY <3>1, <3>2, <3>3, <3>4, <3>5, <3>6 DEF AccountsTypeOK
  <2>4. PasswordsInv
    BY <2>2 DEF PasswordsInv
  <2>5. CopyInv /\ AdminsInv
    BY <2>1 DEF CopyInv, AdminsInv
  <2>6. TokensFollowAccounts
    BY DEF TokensFollowAccounts, Nothing, Roles
  <2> QED
    BY <2>3, <2>4, <2>5, <2>6 DEF AccountsInv
<1>2. AccountsInv /\ [Next]_vars => AccountsInv'
  BY AccountsStep
<1> QED
  BY <1>1, <1>2, PTL DEF Spec

(***************************************************************************)
(* Removing an account, resetting its password or demoting it reaches a    *)
(* running server within a second: Accounts' TokensFollowAccounts.         *)
(***************************************************************************)
THEOREM ServedAsEntitled == ASSUME AccountsConstants PROVE Spec => []TokensFollowAccounts
<1>1. AccountsInv => TokensFollowAccounts
  BY DEF AccountsInv
<1> QED
  BY <1>1, AccountsInvariant, PTL

(***************************************************************************)
(* A reset ends what was signed in before it and nothing else: Accounts'   *)
(* ResetsEndTokens.                                                        *)
(***************************************************************************)
THEOREM ResetsTakeHold == ASSUME AccountsConstants PROVE Spec => []ResetsEndTokens
<1>1. AccountsInv => ResetsEndTokens
  <2> SUFFICES ASSUME AccountsInv, NEW t \in Tokens, NEW n \in Names,
                      tokens[t] # NoToken, n \in Live(accounts), accounts[n].id = tokens[t].id
               PROVE  /\ tokens[t].pw = accounts[n].pw => Grants(accounts, t, n)
                      /\ tokens[t].pw # accounts[n].pw /\ Grants(accounts, t, n) =>
                            \/ tokens[t].minted > accounts[n].stamp
                            \/ tokens[t].iat > tokens[t].minted
    BY DEF ResetsEndTokens
  <2>1. <<accounts[n].pw, accounts[n].stamp>> \in Known
    BY DEF Known, Passwords
  <2>2. tokens[t].pw = accounts[n].pw => tokens[t].iat > accounts[n].stamp
    BY <2>1 DEF AccountsInv, PasswordsInv
  <2>3. tokens[t].iat = tokens[t].minted \/ tokens[t].iat > tokens[t].minted
    BY DEF AccountsInv, PasswordsInv
  <2>4. tokens[t].minted > 0
    BY DEF AccountsInv, AccountsTypeOK, Token, AccountsConstants, AccountBoundsAssumption
  <2> QED
    BY <2>2, <2>3, <2>4 DEF Grants
<1> QED
  BY <1>1, AccountsInvariant, PTL

(***************************************************************************)
(* Once there is an admin there is one for ever, unless the list could not *)
(* be read under the lock: Accounts' LastAdminStays.                       *)
(***************************************************************************)
THEOREM AnAdminRemains == ASSUME AccountsConstants PROVE Spec => LastAdminStays
<1>1. ASSUME AccountsInv, [Next]_vars, Admins(accounts) # {}
      PROVE  Admins(accounts') # {} \/ faults' # faults
  <2>1. AccountsTypeOK /\ accounts \in Lists
    BY <1>1 DEF AccountsInv, AccountsTypeOK
  <2>2. ASSUME NEW n \in Names, NEW role \in Roles, NEW kind, Cli(n, role, kind)
        PROVE  Admins(accounts') # {}
    BY <1>1, <2>1, <2>2, ChangeEffect DEF Cli
  <2>3. ASSUME NEW n \in Names, NEW role \in Roles, NEW kind,
               Server(n, role, kind), faults' = faults
        PROVE  Admins(accounts') # {}
    <3>1. Change(accounts, n, role, kind)
      BY <1>1, <2>1, <2>3, ServerLists
    <3> QED
      BY <1>1, <2>1, <3>1, ChangeEffect
  <2>4. ASSUME NEW n \in Names, NEW role \in Roles, NEW kind, NEW token \in Tokens,
               Route(token, n, role, kind)
        PROVE  Admins(accounts') # {} \/ faults' # faults
    BY <2>3, <2>4 DEF Route
  <2>5. ASSUME NEW n \in Names, Wizard(n) PROVE Admins(accounts') # {} \/ faults' # faults
    BY <2>3, <2>5 DEF Wizard, Roles
  <2>6. CASE UNCHANGED accounts
    BY <1>1, <2>6
  <2> QED
    BY <1>1, <2>2, <2>4, <2>5, <2>6
       DEF Next, Login, Mint, Request, Fail, Bootstrap, Restart, Second, vars
<1>2. AccountsInv /\ [Next]_vars =>
        [Admins(accounts) # {} => Admins(accounts') # {} \/ faults' # faults]_vars
  BY <1>1
<1> QED
  BY <1>2, AccountsInvariant, PTL DEF Spec, LastAdminStays

(***************************************************************************)
(* The first-run wizard, which needs no login, closes: Accounts'           *)
(* WizardCloses.                                                           *)
(***************************************************************************)
THEOREM TheWizardIsShut == ASSUME AccountsConstants PROVE Spec => WizardCloses
<1>1. ASSUME AccountsInv, Next, outcome'.as = "wizard", Live(accounts) # {}
      PROVE  ~seen /\ (time - asOf <= 1 \/ blind)
  <2>1. Nothing.as # "wizard" /\ "wizard" \notin Roles
    BY DEF Nothing, Roles
  <2>2. ASSUME NEW n \in Names, NEW role \in Roles, NEW kind, NEW token \in Tokens,
               Route(token, n, role, kind)
        PROVE  FALSE
    BY <1>1, <2>1, <2>2 DEF Route, Holder, Grants, AccountsInv, AccountsTypeOK, Lists, Live, Account
  <2>3. ASSUME NEW t \in Tokens, Request(t) PROVE FALSE
    <3>1. copy' \in Lists
      BY <1>1, <2>3, RefreshStep DEF Request, AccountsInv
    <3> QED
      BY <1>1, <2>1, <2>3, <3>1 DEF Request, Grants, Lists, Live, Account
  <2>4. ASSUME NEW n \in Names, Wizard(n) PROVE ~seen /\ (time - asOf <= 1 \/ blind)
    <3>1. copy = None /\ readAt > 0 /\ time - readAt < 2
      BY <2>4 DEF Wizard, Recent, USER_REVALIDATE
    <3>2. copy # accounts
      BY <1>1, <3>1 DEF Live, None
    <3>3. ~seen
      BY <1>1, <3>1 DEF AccountsInv, AdminsInv
    <3>4. ASSUME ~blind PROVE time - asOf <= 1
      <4>1. asOf >= readAt /\ asOf \in Int /\ readAt \in Int /\ time \in Int
        BY <1>1, <3>2, <3>4
           DEF AccountsInv, CopyInv, AccountsTypeOK, AccountsConstants, AccountBoundsAssumption
      <4>2. \A a, b, t \in Int : t - b < 2 /\ a >= b => t - a <= 1
        OBVIOUS
      <4> QED
        BY <3>1, <4>1, <4>2
    <3> QED
      BY <3>3, <3>4
  <2> QED
    BY <1>1, <2>1, <2>2, <2>3, <2>4
       DEF Next, Cli, Login, Mint, Fail, Bootstrap, Restart, Second
<1>2. AccountsInv /\ [Next]_vars =>
        [outcome'.as = "wizard" /\ Live(accounts) # {} =>
            ~seen /\ (time - asOf <= 1 \/ blind)]_vars
  BY <1>1
<1> QED
  BY <1>2, AccountsInvariant, PTL DEF Spec, WizardCloses

-----------------------------------------------------------------------------
(* The life of the server: what a command knows, and what is alive.        *)

ServiceSpec == ServiceInit /\ [][ServiceNext]_serviceVars

\* What a command is when there is one.
Command ==
    [name : {"start", "stop", "restart"}, at : Places, pid : Pids \cup {NoPid},
     said : {"nothing", "already running", "started", "not answering", "stopped"}]

CommandsTyped == command \in [Operators -> Command \cup {NoCommand}]

\* The server that listens lives, and what systemd counts as its own is a server.
ProcessInv ==
    /\ port # NoPid => process[port] \in {"server", "ending"}
    /\ main # NoPid => systemd /\ process[main] \in Ours

\* A command under way has said nothing yet, one that waits for a process knows its number,
\* and only without the unit is there a process that is not recorded.
CommandInv ==
    \A o \in Operators :
        /\ o \in Busy => command[o].said = "nothing"
        /\ command[o].at \in {"spawned", "waiting", "ending"} => command[o].pid \in Pids
        /\ command[o].at = "spawned" => ~systemd

\* One command at a time: a server is the one that status() finds or has just been spawned,
\* and who waits for a process waits for the one that status() finds.
AloneInv ==
    ~apart =>
        /\ \A o, q \in Busy : o = q
        /\ \A p \in Pids : process[p] \in Ours =>
               p = Running \/ \E o \in Operators : command[o].at = "spawned" /\ command[o].pid = p
        /\ \A o \in Operators :
               /\ command[o].at = "spawned" => pidFile = NoPid
               /\ command[o].at \in {"waiting", "ending"} =>
                      Running = command[o].pid \/ (systemd /\ main = NoPid)

StateTyped ==
    /\ process \in [Pids -> Programs]
    /\ port \in Pids \cup {NoPid} /\ pidFile \in Pids \cup {NoPid} /\ main \in Pids \cup {NoPid}
    /\ systemd \in BOOLEAN /\ apart \in BOOLEAN /\ commands \in 0..MaxCommands

ServiceInv == StateTyped /\ CommandsTyped /\ ProcessInv /\ CommandInv /\ AloneInv

\* A command there is has another shape than none.
LEMMA CommandShape ==
    ASSUME CommandsTyped
    PROVE  \A o \in Operators :
               /\ command[o] # NoCommand <=> command[o] \in Command
               /\ command[o] # NoCommand <=> command[o].at # "none"
               /\ command[o] # NoCommand => command[o].at \in Places
               /\ o \in Busy <=> command[o].at \notin {"none", "answered"}
<1> SUFFICES ASSUME NEW o \in Operators
             PROVE  /\ command[o] # NoCommand <=> command[o] \in Command
                    /\ command[o] # NoCommand <=> command[o].at # "none"
                    /\ command[o] # NoCommand => command[o].at \in Places
                    /\ o \in Busy <=> command[o].at \notin {"none", "answered"}
  OBVIOUS
<1>1. command[o] \in Command \cup {NoCommand}
  BY DEF CommandsTyped
<1>2. \A c \in Command : c.at \in Places
  BY DEF Command
<1>3. "none" \notin Places /\ NoCommand.at = "none"
  BY DEF Places, NoCommand
<1>4. o \in Busy <=> command[o] # NoCommand /\ command[o].at # "answered"
  BY DEF Busy
<1> QED
  BY <1>1, <1>2, <1>3, <1>4

\* One command changes, and is what it is set to.
LEMMA CommandStep ==
    ASSUME CommandsTyped, NEW o \in Operators, NEW c \in Command \cup {NoCommand},
           command' = [command EXCEPT ![o] = c]
    PROVE  /\ CommandsTyped' /\ command'[o] = c
           /\ \A q \in Operators : q # o => command'[q] = command[q]
  BY DEF CommandsTyped

\* What the operators of the module make of a command.
LEMMA CommandSets ==
    ASSUME CommandsTyped, NEW o \in Operators, command[o] \in Command
    PROVE  /\ \A at \in Places : Set(o, at) =>
                  command' = [command EXCEPT ![o] = [command[o] EXCEPT !.at = at]]
           /\ \A said : Say(o, said) =>
                  command' = [command EXCEPT ![o] =
                                 [command[o] EXCEPT !.at = "answered", !.said = said]]
  BY DEF CommandsTyped, Set, Say, Command

\* GEN
\* A process that is gone is not the one that listens, nor the one of systemd.
LEMMA GoneStep ==
    ASSUME ServiceAssumption, StateTyped, ProcessInv, NEW p \in Pids, Gone(p), UNCHANGED systemd
    PROVE  /\ process' \in [Pids -> Programs]
           /\ port' \in Pids \cup {NoPid} /\ main' \in Pids \cup {NoPid}
           /\ ProcessInv'
           /\ process'[p] = "none" /\ \A q \in Pids : q # p => process'[q] = process[q]
           /\ main' = main \/ (main' = NoPid /\ main = p)
<1>1. process' \in [Pids -> Programs]
  BY DEF Gone, StateTyped, Programs
<1>2. process'[p] = "none" /\ \A q \in Pids : q # p => process'[q] = process[q]
  BY DEF Gone, StateTyped
<1>3. port' \in Pids \cup {NoPid} /\ main' \in Pids \cup {NoPid}
  BY DEF Gone, StateTyped
<1>4. main' = main \/ (main' = NoPid /\ main = p)
  BY DEF Gone
<1>5. (port' # NoPid => port' = port /\ port # p) /\ (main' # NoPid => main' = main /\ main # p)
  BY DEF Gone
<1>6. ProcessInv'
  BY <1>2, <1>3, <1>5 DEF ProcessInv, StateTyped
<1> QED
  BY <1>1, <1>2, <1>3, <1>4, <1>6

\* Whatever ends, nothing more is a server.
LEMMA FewerServers ==
    ASSUME ServiceAssumption, ServiceInv, UNCHANGED <<pidFile, systemd, command, apart>>,
           main' = main \/ (main' = NoPid /\ process'[main] = "none"),
           \A q \in Pids : process'[q] \in Ours => process[q] \in Ours
    PROVE  AloneInv'
<1> SUFFICES ASSUME ~apart
             PROVE  /\ \A p \in Pids : process'[p] \in Ours =>
                           \/ p = Running'
                           \/ \E o \in Operators :
                                 command[o].at = "spawned" /\ command[o].pid = p
                    /\ \A o \in Operators : command[o].at \in {"waiting", "ending"} =>
                           Running' = command[o].pid \/ (systemd /\ main' = NoPid)
  BY DEF AloneInv, ServiceInv, Busy
<1>1. Running' = Running \/ (systemd /\ main' = NoPid /\ process'[main] = "none")
  BY DEF Running, ServiceInv, StateTyped
<1>2. systemd => Running = main
  BY DEF Running, ServiceInv, StateTyped
<1>3. "none" \notin Ours
  BY DEF Ours
<1> QED
  BY <1>1, <1>2, <1>3 DEF AloneInv, ServiceInv

\* Of the commands nothing changes.
LEMMA CommandsStay ==
    ASSUME CommandsTyped, CommandInv, UNCHANGED <<systemd, command>>
    PROVE  CommandsTyped' /\ CommandInv' /\ Busy' = Busy
  BY DEF CommandsTyped, CommandInv, Busy

LEMMA BootsStep ==
    ASSUME ServiceAssumption, ServiceInv, NEW p \in Pids, Boots(p)
    PROVE  ServiceInv'
<1>1. CommandsTyped' /\ CommandInv'
  BY CommandsStay DEF ServiceInv, Boots
<1>2. CASE port = NoPid /\ port' = p /\ process' = [process EXCEPT ![p] = "server"] /\ main' = main
  <2>1. process' \in [Pids -> Programs]
    BY <1>2 DEF ServiceInv, StateTyped, Programs
  <2>2. process'[p] = "server" /\ \A q \in Pids : q # p => process'[q] = process[q]
    BY <1>2 DEF ServiceInv, StateTyped
  <2>3. StateTyped'
    BY <1>2, <2>1 DEF ServiceInv, StateTyped, Boots
  <2>4. ProcessInv'
    BY <1>2, <2>2 DEF ServiceInv, ProcessInv, Boots, Ours, StateTyped
  <2>5. AloneInv'
    BY <1>2, <2>2, FewerServers DEF Boots, Ours
  <2> QED
    BY <1>1, <2>3, <2>4, <2>5 DEF ServiceInv
<1>3. CASE Gone(p)
  <2>1. ProcessInv' /\ StateTyped'
    BY <1>3, GoneStep DEF ServiceInv, Boots, StateTyped
  <2>2. \A q \in Pids : process'[q] \in Ours => process[q] \in Ours
    BY <1>3, GoneStep DEF ServiceInv, Boots, Ours
  <2>3. main' = main \/ (main' = NoPid /\ process'[main] = "none")
    BY <1>3, GoneStep DEF ServiceInv, Boots
  <2>4. AloneInv'
    BY <2>2, <2>3, FewerServers DEF Boots
  <2> QED
    BY <1>1, <2>1, <2>4 DEF ServiceInv
<1> QED
  BY <1>2, <1>3 DEF Boots

LEMMA EndsStep ==
    ASSUME ServiceAssumption, ServiceInv, NEW p \in Pids, Gone(p),
           UNCHANGED <<pidFile, systemd, command, commands, apart>>
    PROVE  ServiceInv'
<1>1. CommandsTyped' /\ CommandInv'
  BY CommandsStay DEF ServiceInv
<1>2. ProcessInv' /\ StateTyped'
  BY GoneStep DEF ServiceInv, StateTyped
<1>3. \A q \in Pids : process'[q] \in Ours => process[q] \in Ours
  BY GoneStep DEF ServiceInv, Ours
<1>4. main' = main \/ (main' = NoPid /\ process'[main] = "none")
  BY GoneStep DEF ServiceInv
<1>5. AloneInv'
  BY <1>3, <1>4, FewerServers
<1> QED
  BY <1>1, <1>2, <1>5 DEF ServiceInv

LEMMA ReusedStep ==
    ASSUME ServiceAssumption, ServiceInv, NEW p \in Pids, Reused(p)
    PROVE  ServiceInv'
<1>1. CommandsTyped' /\ CommandInv'
  BY CommandsStay DEF ServiceInv, Reused
<1> PICK other \in {"node", "other"} : process' = [process EXCEPT ![p] = other]
  BY DEF Reused
<1>2. process'[p] = other /\ \A q \in Pids : q # p => process'[q] = process[q]
  BY DEF ServiceInv, StateTyped
<1>3. process[p] = "none"
  BY DEF Reused
<1>4. StateTyped'
  BY DEF ServiceInv, StateTyped, Reused, Programs
<1>5. ProcessInv'
  BY <1>2, <1>3 DEF ServiceInv, ProcessInv, StateTyped, Reused, Ours
<1>6. \A q \in Pids : process'[q] \in Ours => process[q] \in Ours
  BY <1>2 DEF Ours
<1>7. AloneInv'
  BY <1>6, FewerServers DEF Reused
<1> QED
  BY <1>1, <1>4, <1>5, <1>7 DEF ServiceInv

LEMMA RebootStep ==
    ASSUME ServiceAssumption, ServiceInv, Reboot
    PROVE  ServiceInv'
<1>1. CommandsTyped' /\ CommandInv'
  BY CommandsStay DEF ServiceInv, Reboot
<1>2. StateTyped'
  BY DEF ServiceInv, StateTyped, Reboot, Programs
<1>3. ProcessInv'
  BY DEF ProcessInv, Reboot
<1>4. \A p \in Pids : process'[p] \notin Ours
  BY DEF Reboot, Ours
<1>5. Busy = {} /\ command' = command
  BY DEF Reboot
<1>6. \A o \in Operators : command'[o].at \notin {"spawned", "waiting", "ending"}
  BY <1>5, CommandShape DEF ServiceInv
<1>7. Busy' = {}
  BY <1>5 DEF Busy
<1>8. AloneInv'
  BY <1>4, <1>6, <1>7 DEF AloneInv
<1> QED
  BY <1>1, <1>2, <1>3, <1>8 DEF ServiceInv

LEMMA InstallStep ==
    ASSUME ServiceAssumption, ServiceInv, Install
    PROVE  ServiceInv'
<1>1. Busy = {} /\ command' = command /\ process' = process
  BY DEF Install
<1>2. \A o \in Operators : command[o].at \notin {"spawned", "waiting", "ending"}
  BY <1>1, CommandShape DEF ServiceInv
<1>3. Busy' = {}
  BY <1>1 DEF Busy
<1>4. CommandsTyped' /\ CommandInv'
  BY <1>1, <1>2, <1>3 DEF ServiceInv, CommandsTyped, CommandInv
<1>5. StateTyped' /\ ProcessInv'
  BY DEF ServiceInv, StateTyped, ProcessInv, Install
<1>6. apart' \/ \A p \in Pids : process[p] \notin Ours
  BY DEF Install
<1>7. AloneInv'
  BY <1>1, <1>2, <1>3, <1>6 DEF AloneInv
<1> QED
  BY <1>4, <1>5, <1>7 DEF ServiceInv

\* GEN2
\* One command changes as its own part of the invariant demands.
LEMMA CommandMoves ==
    ASSUME ServiceInv, NEW o \in Operators, NEW c \in Command \cup {NoCommand},
           command' = [command EXCEPT ![o] = c], UNCHANGED systemd,
           c.at \notin {"none", "answered"} => c.said = "nothing",
           c.at \in {"spawned", "waiting", "ending"} => c.pid \in Pids,
           c.at = "spawned" => ~systemd
    PROVE  /\ CommandsTyped' /\ CommandInv' /\ command'[o] = c
           /\ \A q \in Operators : q # o => command'[q] = command[q] /\ (q \in Busy' <=> q \in Busy)
           /\ o \in Busy' <=> c.at \notin {"none", "answered"}
           /\ Busy' \subseteq Operators
<1>1. CommandsTyped' /\ command'[o] = c
  BY CommandStep DEF ServiceInv
<1>2. \A q \in Operators : q # o => command'[q] = command[q]
  BY CommandStep DEF ServiceInv
<1>3. c # NoCommand <=> c.at # "none"
  <2>1. NoCommand.at = "none" /\ "none" \notin Places
    BY DEF NoCommand, Places
  <2>2. \A d \in Command : d.at \in Places
    BY DEF Command
  <2> QED
    BY <2>1, <2>2
<1>4. /\ o \in Busy' <=> c.at \notin {"none", "answered"}
      /\ Busy' \subseteq Operators
      /\ \A q \in Operators : q # o => (q \in Busy' <=> q \in Busy)
  BY <1>1, <1>2, <1>3 DEF Busy
<1>5. ASSUME NEW q \in Operators
      PROVE  /\ q \in Busy' => command'[q].said = "nothing"
             /\ command'[q].at \in {"spawned", "waiting", "ending"} => command'[q].pid \in Pids
             /\ command'[q].at = "spawned" => ~systemd'
  <2>1. CASE q = o
    BY <1>1, <1>4, <2>1
  <2>2. CASE q # o
    BY <1>2, <1>4, <2>2 DEF ServiceInv, CommandInv
  <2> QED
    BY <2>1, <2>2
<1> QED
  BY <1>1, <1>2, <1>4, <1>5 DEF CommandInv

\* Who is alone is the only one with something to do.
LEMMA Alone ==
    ASSUME ServiceInv, ~apart, NEW o \in Busy
    PROVE  \A q \in Operators : q # o => q \notin Busy /\ command[q].at \in {"none", "answered"}
<1>1. Busy \subseteq Operators
  BY DEF Busy
<1> QED
  BY <1>1, CommandShape DEF ServiceInv, AloneInv

\* What is to be shown of the one command that moves while it is alone.
LEMMA AloneStep ==
    ASSUME ServiceInv, NEW o \in Operators, NEW c \in Command \cup {NoCommand},
           command'[o] = c, Busy' \subseteq Operators,
           \A q \in Operators : q # o => command'[q] = command[q] /\ (q \in Busy' <=> q \in Busy),
           ~apart' => /\ ~apart /\ (o \in Busy \/ Busy = {})
                      /\ \A p \in Pids : process'[p] \in Ours =>
                             p = Running' \/ (c.at = "spawned" /\ c.pid = p)
                      /\ c.at = "spawned" => pidFile' = NoPid
                      /\ c.at \in {"waiting", "ending"} =>
                             Running' = c.pid \/ (systemd' /\ main' = NoPid)
    PROVE  AloneInv'
<1> SUFFICES ASSUME ~apart'
             PROVE  /\ \A r, q \in Busy' : r = q
                    /\ \A p \in Pids : process'[p] \in Ours =>
                           \/ p = Running'
                           \/ \E q \in Operators : command'[q].at = "spawned" /\ command'[q].pid = p
                    /\ \A q \in Operators :
                           /\ command'[q].at = "spawned" => pidFile' = NoPid
                           /\ command'[q].at \in {"waiting", "ending"} =>
                                  Running' = command'[q].pid \/ (systemd' /\ main' = NoPid)
  BY DEF AloneInv
<1>1. \A q \in Operators : q # o => q \notin Busy /\ command[q].at \in {"none", "answered"}
  <2>1. CASE o \in Busy
    BY <2>1, Alone
  <2>2. CASE Busy = {}
    BY <2>2, CommandShape DEF ServiceInv
  <2> QED
    BY <2>1, <2>2
<1>2. \A q \in Busy' : q = o
  BY <1>1
<1>3. \A q \in Operators : q # o => command'[q].at \notin {"spawned", "waiting", "ending"}
  BY <1>1
<1> QED
  BY <1>2, <1>3

LEMMA IssueStep ==
    ASSUME ServiceAssumption, ServiceInv, NEW o \in Operators,
           NEW name \in {"start", "stop", "restart"}, Issue(o, name)
    PROVE  ServiceInv'
<1> DEFINE c == [name |-> name, at |-> "begin", pid |-> NoPid, said |-> "nothing"]
<1>1. c \in Command
  BY DEF Command, Places
<1>2. command' = [command EXCEPT ![o] = c]
  BY DEF Issue
<1>3. c.at = "begin" /\ c.said = "nothing"
  OBVIOUS
<1> HIDE DEF c
<1>4. /\ CommandsTyped' /\ CommandInv' /\ command'[o] = c /\ Busy' \subseteq Operators
      /\ \A q \in Operators : q # o => command'[q] = command[q] /\ (q \in Busy' <=> q \in Busy)
  BY <1>1, <1>2, <1>3, CommandMoves DEF Issue
<1>5. StateTyped'
  <2>1. commands' \in 0..MaxCommands
    <3>1. commands \in 0..MaxCommands /\ commands < MaxCommands /\ commands' = commands + 1
      BY DEF ServiceInv, StateTyped, Issue
    <3>2. MaxCommands \in Nat
      BY DEF ServiceAssumption
    <3> QED
      BY <3>1, <3>2
  <2>2. apart' \in BOOLEAN
    BY DEF Issue
  <2> QED
    BY <2>1, <2>2 DEF ServiceInv, StateTyped, Issue
<1>6. ProcessInv'
  BY DEF ServiceInv, ProcessInv, Issue
<1>7. ASSUME ~apart'
      PROVE  /\ ~apart /\ Busy = {}
             /\ \A p \in Pids : process'[p] \in Ours => p = Running'
  <2>1. ~apart /\ Busy = {}
    BY <1>7 DEF Issue
  <2>2. \A q \in Operators : command[q].at # "spawned"
    BY <2>1, CommandShape DEF ServiceInv
  <2>3. Running' = Running /\ process' = process
    BY DEF Running, Issue
  <2> QED
    BY <2>1, <2>2, <2>3 DEF ServiceInv, AloneInv
<1>8. AloneInv'
  BY <1>1, <1>3, <1>4, <1>7, AloneStep
<1> QED
  BY <1>4, <1>5, <1>6, <1>8 DEF ServiceInv

LEMMA DiesStep ==
    ASSUME ServiceAssumption, ServiceInv, NEW o \in Operators, Dies(o)
    PROVE  ServiceInv'
<1> DEFINE c == NoCommand
<1>1. c.at = "none"
  BY DEF NoCommand
<1>2. command' = [command EXCEPT ![o] = c]
  BY DEF Dies
<1>3. c \in Command \cup {NoCommand}
  OBVIOUS
<1> HIDE DEF c
<1>4. /\ CommandsTyped' /\ CommandInv' /\ command'[o] = c /\ Busy' \subseteq Operators
      /\ \A q \in Operators : q # o => command'[q] = command[q] /\ (q \in Busy' <=> q \in Busy)
  BY <1>1, <1>2, <1>3, CommandMoves DEF Dies
<1>5. StateTyped' /\ ProcessInv'
  BY DEF ServiceInv, StateTyped, ProcessInv, Dies
<1>6. ASSUME ~apart'
      PROVE  /\ ~apart /\ o \in Busy
             /\ \A p \in Pids : process'[p] \in Ours => p = Running'
  <2>1. ~apart /\ o \in Busy /\ command[o].at # "spawned"
    BY <1>6 DEF Dies, ServiceInv, StateTyped
  <2>2. \A q \in Operators : command[q].at # "spawned"
    BY <2>1, Alone
  <2>3. Running' = Running /\ process' = process
    BY DEF Running, Dies
  <2> QED
    BY <2>1, <2>2, <2>3 DEF ServiceInv, AloneInv
<1>7. AloneInv'
  BY <1>1, <1>3, <1>4, <1>6, AloneStep
<1> QED
  BY <1>4, <1>5, <1>7 DEF ServiceInv

\* A server is where status() looks, before any has been spawned.
LEMMA ServersAreFound ==
    ASSUME ServiceInv, ~apart, NEW o \in Busy, command[o].at # "spawned"
    PROVE  \A p \in Pids : process[p] \in Ours => p = Running
<1>1. \A q \in Operators : command[q].at # "spawned"
  BY Alone
<1> QED
  BY <1>1 DEF ServiceInv, AloneInv

LEMMA StartStep ==
    ASSUME ServiceAssumption, ServiceInv, NEW o \in Operators, Start(o)
    PROVE  ServiceInv'
<1>1. command[o] \in Command /\ command[o].at = "begin" /\ o \in Busy
  BY CommandShape DEF Start, Is, ServiceInv, Busy
<1>2. pidFile' = Cleared /\ Cleared \in {pidFile, NoPid}
  BY DEF Start, Cleared
<1>3. command[o].said = "nothing"
  BY <1>1 DEF ServiceInv, CommandInv
<1>4. CASE Alive(Running) /\ Say(o, "already running") /\ UNCHANGED <<process, main>>
  <2> DEFINE c == [command[o] EXCEPT !.at = "answered", !.said = "already running"]
  <2>1. command' = [command EXCEPT ![o] = c]
    BY <1>1, <1>4, CommandSets DEF ServiceInv
  <2>2. c \in Command /\ c.at = "answered"
    BY <1>1 DEF Command, Places
  <2> HIDE DEF c
  <2>3. /\ CommandsTyped' /\ CommandInv' /\ command'[o] = c /\ Busy' \subseteq Operators
        /\ \A q \in Operators : q # o => command'[q] = command[q] /\ (q \in Busy' <=> q \in Busy)
    BY <2>1, <2>2, CommandMoves DEF Start
  <2>4. StateTyped' /\ ProcessInv'
    BY <1>2, <1>4 DEF ServiceInv, StateTyped, ProcessInv, Start
  <2>5. Running' = Running
    BY <1>2, <1>4 DEF Running, Cleared, Start
  <2>6. ASSUME ~apart'
        PROVE  ~apart /\ \A p \in Pids : process'[p] \in Ours => p = Running'
    BY <1>1, <1>4, <2>5, <2>6, ServersAreFound DEF Start
  <2>7. AloneInv'
    BY <1>1, <2>2, <2>3, <2>6, AloneStep
  <2> QED
    BY <2>3, <2>4, <2>7 DEF ServiceInv
<1>5. ASSUME ~Alive(Running), NEW p \in Pids, process[p] = "none",
             process' = [process EXCEPT ![p] = "booting"], main' = IF systemd THEN p ELSE main,
             command' = [command EXCEPT ![o].pid = p,
                                        ![o].at = IF systemd THEN "waiting" ELSE "spawned"]
      PROVE  ServiceInv'
  <2> DEFINE at == IF systemd THEN "waiting" ELSE "spawned"
             c == [command[o] EXCEPT !.pid = p, !.at = at]
  <2>1. command' = [command EXCEPT ![o] = c]
    BY <1>1, <1>5 DEF ServiceInv, CommandsTyped, Command
  <2>2. at \in Places /\ at \in {"waiting", "spawned"} /\ (at = "spawned" <=> ~systemd)
    BY DEF Places, ServiceInv, StateTyped
  <2> HIDE DEF at
  <2>3. c \in Command /\ c.at = at /\ c.pid = p /\ c.said = "nothing"
    BY <1>1, <1>3, <2>2 DEF Command
  <2> HIDE DEF c
  <2>4. /\ CommandsTyped' /\ CommandInv' /\ command'[o] = c /\ Busy' \subseteq Operators
        /\ \A q \in Operators : q # o => command'[q] = command[q] /\ (q \in Busy' <=> q \in Busy)
    BY <2>1, <2>2, <2>3, CommandMoves DEF Start
  <2>5. process' \in [Pids -> Programs] /\ process'[p] = "booting"
    BY <1>5 DEF ServiceInv, StateTyped, Programs
  <2>6. \A q \in Pids : q # p => process'[q] = process[q]
    BY <1>5 DEF ServiceInv, StateTyped
  <2>7. StateTyped'
    BY <1>2, <1>5, <2>5 DEF ServiceInv, StateTyped, Start
  <2>8. ProcessInv'
    BY <1>5, <2>5, <2>6 DEF ServiceInv, StateTyped, ProcessInv, Start, Ours
  <2>9. ASSUME ~apart'
        PROVE  /\ ~apart
               /\ \A q \in Pids : process'[q] \in Ours =>
                      q = Running' \/ (c.at = "spawned" /\ c.pid = q)
               /\ c.at = "spawned" => pidFile' = NoPid
               /\ c.at \in {"waiting", "ending"} => Running' = c.pid
    <3>1. ~apart
      BY <2>9 DEF Start
    <3>2. \A q \in Pids : process[q] \notin Ours
      <4>1. ~(process[Running] \in Ours /\ Running \in Pids)
        BY <1>5 DEF Alive, Ours, ServiceAssumption
      <4> QED
        BY <1>1, <3>1, <4>1, ServersAreFound
    <3>3. \A q \in Pids : process'[q] \in Ours => q = p
      BY <2>6, <3>2
    <3>4. systemd => Running' = p
      BY <1>5 DEF Running, Start
    <3>5. ~systemd => pidFile' = NoPid
      BY <1>2, <1>5 DEF Running, Cleared
    <3> QED
      BY <2>2, <2>3, <3>1, <3>3, <3>4, <3>5
  <2>10. AloneInv'
    BY <1>1, <2>3, <2>4, <2>9, AloneStep
  <2> QED
    BY <2>4, <2>7, <2>8, <2>10 DEF ServiceInv
<1> QED
  BY <1>4, <1>5 DEF Start

LEMMA RecordStep ==
    ASSUME ServiceAssumption, ServiceInv, NEW o \in Operators, Record(o)
    PROVE  ServiceInv'
<1>1. command[o] \in Command /\ command[o].at = "spawned" /\ o \in Busy
  BY CommandShape DEF Record, Is, ServiceInv, Busy
<1>2. command[o].said = "nothing" /\ command[o].pid \in Pids /\ ~systemd
  BY <1>1 DEF ServiceInv, CommandInv
<1> DEFINE c == [command[o] EXCEPT !.at = "waiting"]
<1>3. command' = [command EXCEPT ![o] = c]
  BY <1>1, CommandSets DEF ServiceInv, Record, Places
<1>4. c \in Command /\ c.at = "waiting" /\ c.pid = command[o].pid /\ c.said = "nothing"
  BY <1>1, <1>2 DEF Command, Places
<1> HIDE DEF c
<1>5. /\ CommandsTyped' /\ CommandInv' /\ command'[o] = c /\ Busy' \subseteq Operators
      /\ \A q \in Operators : q # o => command'[q] = command[q] /\ (q \in Busy' <=> q \in Busy)
  BY <1>2, <1>3, <1>4, CommandMoves DEF Record
<1>6. StateTyped' /\ ProcessInv'
  BY <1>2 DEF ServiceInv, StateTyped, ProcessInv, Record
<1>7. Running' = c.pid
  BY <1>2, <1>4 DEF Running, Record
<1>8. ASSUME ~apart'
      PROVE  ~apart /\ \A p \in Pids : process'[p] \in Ours => p = Running'
  <2>1. ~apart /\ process' = process
    BY <1>8 DEF Record
  <2>2. \A q \in Operators : q # o => command[q].at # "spawned"
    BY <1>1, <2>1, Alone
  <2>3. Running = NoPid
    BY <1>1, <1>2, <2>1 DEF Running, ServiceInv, AloneInv
  <2>4. \A p \in Pids : process[p] \in Ours => p = Running \/ p = command[o].pid
    BY <2>1, <2>2 DEF ServiceInv, AloneInv
  <2>5. NoPid \notin Pids
    BY DEF ServiceAssumption
  <2> QED
    BY <1>4, <1>7, <2>1, <2>3, <2>4, <2>5
<1>9. AloneInv'
  BY <1>1, <1>4, <1>5, <1>7, <1>8, AloneStep
<1> QED
  BY <1>5, <1>6, <1>9 DEF ServiceInv

\* A command that says its last word leaves what there is.
LEMMA SaysStep ==
    ASSUME ServiceAssumption, ServiceInv, NEW o \in Busy, command[o].at # "spawned",
           NEW c \in Command, command' = [command EXCEPT ![o] = c],
           c.at = "answered" \/ (c.at = "begin" /\ c.said = "nothing"),
           pidFile' \in Pids \cup {NoPid},
           UNCHANGED <<process, port, systemd, main, commands, apart>>,
           ~apart => \A p \in Pids : process[p] \in Ours => p = Running'
    PROVE  ServiceInv'
<1>1. o \in Operators
  BY DEF Busy
<1>2. /\ CommandsTyped' /\ CommandInv' /\ command'[o] = c /\ Busy' \subseteq Operators
      /\ \A q \in Operators : q # o => command'[q] = command[q] /\ (q \in Busy' <=> q \in Busy)
  BY <1>1, CommandMoves
<1>3. StateTyped' /\ ProcessInv'
  BY DEF ServiceInv, StateTyped, ProcessInv
<1>4. AloneInv'
  BY <1>1, <1>2, AloneStep
<1> QED
  BY <1>2, <1>3, <1>4 DEF ServiceInv

LEMMA WaitedStep ==
    ASSUME ServiceAssumption, ServiceInv, NEW o \in Operators, Waited(o)
    PROVE  ServiceInv'
<1>1. command[o] \in Command /\ command[o].at = "waiting" /\ o \in Busy
  BY CommandShape DEF Waited, Is, ServiceInv, Busy
<1> DEFINE said == IF port # NoPid THEN "started" ELSE "not answering"
           c == [command[o] EXCEPT !.at = "answered", !.said = said]
<1>2. command' = [command EXCEPT ![o] = c]
  BY <1>1, CommandSets DEF ServiceInv, Waited
<1>3. said \in {"started", "not answering"}
  OBVIOUS
<1> HIDE DEF said
<1>4. c \in Command /\ c.at = "answered"
  BY <1>1, <1>3 DEF Command, Places
<1> HIDE DEF c
<1>5. Running' = Running /\ pidFile' = pidFile
  BY DEF Running, Waited
<1>6. ~apart => \A p \in Pids : process[p] \in Ours => p = Running'
  BY <1>1, <1>5, ServersAreFound
<1> QED
  BY <1>1, <1>2, <1>4, <1>5, <1>6, SaysStep DEF Waited, ServiceInv, StateTyped

\* After a stop a command answers, or goes on as a start.
LEMMA StoppedStep ==
    ASSUME ServiceInv, NEW o \in Operators, command[o] \in Command, o \in Busy, Stopped(o)
    PROVE  \E c \in Command :
               /\ command' = [command EXCEPT ![o] = c]
               /\ \/ c.at = "answered" /\ c.said = "stopped"
                  \/ c.at = "begin" /\ c.said = "nothing"
<1>1. command[o].said = "nothing"
  BY DEF ServiceInv, CommandInv
<1>2. CASE command' = [command EXCEPT ![o].name = "start", ![o].at = "begin"]
  <2> DEFINE c == [command[o] EXCEPT !.name = "start", !.at = "begin"]
  <2>1. command' = [command EXCEPT ![o] = c]
    BY <1>2 DEF ServiceInv, CommandsTyped, Command
  <2>2. c \in Command /\ c.at = "begin" /\ c.said = "nothing"
    BY <1>1 DEF Command, Places
  <2> QED
    BY <2>1, <2>2
<1>3. CASE Say(o, "stopped")
  <2> DEFINE c == [command[o] EXCEPT !.at = "answered", !.said = "stopped"]
  <2>1. command' = [command EXCEPT ![o] = c]
    BY <1>3, CommandSets DEF ServiceInv
  <2>2. c \in Command /\ c.at = "answered" /\ c.said = "stopped"
    BY DEF Command, Places
  <2> QED
    BY <2>1, <2>2
<1> QED
  BY <1>2, <1>3 DEF Stopped

LEMMA StopNothingStep ==
    ASSUME ServiceAssumption, ServiceInv, NEW o \in Operators, StopNothing(o)
    PROVE  /\ ServiceInv'
           /\ ~apart => port = NoPid
<1>1. command[o] \in Command /\ command[o].at = "begin" /\ o \in Busy
  BY CommandShape DEF StopNothing, Is, ServiceInv, Busy
<1>2. PICK c \in Command : /\ command' = [command EXCEPT ![o] = c]
                           /\ \/ c.at = "answered" /\ c.said = "stopped"
                              \/ c.at = "begin" /\ c.said = "nothing"
  BY <1>1, StoppedStep DEF StopNothing
<1>3. ~apart => \A p \in Pids : process[p] \in Ours => p = Running
  BY <1>1, ServersAreFound
<1>4. ~apart => \A p \in Pids : process[p] \notin Ours
  <2>1. ~Alive(Running) \/ (~systemd /\ ~LooksLikeCatwaf(pidFile))
    BY DEF StopNothing
  <2>2. Running \in Pids => process[Running] \notin Ours
    BY <2>1 DEF Alive, LooksLikeCatwaf, Running, Ours, ServiceAssumption
  <2> QED
    BY <1>3, <2>2
<1>5. ServiceInv'
  BY <1>1, <1>2, <1>4, SaysStep DEF StopNothing
<1>6. ~apart => port = NoPid
  BY <1>4 DEF ServiceInv, ProcessInv, StateTyped, Ours
<1> QED
  BY <1>5, <1>6

LEMMA StopStep ==
    ASSUME ServiceAssumption, ServiceInv, NEW o \in Operators, Stop(o)
    PROVE  ServiceInv'
<1>1. command[o] \in Command /\ command[o].at = "begin" /\ o \in Busy
  BY CommandShape DEF Stop, Is, ServiceInv, Busy
<1>2. command[o].said = "nothing"
  BY <1>1 DEF ServiceInv, CommandInv
<1>3. Running \in Pids /\ Running' = Running
  BY DEF Stop, Alive, Running, ServiceInv, StateTyped
<1> DEFINE c == [command[o] EXCEPT !.pid = Running, !.at = "ending"]
<1>4. command' = [command EXCEPT ![o] = c]
  BY <1>1 DEF ServiceInv, CommandsTyped, Command, Stop
<1>5. c \in Command /\ c.at = "ending" /\ c.pid = Running /\ c.said = "nothing"
  BY <1>1, <1>2, <1>3 DEF Command, Places
<1> HIDE DEF c
<1>6. /\ CommandsTyped' /\ CommandInv' /\ command'[o] = c /\ Busy' \subseteq Operators
      /\ \A q \in Operators : q # o => command'[q] = command[q] /\ (q \in Busy' <=> q \in Busy)
  BY <1>3, <1>4, <1>5, CommandMoves DEF Stop
<1>7. process' = [process EXCEPT ![Running] = "ending"]
  BY DEF Stop
<1>8. process'[Running] = "ending" /\ \A q \in Pids : q # Running => process'[q] = process[q]
  BY <1>3, <1>7 DEF ServiceInv, StateTyped
<1>9. StateTyped'
  BY <1>3, <1>7 DEF ServiceInv, StateTyped, Stop, Programs
<1>10. ProcessInv'
  BY <1>8 DEF ServiceInv, StateTyped, ProcessInv, Stop, Ours
<1>11. ASSUME ~apart'
       PROVE  ~apart /\ \A p \in Pids : process'[p] \in Ours => p = Running'
  BY <1>1, <1>3, <1>8, <1>11, ServersAreFound DEF Stop
<1>12. AloneInv'
  BY <1>1, <1>3, <1>5, <1>6, <1>11, AloneStep
<1> QED
  BY <1>6, <1>9, <1>10, <1>12 DEF ServiceInv

LEMMA KillStep ==
    ASSUME ServiceAssumption, ServiceInv, NEW o \in Operators, Kill(o)
    PROVE  ServiceInv'
<1>1. command[o].pid \in Pids
  BY DEF Kill, Is, ServiceInv, CommandInv
<1> QED
  BY <1>1, EndsStep DEF Kill

LEMMA EndedStep ==
    ASSUME ServiceAssumption, ServiceInv, NEW o \in Operators, Ended(o)
    PROVE  /\ ServiceInv'
           /\ ~apart => port = NoPid
<1>1. command[o] \in Command /\ command[o].at = "ending" /\ o \in Busy
  BY CommandShape DEF Ended, Is, ServiceInv, Busy
<1>2. PICK c \in Command : /\ command' = [command EXCEPT ![o] = c]
                           /\ \/ c.at = "answered" /\ c.said = "stopped"
                              \/ c.at = "begin" /\ c.said = "nothing"
  BY <1>1, StoppedStep DEF Ended
<1>3. ~apart => \A p \in Pids : process[p] \in Ours => p = Running
  BY <1>1, ServersAreFound
<1>4. ~apart => \A p \in Pids : process[p] \notin Ours
  <2>1. ~apart => Running = command[o].pid \/ (systemd /\ main = NoPid)
    BY <1>1 DEF ServiceInv, AloneInv
  <2>2. process[command[o].pid] \notin Ours
    BY DEF Ended, Ours
  <2>3. systemd /\ main = NoPid => Running \notin Pids
    BY DEF Running, ServiceAssumption
  <2> QED
    BY <1>3, <2>1, <2>2, <2>3
<1>5. ServiceInv'
  BY <1>1, <1>2, <1>4, SaysStep DEF Ended, ServiceInv, StateTyped
<1>6. ~apart => port = NoPid
  BY <1>4 DEF ServiceInv, ProcessInv, StateTyped, Ours
<1> QED
  BY <1>5, <1>6

LEMMA ServiceStep ==
    ASSUME ServiceAssumption, ServiceInv, [ServiceNext]_serviceVars
    PROVE  ServiceInv'
<1>1. CASE UNCHANGED serviceVars
  BY <1>1 DEF serviceVars, ServiceInv, StateTyped, CommandsTyped, ProcessInv, CommandInv, AloneInv,
              Busy, Running
<1>2. CASE Reboot \/ Install
  BY <1>2, RebootStep, InstallStep
<1>3. CASE \E p \in Pids : Boots(p) \/ Ends(p) \/ Reused(p)
  BY <1>3, BootsStep, EndsStep, ReusedStep DEF Ends
<1>4. CASE \E o \in Operators, name \in {"start", "stop", "restart"} : Issue(o, name)
  BY <1>4, IssueStep
<1>5. CASE \E o \in Operators : Dies(o) \/ Start(o) \/ Record(o) \/ Waited(o)
  BY <1>5, DiesStep, StartStep, RecordStep, WaitedStep
<1>6. CASE \E o \in Operators : StopNothing(o) \/ Stop(o) \/ Kill(o) \/ Ended(o)
  BY <1>6, StopNothingStep, StopStep, KillStep, EndedStep
<1> QED
  BY <1>1, <1>2, <1>3, <1>4, <1>5, <1>6 DEF ServiceNext

\* The invariant is stronger than the type.
LEMMA ServiceTyped ==
    ASSUME ServiceInv
    PROVE  ServiceTypeOK
<1>1. \A o \in Operators : command[o] # NoCommand => command[o] \in Command
  BY DEF ServiceInv, CommandsTyped
<1>2. \A c \in Command : /\ c.name \in {"start", "stop", "restart"} /\ c.at \in Places
                         /\ c.pid \in Pids \cup {NoPid}
  BY DEF Command
<1> QED
  BY <1>1, <1>2 DEF ServiceInv, StateTyped, ServiceTypeOK

LEMMA ServiceStarts ==
    ASSUME ServiceAssumption, ServiceInit
    PROVE  ServiceInv
<1>1. StateTyped
  <2>1. process \in [Pids -> Programs]
    BY DEF ServiceInit, Programs
  <2>2. commands \in 0..MaxCommands
    BY DEF ServiceInit, ServiceAssumption
  <2> QED
    BY <2>1, <2>2 DEF ServiceInit, StateTyped
<1>2. CommandsTyped
  BY DEF ServiceInit, CommandsTyped
<1>3. ProcessInv
  BY DEF ServiceInit, ProcessInv
<1>4. \A o \in Operators : command[o].at = "none"
  BY DEF ServiceInit, NoCommand
<1>5. Busy = {}
  BY DEF ServiceInit, Busy
<1>6. \A p \in Pids : process[p] \notin Ours
  BY DEF ServiceInit, Ours
<1> QED
  BY <1>1, <1>4, <1>5, <1>6, <1>2, <1>3 DEF ServiceInv, CommandInv, AloneInv

\* The server that listens is where status() looks for it, when nothing was spawned that is
\* not recorded.
LEMMA ListensWhereFound ==
    ASSUME ServiceInv, ~apart, port # NoPid, \A o \in Operators : command[o].at # "spawned"
    PROVE  port = Running
<1>1. port \in Pids /\ process[port] \in Ours
  BY DEF ServiceInv, StateTyped, ProcessInv, Ours
<1> QED
  BY <1>1 DEF ServiceInv, AloneInv

(***************************************************************************)
(* While no command of the CLI is under way, the server that listens is    *)
(* the one status() finds (service.js, by the pid file or by systemd), and *)
(* so the one the next `catwaf stop` ends; unless two commands ran at the  *)
(* same time, one died between spawning and recording, or the unit was     *)
(* installed beside a running server.                                      *)
(***************************************************************************)
THEOREM TheServerIsKnown ==
    ASSUME ServiceAssumption
    PROVE  ServiceSpec => [](ServiceTypeOK /\ ServerIsKnown)
<1>1. ServiceInit => ServiceInv
  BY ServiceStarts
<1>2. ServiceInv /\ [ServiceNext]_serviceVars => ServiceInv'
  BY ServiceStep
<1>3. ServiceInv => ServiceTypeOK /\ ServerIsKnown
  <2> SUFFICES ASSUME ServiceInv
               PROVE  ServiceTypeOK /\ ServerIsKnown
    OBVIOUS
  <2>1. Busy = {} => \A o \in Operators : command[o].at # "spawned"
    BY CommandShape DEF ServiceInv
  <2> QED
    BY <2>1, ServiceTyped, ListensWhereFound DEF ServerIsKnown
<1> QED
  BY <1>1, <1>2, <1>3, PTL DEF ServiceSpec

\* What a step says is so.
AnswerIsTrue(o) ==
    /\ command'[o].said = "started" => port = command[o].pid
    /\ command'[o].said = "stopped" => port = NoPid

LEMMA SayingStep ==
    ASSUME ServiceAssumption, ServiceInv, ServiceNext, ~apart, NEW o \in Operators,
           command'[o] # command[o], command'[o] # NoCommand
    PROVE  AnswerIsTrue(o)
<1>1. CASE Reboot \/ Install
  BY <1>1 DEF Reboot, Install
<1>2. CASE \E p \in Pids : Boots(p) \/ Ends(p) \/ Reused(p)
  BY <1>2 DEF Boots, Ends, Reused
<1>3. ASSUME NEW q \in Operators, NEW name \in {"start", "stop", "restart"}, Issue(q, name)
      PROVE  AnswerIsTrue(o)
  <2>1. command'[o].said = "nothing"
    BY <1>3 DEF Issue, ServiceInv, CommandsTyped
  <2> QED
    BY <2>1 DEF AnswerIsTrue
<1>4. ASSUME NEW q \in Operators, command' = [command EXCEPT ![q] = NoCommand]
      PROVE  FALSE
  BY <1>4 DEF ServiceInv, CommandsTyped
<1>5. ASSUME NEW q \in Operators, NEW c, command' = [command EXCEPT ![q] = c]
      PROVE  q = o /\ command'[o] = c
  BY <1>5 DEF ServiceInv, CommandsTyped
<1>6. ASSUME NEW q \in Operators, Start(q)
      PROVE  AnswerIsTrue(o)
  <2>1. command[q] \in Command /\ command[q].said = "nothing"
    BY <1>6, CommandShape DEF Start, Is, ServiceInv, Busy, CommandInv
  <2>2. CASE Say(q, "already running")
    <3> DEFINE c == [command[q] EXCEPT !.at = "answered", !.said = "already running"]
    <3>1. command' = [command EXCEPT ![q] = c]
      BY <2>1, <2>2, CommandSets DEF ServiceInv
    <3>2. c.said = "already running"
      BY <2>1 DEF Command
    <3> HIDE DEF c
    <3> QED
      BY <1>5, <3>1, <3>2 DEF AnswerIsTrue
  <2>3. ASSUME NEW p \in Pids, NEW at,
               command' = [command EXCEPT ![q].pid = p, ![q].at = at]
        PROVE  AnswerIsTrue(o)
    <3> DEFINE c == [command[q] EXCEPT !.pid = p, !.at = at]
    <3>1. command' = [command EXCEPT ![q] = c]
      BY <2>1, <2>3 DEF ServiceInv, CommandsTyped, Command
    <3>2. c.said = "nothing"
      BY <2>1 DEF Command
    <3> HIDE DEF c
    <3> QED
      BY <1>5, <3>1, <3>2 DEF AnswerIsTrue
  <2> QED
    BY <1>6, <2>2, <2>3 DEF Start
<1>7. ASSUME NEW q \in Operators, Record(q)
      PROVE  AnswerIsTrue(o)
  <2>1. command[q] \in Command /\ command[q].said = "nothing"
    BY <1>7, CommandShape DEF Record, Is, ServiceInv, Busy, CommandInv
  <2> DEFINE c == [command[q] EXCEPT !.at = "waiting"]
  <2>2. command' = [command EXCEPT ![q] = c]
    BY <1>7, <2>1, CommandSets DEF ServiceInv, Record, Places
  <2>3. c.said = "nothing"
    BY <2>1 DEF Command
  <2> HIDE DEF c
  <2> QED
    BY <1>5, <2>2, <2>3 DEF AnswerIsTrue
<1>8. ASSUME NEW q \in Operators, Waited(q)
      PROVE  AnswerIsTrue(o)
  <2>1. command[q] \in Command /\ command[q].at = "waiting" /\ q \in Busy
    BY <1>8, CommandShape DEF Waited, Is, ServiceInv, Busy
  <2> DEFINE said == IF port # NoPid THEN "started" ELSE "not answering"
             c == [command[q] EXCEPT !.at = "answered", !.said = said]
  <2>2. command' = [command EXCEPT ![q] = c]
    BY <1>8, <2>1, CommandSets DEF ServiceInv, Waited
  <2>3. c.said = said
    BY <2>1 DEF Command
  <2> HIDE DEF c
  <2>4. command'[o].said = said /\ q = o
    BY <1>5, <2>2, <2>3
  <2>5. \A r \in Operators : command[r].at # "spawned"
    BY <2>1, Alone
  <2>6. port # NoPid => port = Running
    BY <2>5, ListensWhereFound
  <2>7. Running = command[o].pid \/ (systemd /\ main = NoPid)
    BY <2>1, <2>4 DEF ServiceInv, AloneInv
  <2>8. port # NoPid => port = command[o].pid
    BY <2>6, <2>7 DEF Running
  <2> QED
    BY <2>4, <2>8 DEF AnswerIsTrue
<1>9. ASSUME NEW q \in Operators, Stopped(q), command[q] \in Command, q \in Busy, port = NoPid
      PROVE  AnswerIsTrue(o)
  <2>1. PICK c \in Command : /\ command' = [command EXCEPT ![q] = c]
                             /\ \/ c.at = "answered" /\ c.said = "stopped"
                                \/ c.at = "begin" /\ c.said = "nothing"
    BY <1>9, StoppedStep
  <2>2. command'[o] = c
    BY <1>5, <2>1
  <2> QED
    BY <1>9, <2>1, <2>2 DEF AnswerIsTrue
<1>10. ASSUME NEW q \in Operators, StopNothing(q) \/ Ended(q)
       PROVE  AnswerIsTrue(o)
  <2>1. command[q] \in Command /\ q \in Busy /\ Stopped(q)
    BY <1>10, CommandShape DEF StopNothing, Ended, Is, ServiceInv, Busy
  <2>2. port = NoPid
    BY <1>10, StopNothingStep, EndedStep
  <2> QED
    BY <1>9, <2>1, <2>2
<1>11. ASSUME NEW q \in Operators, Stop(q)
       PROVE  AnswerIsTrue(o)
  <2>1. command[q] \in Command /\ command[q].said = "nothing"
    BY <1>11, CommandShape DEF Stop, Is, ServiceInv, Busy, CommandInv
  <2> DEFINE c == [command[q] EXCEPT !.pid = Running, !.at = "ending"]
  <2>2. command' = [command EXCEPT ![q] = c]
    BY <1>11, <2>1 DEF ServiceInv, CommandsTyped, Command, Stop
  <2>3. c.said = "nothing"
    BY <2>1 DEF Command
  <2> HIDE DEF c
  <2> QED
    BY <1>5, <2>2, <2>3 DEF AnswerIsTrue
<1>12. \A q \in Operators : ~Dies(q) /\ ~Kill(q)
  BY <1>4 DEF Dies, Kill
<1> QED
  BY <1>1, <1>2, <1>3, <1>6, <1>7, <1>8, <1>10, <1>11, <1>12 DEF ServiceNext

(***************************************************************************)
(* What a command of the CLI says is so: a server that it has "started"    *)
(* listens and is its own, and after "stopped" nothing listens; with the   *)
(* exceptions of TheServerIsKnown.                                         *)
(***************************************************************************)
THEOREM CommandsSayWhatIsSo ==
    ASSUME ServiceAssumption
    PROVE  ServiceSpec => AnswersAreTrue
<1>1. ServiceInit => ServiceInv
  BY ServiceStarts
<1>2. ServiceInv /\ [ServiceNext]_serviceVars => ServiceInv'
  BY ServiceStep
<1>3. ServiceInv /\ [ServiceNext]_serviceVars =>
        [\A o \in Operators : ~apart /\ command'[o] # command[o] /\ command'[o] # NoCommand =>
            /\ command'[o].said = "started" => port = command[o].pid
            /\ command'[o].said = "stopped" => port = NoPid]_serviceVars
  BY SayingStep DEF AnswerIsTrue
<1> QED
  BY <1>1, <1>2, <1>3, PTL DEF ServiceSpec, AnswersAreTrue

(***************************************************************************)
(* A process number that by now is another program's gets no signal        *)
(* (service.js:49, pidLooksLikeCatwaf), whatever has run beside what.      *)
(***************************************************************************)
THEOREM StrangersGetNoSignal ==
    ASSUME ServiceAssumption
    PROVE  ServiceSpec => StrangersAreLeftAlone
<1>1. ServiceInit => ServiceInv
  BY ServiceStarts
<1>2. ServiceInv /\ [ServiceNext]_serviceVars => ServiceInv'
  BY ServiceStep
<1>3. ServiceInv /\ [ServiceNext]_serviceVars =>
        [\A p \in Pids : process[p] = "other" => process'[p] # "ending"]_serviceVars
  <2> SUFFICES ASSUME ServiceInv, ServiceNext, NEW p \in Pids, process[p] = "other"
               PROVE  process'[p] # "ending"
    OBVIOUS
  <2>1. ASSUME NEW q \in Pids, NEW program, program # "ending",
               process' = [process EXCEPT ![q] = program]
        PROVE  process'[p] # "ending"
    BY <2>1 DEF ServiceInv, StateTyped
  <2>2. CASE \E q \in Pids : Boots(q) \/ Ends(q) \/ Reused(q)
    BY <2>1, <2>2 DEF Boots, Ends, Reused, Gone
  <2>3. ASSUME NEW o \in Operators, Stop(o)
        PROVE  process'[p] # "ending"
    <3>1. systemd => process[Running] \in Ours
      BY <2>3 DEF Stop, Alive, Running, ServiceInv, ProcessInv
    <3>2. ~systemd => process[Running] \in Ours \cup {"node"}
      BY <2>3 DEF Stop, LooksLikeCatwaf, Running
    <3>3. Running # p
      BY <3>1, <3>2 DEF Ours
    <3> QED
      BY <2>3, <3>3 DEF Stop, ServiceInv, StateTyped
  <2>4. ASSUME NEW o \in Operators, Kill(o)
        PROVE  process'[p] # "ending"
    BY <2>1, <2>4 DEF Kill, Gone, Is, ServiceInv, CommandInv
  <2>5. ASSUME NEW o \in Operators, Start(o)
        PROVE  process'[p] # "ending"
    BY <2>1, <2>5 DEF Start
  <2>6. CASE UNCHANGED process
    BY <2>6
  <2>7. CASE Reboot
    BY <2>7 DEF Reboot
  <2> QED
    BY <2>2, <2>3, <2>4, <2>5, <2>6, <2>7 DEF ServiceNext, Install, Issue, Dies, Record, Waited,
                                             StopNothing, Ended
<1> QED
  BY <1>1, <1>2, <1>3, PTL DEF ServiceSpec, StrangersAreLeftAlone

-----------------------------------------------------------------------------
(* How CatWAF comes about: what a run has behind it.                       *)

SetupSpec == SetupInit /\ [][SetupNext]_setupVars

\* The run under way, and .env.
Run ==
    [kind : {"none", "wizard", "batch", "installer"}, todo : Seq(Steps), edition : Editions,
     domain : Domains \cup {NoDomain}, force : BOOLEAN, skipped : BOOLEAN, said : Said]
Env ==
    [edition : Editions \cup {"none"}, domain : Domains \cup {NoDomain, Invalid},
     cors : Addresses, secret : Int, ai : BOOLEAN]

PlacesTyped ==
    /\ base \in Addresses /\ dist \in Addresses /\ caddyfile \in Addresses
    /\ admin \in BOOLEAN /\ unit \in {"none", "wizard", "installer"}
    /\ binary \in Builds \cup {NoBuild} /\ pin \in Builds \cup {NoBuild}
    /\ begun \in 0..MaxRuns /\ byHand \in 0..MaxEdits /\ unpinned \in BOOLEAN

SetupTyped ==
    /\ env \in Env /\ secrets \in Nat /\ env.secret \in -1..secrets
    /\ run \in Run /\ PlacesTyped

\* What a run has to do is the end of the steps of its kind.
Plans(r) ==
    CASE r.kind = "wizard" -> {WizardSteps(r.edition)}
      [] r.kind = "batch" -> {BatchSteps}
      [] r.kind = "installer" -> {InstallerSteps, BatchSteps}
      [] OTHER -> {<<>>}
OnRoute(P, i) == P \in Plans(run) /\ i \in 1..Len(P) + 1 /\ run.todo = SubSeq(P, i, Len(P))
RouteInv ==
    /\ \E P \in Plans(run) : \E i \in 1..Len(P) + 1 : OnRoute(P, i)
    /\ run.force => run.domain # NoDomain
    /\ run.said = "complete" => run.todo = <<>> /\ run.kind \in {"wizard", "batch"}

\* What a run has behind it is done.
Left == Range(run.todo)
DoneInv ==
    run.todo # <<>> \/ run.said = "complete" =>
        /\ run.kind \in {"wizard", "batch"} =>
              /\ "secret" \notin Left => env.secret > 0
              /\ "caddyfile" \notin Left => caddyfile # NoDomain \/ run.skipped
        /\ run.kind = "wizard" =>
              /\ "record" \notin Left => env.edition = run.edition
              /\ "domain" \notin Left /\ ~run.skipped =>
                    env.domain = run.domain /\ env.cors = Address(run.domain)
              /\ "frontend" \notin Left /\ ~run.skipped => base = Address(run.domain)
        /\ run.kind = "batch" =>
              /\ "configure" \notin Left => env.edition = run.edition
              /\ "first admin" \notin Left => admin
              /\ "assets" \notin Left /\ run.edition = "full" => dist # NoDomain
        /\ run.kind # "wizard" /\ "check" \notin Left /\ "caddyfile" \in Left => RunDomain # Invalid

SetupInv == SetupTyped /\ RouteInv /\ DoneInv /\ BuildIsPinned

\* Steps only one of the kinds has.
WizardOnly == {"domain", "frontend", "build", "admin", "dashboard", "catai", "record", "service"}
BatchOnly == {"check", "configure", "validate", "first admin", "assets"}
InstallerOnly == {"dependencies", "pin", "deploy", "edition", "hostname", "key", "unit", "setup"}

LEMMA WizardElements ==
    ASSUME NEW W, W = WizardSteps("lite") \/ W = WizardSteps("full")
    PROVE  /\ W \in Seq(Steps) /\ Len(W) \in {8, 10}
           /\ W[1] = "secret" /\ W[2] = "domain" /\ W[3] = "frontend" /\ W[4] = "caddyfile"
           /\ W[5] = "build" /\ W[6] = "admin"
           /\ Len(W) = 8 => W[7] = "record" /\ W[8] = "service"
           /\ Len(W) = 10 => /\ W[7] = "dashboard" /\ W[8] = "catai"
                             /\ W[9] = "record" /\ W[10] = "service"
<1>1. CASE W = WizardSteps("lite")
  <2>1. W = <<"secret", "domain", "frontend", "caddyfile", "build", "admin">> \o <<>>
            \o <<"record", "service">>
    BY <1>1 DEF WizardSteps
  <2>2. W \in Seq(Steps)
    BY <2>1 DEF Steps
  <2>3. Len(W) = 8
    BY <2>1
  <2> QED
    BY <2>1, <2>2, <2>3
<1>2. CASE W = WizardSteps("full")
  <2>1. W = <<"secret", "domain", "frontend", "caddyfile", "build", "admin">>
            \o <<"dashboard", "catai">> \o <<"record", "service">>
    BY <1>2 DEF WizardSteps
  <2>2. W \in Seq(Steps)
    BY <2>1 DEF Steps
  <2>3. Len(W) = 10
    BY <2>1
  <2> QED
    BY <2>1, <2>2, <2>3
<1> QED
  BY <1>1, <1>2

LEMMA WizardShape ==
    ASSUME NEW e \in Editions, NEW W, W = WizardSteps(e)
    PROVE  /\ W \in Seq(Steps) /\ Len(W) \in {8, 10}
           /\ W[1] = "secret" /\ W[2] = "domain" /\ W[3] = "frontend" /\ W[4] = "caddyfile"
           /\ \E k \in 7..Len(W) : W[k] = "record"
           /\ \A k \in 1..Len(W) : W[k] = "domain" => k = 2
           /\ \A k \in 1..Len(W) : W[k] = "secret" => k = 1
           /\ \A k \in 1..Len(W) : W[k] \notin BatchOnly \cup InstallerOnly
<1>1. W = WizardSteps("lite") \/ W = WizardSteps("full")
  BY DEF Editions
<1>2. /\ W \in Seq(Steps) /\ Len(W) \in {8, 10}
      /\ W[1] = "secret" /\ W[2] = "domain" /\ W[3] = "frontend" /\ W[4] = "caddyfile"
      /\ W[5] = "build" /\ W[6] = "admin"
      /\ Len(W) = 8 => W[7] = "record" /\ W[8] = "service"
      /\ Len(W) = 10 => /\ W[7] = "dashboard" /\ W[8] = "catai"
                        /\ W[9] = "record" /\ W[10] = "service"
  BY <1>1, WizardElements
<1>3. \E k \in 7..Len(W) : W[k] = "record"
  BY <1>2
<1>4. ASSUME NEW k \in 1..Len(W)
      PROVE  /\ W[k] = "domain" => k = 2
             /\ W[k] = "secret" => k = 1
             /\ W[k] \in {"secret", "domain", "frontend", "caddyfile", "build", "admin",
                          "record", "service", "dashboard", "catai"}
  <2>1. CASE Len(W) = 8
    <3>1. k \in {1, 2, 3, 4, 5, 6, 7, 8}
      BY <2>1
    <3> QED
      BY <1>2, <2>1, <3>1
  <2>2. CASE Len(W) = 10
    <3>1. k \in {1, 2, 3, 4, 5, 6, 7, 8, 9, 10}
      BY <2>2
    <3> QED
      BY <1>2, <2>2, <3>1
  <2> QED
    BY <1>2, <2>1, <2>2
<1>5. {"secret", "domain", "frontend", "caddyfile", "build", "admin", "record", "service",
       "dashboard", "catai"} \cap (BatchOnly \cup InstallerOnly) = {}
  BY DEF BatchOnly, InstallerOnly
<1> QED
  BY <1>2, <1>3, <1>4, <1>5

LEMMA BatchShape ==
    /\ BatchSteps \in Seq(Steps) /\ Len(BatchSteps) = 7
    /\ BatchSteps[1] = "secret" /\ BatchSteps[2] = "check" /\ BatchSteps[3] = "configure"
    /\ BatchSteps[4] = "caddyfile" /\ BatchSteps[6] = "first admin" /\ BatchSteps[7] = "assets"
    /\ \A k \in 1..7 : BatchSteps[k] \notin WizardOnly \cup InstallerOnly
    /\ \A k \in 1..7 : BatchSteps[k] = "check" => k = 2
    /\ \A k \in 1..7 : BatchSteps[k] \in {"configure", "caddyfile"} => k \in {3, 4}
<1>1. BatchSteps \in Seq(Steps)
  BY DEF BatchSteps, Steps
<1>2. Len(BatchSteps) = 7 /\ BatchSteps[1] = "secret" /\ BatchSteps[2] = "check"
      /\ BatchSteps[3] = "configure" /\ BatchSteps[4] = "caddyfile" /\ BatchSteps[5] = "validate"
      /\ BatchSteps[6] = "first admin" /\ BatchSteps[7] = "assets"
  BY DEF BatchSteps
<1>3. 1..7 = {1, 2, 3, 4, 5, 6, 7}
  OBVIOUS
<1> QED
  BY <1>1, <1>2, <1>3 DEF WizardOnly, InstallerOnly

LEMMA InstallerShape ==
    /\ InstallerSteps \in Seq(Steps) /\ Len(InstallerSteps) = 8
    /\ InstallerSteps[1] = "dependencies"
    /\ \A k \in 1..8 : /\ InstallerSteps[k] = "dependencies" => k = 1
                       /\ InstallerSteps[k] \in InstallerOnly
<1>1. InstallerSteps \in Seq(Steps)
  BY DEF InstallerSteps, Steps
<1>2. Len(InstallerSteps) = 8 /\ InstallerSteps[1] = "dependencies" /\ InstallerSteps[2] = "pin"
      /\ InstallerSteps[3] = "deploy" /\ InstallerSteps[4] = "edition"
      /\ InstallerSteps[5] = "hostname" /\ InstallerSteps[6] = "key" /\ InstallerSteps[7] = "unit"
      /\ InstallerSteps[8] = "setup"
  BY DEF InstallerSteps
<1>3. 1..8 = {1, 2, 3, 4, 5, 6, 7, 8}
  OBVIOUS
<1> QED
  BY <1>1, <1>2, <1>3 DEF InstallerOnly

LEMMA RouteEnds ==
    ASSUME NEW P \in Seq(Steps), NEW i \in 1..Len(P) + 1, NEW t, t = SubSeq(P, i, Len(P))
    PROVE  /\ Len(P) \in Nat /\ t \in Seq(Steps) /\ Len(t) = Len(P) - i + 1
           /\ \A k \in 1..Len(P) - i + 1 : t[k] = P[i + k - 1]
           /\ t = <<>> <=> i = Len(P) + 1
<1>1. Len(P) \in Nat /\ i \in Nat /\ \A k \in i..Len(P) : P[k] \in Steps
  BY LenProperties, ElementOfSeq
<1>2. /\ t \in Seq(Steps) /\ Len(t) = IF i <= Len(P) THEN Len(P) - i + 1 ELSE 0
      /\ \A k \in 1..Len(P) - i + 1 : t[k] = P[i + k - 1]
  BY <1>1, SubSeqProperties
<1>3. Len(t) = Len(P) - i + 1
  BY <1>1, <1>2
<1>4. t = <<>> <=> Len(t) = 0
  BY <1>2, EmptySeq
<1>5. Len(t) = 0 <=> i = Len(P) + 1
  BY <1>1, <1>3
<1> QED
  BY <1>1, <1>2, <1>3, <1>4, <1>5

LEMMA RouteElements ==
    ASSUME NEW P \in Seq(Steps), NEW i \in 1..Len(P) + 1, NEW x
    PROVE  x \in Range(SubSeq(P, i, Len(P))) <=> \E k \in i..Len(P) : x = P[k]
<1> DEFINE t == SubSeq(P, i, Len(P))
<1>1. /\ Len(P) \in Nat /\ t \in Seq(Steps) /\ Len(t) = Len(P) - i + 1
      /\ \A k \in 1..Len(P) - i + 1 : t[k] = P[i + k - 1]
  BY RouteEnds
<1> HIDE DEF t
<1>2. DOMAIN t = 1..Len(P) - i + 1
  BY <1>1, LenProperties
<1>3. ASSUME x \in Range(t)
      PROVE  \E k \in i..Len(P) : x = P[k]
  <2>1. PICK k \in 1..Len(P) - i + 1 : x = t[k]
    BY <1>2, <1>3 DEF Range
  <2>2. i + k - 1 \in i..Len(P)
    BY <1>1
  <2> QED
    BY <1>1, <2>1, <2>2
<1>4. ASSUME NEW k \in i..Len(P), x = P[k]
      PROVE  x \in Range(t)
  <2>1. k - i + 1 \in 1..Len(P) - i + 1 /\ i + (k - i + 1) - 1 = k
    BY <1>1
  <2>2. t[k - i + 1] = x
    BY <1>1, <1>4, <2>1
  <2> QED
    BY <1>2, <2>1, <2>2 DEF Range
<1> QED
  BY <1>3, <1>4 DEF t

LEMMA SetupRouteStep ==
    ASSUME NEW P \in Seq(Steps), NEW i \in 1..Len(P) + 1, NEW t, t = SubSeq(P, i, Len(P)),
           t # <<>>
    PROVE  /\ i \in 1..Len(P) /\ Head(t) = P[i] /\ Tail(t) = SubSeq(P, i + 1, Len(P))
           /\ i + 1 \in 1..Len(P) + 1
           /\ Len(t) = 1 <=> Tail(t) = <<>>
<1>1. Len(P) \in Nat /\ i \in Nat /\ \A k \in i..Len(P) : P[k] \in Steps
  BY LenProperties, ElementOfSeq
<1>2. t \in Seq(Steps) /\ (t = <<>> <=> i = Len(P) + 1)
  BY RouteEnds
<1>3. i \in 1..Len(P) /\ Len(P) \in i..Len(P) /\ i + 1 \in 1..Len(P) + 1
  BY <1>1, <1>2
<1>4. Head(t) = P[i] /\ Tail(t) = SubSeq(P, i + 1, Len(P))
  BY <1>3, HeadTailOfSubSeq
<1>5. Tail(t) \in Seq(Steps) /\ Len(Tail(t)) = Len(t) - 1
  BY <1>2, HeadTailProperties
<1>6. (Tail(t) = <<>> <=> Len(Tail(t)) = 0) /\ Len(t) \in Nat
  BY <1>2, <1>5, EmptySeq
<1>7. Len(t) = 1 <=> Tail(t) = <<>>
  BY <1>5, <1>6
<1> QED
  BY <1>3, <1>4, <1>7

LEMMA LeftOver ==
    ASSUME NEW t \in Seq(Steps), t # <<>>, NEW x
    PROVE  x \in Range(t) <=> (x \in Range(Tail(t)) \/ x = Head(t))
<1>1. /\ Tail(t) \in Seq(Steps) /\ Len(Tail(t)) = Len(t) - 1
      /\ \A k \in 1..Len(Tail(t)) : Tail(t)[k] = t[k + 1]
  BY HeadTailProperties
<1>2. Head(t) = t[1] /\ Len(t) \in Nat /\ Len(t) # 0
  BY EmptySeq
<1>3. DOMAIN t = 1..Len(t) /\ DOMAIN Tail(t) = 1..Len(t) - 1
  BY <1>1, LenProperties
<1>4. ASSUME NEW k \in 1..Len(t) - 1
      PROVE  k + 1 \in 1..Len(t) /\ Tail(t)[k] = t[k + 1]
  BY <1>1, <1>2
<1>5. ASSUME NEW k \in 1..Len(t), k # 1
      PROVE  k - 1 \in 1..Len(t) - 1 /\ Tail(t)[k - 1] = t[k]
  <2>1. k - 1 \in 1..Len(t) - 1 /\ (k - 1) + 1 = k
    BY <1>2, <1>5
  <2> QED
    BY <1>1, <2>1
<1>6. 1 \in 1..Len(t)
  BY <1>2
<1>7. ASSUME x \in Range(t)
      PROVE  x \in Range(Tail(t)) \/ x = Head(t)
  <2>1. PICK k \in 1..Len(t) : x = t[k]
    BY <1>3, <1>7 DEF Range
  <2>2. CASE k = 1
    BY <1>2, <2>1, <2>2
  <2>3. CASE k # 1
    <3>1. k - 1 \in DOMAIN Tail(t) /\ Tail(t)[k - 1] = x
      BY <1>3, <1>5, <2>1, <2>3
    <3> QED
      BY <3>1 DEF Range
  <2> QED
    BY <2>2, <2>3
<1>8. ASSUME x \in Range(Tail(t)) \/ x = Head(t)
      PROVE  x \in Range(t)
  <2>1. CASE x = Head(t)
    BY <1>2, <1>3, <1>6, <2>1 DEF Range
  <2>2. CASE x \in Range(Tail(t))
    <3>1. PICK k \in 1..Len(t) - 1 : x = Tail(t)[k]
      BY <1>3, <2>2 DEF Range
    <3> QED
      BY <1>3, <1>4, <3>1 DEF Range
  <2> QED
    BY <1>8, <2>1, <2>2
<1> QED
  BY <1>7, <1>8

\* What each of the kinds has to do.
LEMMA PlansShape ==
    ASSUME SetupTyped, NEW P \in Plans(run)
    PROVE  /\ P \in Seq(Steps) /\ Len(P) \in 0..10
           /\ run.kind = "none" => P = <<>>
           /\ run.kind = "wizard" => P = WizardSteps(run.edition) /\ run.edition \in Editions
           /\ run.kind = "batch" => P = BatchSteps
           /\ run.kind = "installer" => P = BatchSteps \/ P = InstallerSteps
<1>1. run.kind \in {"none", "wizard", "batch", "installer"} /\ run.edition \in Editions
  BY DEF SetupTyped, Run
<1>2. CASE run.kind = "wizard"
  BY <1>1, <1>2, WizardShape DEF Plans
<1>3. CASE run.kind = "batch"
  <2>1. P = BatchSteps
    BY <1>3 DEF Plans
  <2>2. P \in Seq(Steps) /\ Len(P) = 7
    BY <2>1, BatchShape
  <2> QED
    BY <1>3, <2>1, <2>2
<1>4. CASE run.kind = "installer"
  <2>1. P = BatchSteps \/ P = InstallerSteps
    BY <1>4 DEF Plans
  <2>2. P \in Seq(Steps) /\ Len(P) \in {7, 8}
    BY <2>1, BatchShape, InstallerShape
  <2> QED
    BY <1>4, <2>1, <2>2
<1>5. CASE run.kind = "none"
  <2>1. P = <<>>
    BY <1>5 DEF Plans
  <2> QED
    BY <1>5, <2>1, EmptySeq
<1> QED
  BY <1>1, <1>2, <1>3, <1>4, <1>5

\* A run before its next step.
LEMMA UnderWay ==
    ASSUME SetupInv, run.todo # <<>>
    PROVE  /\ run.todo \in Seq(Steps) /\ run.said # "complete"
           /\ run.kind \in {"wizard", "batch", "installer"} /\ Head(run.todo) \in Steps
           /\ \E P \in Plans(run) : \E i \in 1..Len(P) :
                /\ P \in Seq(Steps) /\ run.todo = SubSeq(P, i, Len(P)) /\ P[i] = Head(run.todo)
                /\ Tail(run.todo) = SubSeq(P, i + 1, Len(P)) /\ i + 1 \in 1..Len(P) + 1
                /\ \A x : x \in Left <=> \E k \in i..Len(P) : x = P[k]
<1>1. SetupTyped /\ run \in Run
  BY DEF SetupInv, SetupTyped
<1>2. PICK P \in Plans(run) : \E i \in 1..Len(P) + 1 : OnRoute(P, i)
  BY DEF SetupInv, RouteInv
<1>3. PICK i \in 1..Len(P) + 1 : run.todo = SubSeq(P, i, Len(P))
  BY <1>2 DEF OnRoute
<1>4. P \in Seq(Steps) /\ (run.kind = "none" => P = <<>>)
  BY <1>1, PlansShape
<1>5. /\ i \in 1..Len(P) /\ Head(run.todo) = P[i] /\ Tail(run.todo) = SubSeq(P, i + 1, Len(P))
      /\ i + 1 \in 1..Len(P) + 1
  BY <1>3, <1>4, SetupRouteStep
<1>6. \A x : x \in Left <=> \E k \in i..Len(P) : x = P[k]
  <2>1. ASSUME NEW x
        PROVE  x \in Left <=> \E k \in i..Len(P) : x = P[k]
    <3>1. x \in Range(SubSeq(P, i, Len(P))) <=> \E k \in i..Len(P) : x = P[k]
      BY <1>4, RouteElements
    <3> QED
      BY <1>3, <3>1 DEF Left
  <2> QED
    BY <2>1
<1>7. run.said # "complete" /\ run.todo \in Seq(Steps)
  BY <1>1 DEF SetupInv, RouteInv, Run
<1>8. run.kind # "none"
  <2>1. P = <<>> => Len(P) = 0
    BY <1>4, EmptySeq
  <2> QED
    BY <1>4, <1>5, <2>1
<1>9. run.kind \in {"wizard", "batch", "installer"}
  BY <1>1, <1>8 DEF Run
<1> QED
  BY <1>3, <1>4, <1>5, <1>6, <1>7, <1>9, HeadTailProperties

\* A step tells the kind of its run.
LEMMA KindOf ==
    ASSUME SetupInv, NEW s, At(s)
    PROVE  /\ s \in WizardOnly => run.kind = "wizard"
           /\ s \in BatchOnly => run.kind \in {"batch", "installer"}
           /\ s \in InstallerOnly => run.kind = "installer" /\ Left \subseteq InstallerOnly
           /\ s = "domain" => "record" \in Left /\ "secret" \notin Left
           /\ run.kind # "wizard" /\ s \in {"configure", "caddyfile"} => RunDomain # Invalid
<1>1. run.todo # <<>> /\ Head(run.todo) = s
  BY DEF At
<1>2. PICK P \in Plans(run) : \E i \in 1..Len(P) :
          P[i] = s /\ \A x : x \in Left <=> \E k \in i..Len(P) : x = P[k]
  BY <1>1, UnderWay
<1>3. PICK i \in 1..Len(P) :
          P[i] = s /\ \A x : x \in Left <=> \E k \in i..Len(P) : x = P[k]
  BY <1>2
<1>4. SetupTyped /\ run.kind \in {"wizard", "batch", "installer"}
  BY <1>1, UnderWay DEF SetupInv
<1>5. CASE run.kind = "wizard"
  <2>1. P = WizardSteps(run.edition) /\ run.edition \in Editions
    BY <1>4, <1>5, PlansShape
  <2>2. s \notin BatchOnly \cup InstallerOnly
    BY <1>3, <2>1, WizardShape
  <2>3. ASSUME s = "domain"
        PROVE  "record" \in Left /\ "secret" \notin Left
    <3>1. i = 2 /\ Len(P) \in {8, 10}
      BY <1>3, <2>1, <2>3, WizardShape
    <3>2. PICK k \in 7..Len(P) : P[k] = "record"
      BY <2>1, WizardShape
    <3>3. k \in i..Len(P)
      BY <3>1
    <3>4. \A j \in i..Len(P) : j \in 1..Len(P) /\ j # 1
      BY <3>1
    <3>5. \A j \in i..Len(P) : P[j] # "secret"
      BY <2>1, <3>4, WizardShape
    <3> QED
      BY <1>3, <3>2, <3>3, <3>5
  <2> QED
    BY <1>5, <2>2, <2>3
<1>6. CASE P = BatchSteps /\ run.kind \in {"batch", "installer"}
  <2>1. s \notin WizardOnly \cup InstallerOnly /\ "domain" \in WizardOnly
    BY <1>3, <1>6, BatchShape DEF WizardOnly
  <2>2. ASSUME s \in {"configure", "caddyfile"}
        PROVE  RunDomain # Invalid
    <3>1. i \in {3, 4} /\ Len(P) = 7
      BY <1>3, <1>6, <2>2, BatchShape
    <3>2. \A k \in i..Len(P) : k \in 1..7 /\ k # 2
      BY <3>1
    <3>3. \A k \in i..Len(P) : P[k] # "check"
      BY <1>6, <3>2, BatchShape
    <3>4. "check" \notin Left /\ "caddyfile" \in Left
      <4>1. 4 \in i..Len(P)
        BY <3>1
      <4>2. P[4] = "caddyfile"
        BY <1>6, BatchShape
      <4> QED
        BY <1>3, <3>3, <4>1, <4>2
    <3> QED
      BY <1>1, <1>6, <3>4 DEF SetupInv, DoneInv
  <2> QED
    BY <1>6, <2>1, <2>2
<1>7. CASE P = InstallerSteps /\ run.kind = "installer"
  <2>1. \A k \in 1..Len(P) : P[k] \in InstallerOnly
    BY <1>7, InstallerShape
  <2>2. \A k \in i..Len(P) : k \in 1..Len(P)
    BY <1>4, PlansShape
  <2>3. s \in InstallerOnly /\ Left \subseteq InstallerOnly
    BY <1>3, <2>1, <2>2
  <2>4. s \notin WizardOnly \cup BatchOnly /\ s # "domain"
        /\ s \notin {"configure", "caddyfile"}
    BY <2>3 DEF InstallerOnly, WizardOnly, BatchOnly
  <2> QED
    BY <1>7, <2>3, <2>4
<1> QED
  BY <1>4, <1>5, <1>6, <1>7, PlansShape

\* A step done: the run goes on with the rest, or is over.
LEMMA GoesOn ==
    ASSUME SetupInv, run.todo # <<>>, Go
    PROVE  /\ run' \in Run /\ RouteInv'
           /\ run'.kind = run.kind /\ run'.edition = run.edition /\ run'.domain = run.domain
           /\ run'.force = run.force /\ run'.skipped = run.skipped
           /\ \A x : x \in Left <=> (x \in Left' \/ x = Head(run.todo))
<1> DEFINE said == IF Len(run.todo) = 1 THEN Outcome("complete") ELSE "nothing"
           r == [run EXCEPT !.todo = Tail(run.todo), !.said = said]
<1>1. run' = r
  BY DEF Go, Then
<1>2. run \in Run /\ run.todo \in Seq(Steps) /\ Tail(run.todo) \in Seq(Steps)
  BY UnderWay, HeadTailProperties DEF SetupInv, SetupTyped
<1>3. said \in Said /\ (said = "complete" => Len(run.todo) = 1 /\ run.kind # "installer")
  BY DEF Outcome, Said
<1>4. /\ r \in Run
      /\ r.kind = run.kind /\ r.edition = run.edition /\ r.domain = run.domain
      /\ r.force = run.force /\ r.skipped = run.skipped
      /\ r.todo = Tail(run.todo) /\ r.said = said
  <2> HIDE DEF said
  <2> QED
    BY <1>2, <1>3 DEF Run
<1> HIDE DEF r
<1>5. Plans(run') = Plans(run)
  BY <1>1, <1>4 DEF Plans
<1>6. PICK P \in Plans(run) : \E i \in 1..Len(P) :
          /\ P \in Seq(Steps) /\ run.todo = SubSeq(P, i, Len(P))
          /\ Tail(run.todo) = SubSeq(P, i + 1, Len(P)) /\ i + 1 \in 1..Len(P) + 1
  BY UnderWay
<1>7. PICK i \in 1..Len(P) :
          /\ P \in Seq(Steps) /\ run.todo = SubSeq(P, i, Len(P))
          /\ Tail(run.todo) = SubSeq(P, i + 1, Len(P)) /\ i + 1 \in 1..Len(P) + 1
  BY <1>6
<1>8. OnRoute(P, i + 1)'
  BY <1>1, <1>4, <1>5, <1>7 DEF OnRoute
<1>9. \E Q \in Plans(run') : \E k \in 1..Len(Q) + 1 : OnRoute(Q, k)'
  BY <1>5, <1>7, <1>8
<1>10. Len(run.todo) = 1 => Tail(run.todo) = <<>>
  <2>1. i \in 1..Len(P) + 1
    BY <1>7, LenProperties
  <2> QED
    BY <1>7, <2>1, SetupRouteStep
<1>11. run.kind \in {"wizard", "batch", "installer"} /\ (run.force => run.domain # NoDomain)
  BY UnderWay DEF SetupInv, RouteInv
<1>12. RouteInv'
  <2>1. run'.force => run'.domain # NoDomain
    BY <1>1, <1>4, <1>11
  <2>2. run'.said = "complete" => run'.todo = <<>> /\ run'.kind \in {"wizard", "batch"}
    BY <1>1, <1>3, <1>4, <1>10, <1>11
  <2> QED
    BY <1>9, <2>1, <2>2 DEF RouteInv
<1>13. \A x : x \in Left <=> (x \in Left' \/ x = Head(run.todo))
  BY <1>1, <1>2, <1>4, LeftOver DEF Left
<1> QED
  BY <1>1, <1>4, <1>12, <1>13

\* A run that ends before it is through.
LEMMA EndsEarly ==
    ASSUME SetupInv, NEW w \in {"failed", "installed"}, Then(<<>>, w)
    PROVE  /\ run' \in Run /\ RouteInv' /\ DoneInv'
           /\ run'.kind = run.kind /\ run'.domain = run.domain /\ run'.force = run.force
<1> DEFINE r == [run EXCEPT !.todo = <<>>, !.said = w]
<1>1. run' = r
  BY DEF Then
<1>2. run \in Run /\ <<>> \in Seq(Steps)
  BY EmptySeq DEF SetupInv, SetupTyped
<1>3. /\ r \in Run /\ r.kind = run.kind /\ r.edition = run.edition /\ r.domain = run.domain
      /\ r.force = run.force /\ r.todo = <<>> /\ r.said = w
  BY <1>2 DEF Run, Said
<1> HIDE DEF r
<1>4. Plans(run') = Plans(run)
  BY <1>1, <1>3 DEF Plans
<1>5. PICK P \in Plans(run) : TRUE
  BY DEF SetupInv, RouteInv
<1>6. P \in Seq(Steps) /\ Len(P) \in Nat
  BY <1>5, PlansShape, LenProperties DEF SetupInv
<1>7. SubSeq(P, Len(P) + 1, Len(P)) = <<>> /\ Len(P) + 1 \in 1..Len(P) + 1
  BY <1>6, SubSeqEmpty
<1>8. OnRoute(P, Len(P) + 1)'
  BY <1>1, <1>3, <1>4, <1>5, <1>7 DEF OnRoute
<1>9. \E Q \in Plans(run') : \E k \in 1..Len(Q) + 1 : OnRoute(Q, k)'
  BY <1>4, <1>5, <1>7, <1>8
<1>10. run'.force => run'.domain # NoDomain
  BY <1>1, <1>3 DEF SetupInv, RouteInv
<1>11. run'.said # "complete" /\ run'.todo = <<>>
  BY <1>1, <1>3
<1>12. RouteInv'
  BY <1>9, <1>10, <1>11 DEF RouteInv
<1>13. DoneInv'
  BY <1>11 DEF DoneInv
<1> QED
  BY <1>1, <1>3, <1>12, <1>13

\* What a step that goes on has to leave as it is, or to bring about.
Keeps(s) ==
    /\ env.secret > 0 \/ s = "secret" => env'.secret > 0
    /\ caddyfile # NoDomain \/ s = "caddyfile" => caddyfile' # NoDomain
    /\ run.kind = "wizard" =>
          /\ env.edition = run.edition \/ s = "record" => env'.edition = run.edition
          /\ (env.domain = run.domain /\ env.cors = Address(run.domain)) \/ s = "domain" =>
                env'.domain = run.domain /\ env'.cors = Address(run.domain)
          /\ base = Address(run.domain) \/ s = "frontend" => base' = Address(run.domain)
    /\ run.kind = "batch" =>
          /\ env.edition = run.edition \/ s = "configure" => env'.edition = run.edition
          /\ admin \/ s = "first admin" => admin'
          /\ dist # NoDomain \/ (s = "assets" /\ run.edition = "full") => dist' # NoDomain
    /\ run.kind # "wizard" /\ (RunDomain # Invalid \/ s = "check") => RunDomain' # Invalid

LEMMA KeepsDone ==
    ASSUME SetupInv, NEW s, At(s), Go, Keeps(s)
    PROVE  run' \in Run /\ RouteInv' /\ DoneInv'
<1>1. run.todo # <<>> /\ Head(run.todo) = s
  BY DEF At
<1>2. /\ run' \in Run /\ RouteInv'
      /\ run'.kind = run.kind /\ run'.edition = run.edition /\ run'.domain = run.domain
      /\ run'.skipped = run.skipped
      /\ \A x : x \in Left <=> (x \in Left' \/ x = s)
  BY <1>1, GoesOn
<1>3. DoneInv /\ DoneInv!2
  BY <1>1 DEF SetupInv, DoneInv
<1>4. Address(run.domain)' = Address(run.domain)
  BY <1>2 DEF Address
<1>5. ASSUME run.kind \in {"wizard", "batch"}
      PROVE  /\ "secret" \notin Left' => env'.secret > 0
             /\ "caddyfile" \notin Left' => caddyfile' # NoDomain \/ run'.skipped
  BY <1>2, <1>3, <1>5 DEF Keeps
<1>6. ASSUME run.kind = "wizard"
      PROVE  /\ "record" \notin Left' => env'.edition = run'.edition
             /\ "domain" \notin Left' /\ ~run'.skipped =>
                    env'.domain = run.domain /\ env'.cors = Address(run.domain)
             /\ "frontend" \notin Left' /\ ~run'.skipped => base' = Address(run.domain)
  BY <1>2, <1>3, <1>6 DEF Keeps
<1>7. ASSUME run.kind = "batch"
      PROVE  /\ "configure" \notin Left' => env'.edition = run'.edition
             /\ "first admin" \notin Left' => admin'
             /\ "assets" \notin Left' /\ run'.edition = "full" => dist' # NoDomain
  BY <1>2, <1>3, <1>7 DEF Keeps
<1>8. ASSUME run.kind # "wizard", "check" \notin Left', "caddyfile" \in Left'
      PROVE  RunDomain' # Invalid
  BY <1>2, <1>3, <1>8 DEF Keeps
<1>9. DoneInv'
  BY <1>2, <1>4, <1>5, <1>6, <1>7, <1>8 DEF DoneInv
<1> QED
  BY <1>2, <1>9

LEMMA AddressTypes ==
    ASSUME SetupAssumption, SetupTyped
    PROVE  /\ Address(run.domain) \in Addresses \ {NoDomain}
           /\ Address(base) \in Addresses \ {NoDomain}
           /\ RunDomain \in Domains \cup {NoDomain, Invalid}
           /\ RunDomain # Invalid => Address(RunDomain) \in Addresses \ {NoDomain}
           /\ run.kind = "wizard" => RunDomain # Invalid
           /\ run.domain # Invalid /\ env.secret \in Int /\ secrets \in Nat
<1>1. run.domain \in Domains \cup {NoDomain} /\ run.domain # Invalid
      /\ env.domain \in Domains \cup {NoDomain, Invalid}
      /\ base \in Addresses /\ env.secret \in Int /\ secrets \in Nat
  BY DEF SetupAssumption, SetupTyped, Run, Env, PlacesTyped, NoDomain, Invalid
<1>2. RunDomain \in Domains \cup {NoDomain, Invalid}
      /\ (run.kind = "wizard" => RunDomain # Invalid)
  BY <1>1 DEF RunDomain
<1>3. ASSUME NEW d \in Addresses
      PROVE  Address(d) \in Addresses \ {NoDomain}
  BY DEF Address, Addresses, NoDomain
<1>4. Domains \cup {NoDomain} \subseteq Addresses
  BY DEF Addresses
<1> QED
  BY <1>1, <1>2, <1>3, <1>4

LEMMA StepKeeps ==
    ASSUME SetupInv, NEW s, At(s), Go, Keeps(s),
           env' \in Env, secrets' \in Nat, env'.secret \in -1..secrets', PlacesTyped',
           BuildIsPinned'
    PROVE  SetupInv'
BY KeepsDone DEF SetupInv, SetupTyped

LEMMA SameDomain ==
    ASSUME SetupInv, NEW s, At(s), Go, env'.domain = env.domain
    PROVE  RunDomain' = RunDomain
BY GoesOn DEF RunDomain, At

LEMMA Unpacked ==
    ASSUME SetupInv
    PROVE  /\ SetupTyped /\ RouteInv /\ BuildIsPinned
           /\ env \in Env /\ secrets \in Nat /\ env.secret \in -1..secrets /\ run \in Run
           /\ PlacesTyped
BY DEF SetupInv, SetupTyped

\* Steps that write none of what the others rely on.
LEMMA QuietStep ==
    ASSUME SetupInv, NEW s, At(s), Go,
           s \notin {"secret", "domain", "frontend", "caddyfile", "record", "configure", "check",
                     "first admin", "assets"},
           UNCHANGED <<env, base, caddyfile, secrets>>, admin => admin',
           dist # NoDomain => dist' # NoDomain, PlacesTyped', BuildIsPinned'
    PROVE  SetupInv'
<1>1. RunDomain' = RunDomain
  BY SameDomain
<1>2. Keeps(s)
  BY <1>1 DEF Keeps
<1> QED
  BY <1>2, StepKeeps, Unpacked

LEMMA SecretStep ==
    ASSUME SetupAssumption, SetupInv, EnsureJwtSecret
    PROVE  SetupInv'
<1>1. At("secret") /\ Go
      /\ UNCHANGED <<base, dist, caddyfile, admin, unit, binary, pin, begun, byHand, unpinned>>
  BY DEF EnsureJwtSecret
<1>2. env \in Env /\ secrets \in Nat /\ env.secret \in -1..secrets
  BY Unpacked
<1>3. /\ env' \in Env /\ secrets' \in Nat /\ env'.secret \in -1..secrets' /\ env'.secret > 0
      /\ env'.edition = env.edition /\ env'.domain = env.domain /\ env'.cors = env.cors
  <2>1. CASE MakesSecret(env.secret)
    <3> DEFINE c == [env EXCEPT !.secret = secrets + 1]
    <3>1. env' = c /\ secrets' = secrets + 1
      BY <2>1 DEF EnsureJwtSecret, WriteEnv
    <3>2. /\ c \in Env /\ c.secret = secrets + 1
          /\ c.edition = env.edition /\ c.domain = env.domain /\ c.cors = env.cors
      BY <1>2 DEF Env
    <3> HIDE DEF c
    <3> QED
      BY <1>2, <3>1, <3>2
  <2>2. CASE ~MakesSecret(env.secret)
    BY <1>2, <2>2 DEF EnsureJwtSecret, MakesSecret
  <2> QED
    BY <2>1, <2>2
<1>4. RunDomain' = RunDomain
  BY <1>1, <1>3, SameDomain
<1>5. Keeps("secret")
  BY <1>1, <1>3, <1>4 DEF Keeps
<1>6. PlacesTyped' /\ BuildIsPinned'
  BY <1>1, Unpacked DEF PlacesTyped, BuildIsPinned
<1> QED
  BY <1>1, <1>3, <1>5, <1>6, StepKeeps

LEMMA CaddyfileStep ==
    ASSUME SetupAssumption, SetupInv, WriteCaddyfile
    PROVE  SetupInv'
<1>1. At("caddyfile") /\ Go
      /\ UNCHANGED <<env, base, dist, admin, unit, binary, pin, secrets, begun, byHand, unpinned>>
      /\ caddyfile' = IF caddyfile = NoDomain THEN Address(RunDomain) ELSE caddyfile
  BY DEF WriteCaddyfile
<1>2. RunDomain # Invalid
  BY <1>1, KindOf, AddressTypes, Unpacked
<1>3. caddyfile' \in Addresses /\ caddyfile' # NoDomain
  BY <1>1, <1>2, AddressTypes, Unpacked DEF PlacesTyped
<1>4. RunDomain' = RunDomain
  BY <1>1, SameDomain
<1>5. Keeps("caddyfile")
  BY <1>1, <1>3, <1>4 DEF Keeps
<1>6. PlacesTyped' /\ BuildIsPinned'
  BY <1>1, <1>3, Unpacked DEF PlacesTyped, BuildIsPinned
<1> QED
  BY <1>1, <1>5, <1>6, StepKeeps, Unpacked

\* A wizard that finds a domain goes on with the admin.
LEMMA DomainFound ==
    ASSUME SetupAssumption, SetupInv, ConfigureDomain, env.domain # NoDomain
    PROVE  SetupInv'
<1> DEFINE r == [run EXCEPT !.todo = SubSeq(@, 5, Len(@)), !.skipped = TRUE]
<1>1. At("domain") /\ run' = r /\ UNCHANGED env
      /\ UNCHANGED <<base, dist, caddyfile, admin, unit, binary, pin, secrets, begun, byHand,
                     unpinned>>
  BY DEF ConfigureDomain
<1>2. run.todo # <<>> /\ Head(run.todo) = "domain" /\ run \in Run
  BY <1>1, Unpacked DEF At
<1>3. /\ run.kind = "wizard" /\ "record" \in Left /\ "secret" \notin Left
      /\ run.said # "complete"
  BY <1>1, <1>2, KindOf, UnderWay DEF WizardOnly
<1>4. PICK P \in Plans(run) : \E i \in 1..Len(P) :
          /\ P \in Seq(Steps) /\ run.todo = SubSeq(P, i, Len(P)) /\ P[i] = "domain"
  BY <1>2, UnderWay
<1>5. PICK i \in 1..Len(P) : run.todo = SubSeq(P, i, Len(P)) /\ P[i] = "domain"
  BY <1>4
<1>6. P = WizardSteps(run.edition) /\ run.edition \in Editions /\ P \in Seq(Steps)
  BY <1>3, PlansShape, Unpacked
<1>7. i = 2 /\ Len(P) \in {8, 10}
  BY <1>5, <1>6, WizardShape
<1>8. Len(run.todo) = Len(P) - 1 /\ run.todo \in Seq(Steps)
  BY <1>5, <1>6, <1>7, RouteEnds
<1>9. SubSeq(run.todo, 5, Len(run.todo)) = SubSeq(P, 6, Len(P))
  <2>1. SubSeq(SubSeq(P, 2, Len(P)), 5, Len(P) - 1) = SubSeq(P, 6, Len(P))
    <3>1. 2 \in 1..Len(P) /\ Len(P) \in 1..Len(P) /\ 5 \in 1..Len(P) - 2 + 1
          /\ Len(P) - 1 \in 1..Len(P) - 2 + 1 /\ 2 + 5 - 1 = 6 /\ 2 + (Len(P) - 1) - 1 = Len(P)
      BY <1>7
    <3> QED
      BY <1>6, <3>1, SubSeqOfSubSeq
  <2> QED
    BY <1>5, <1>7, <1>8, <2>1
<1>10. /\ r.kind = "wizard" /\ r.edition = run.edition /\ r.domain = run.domain
       /\ r.force = run.force /\ r.skipped /\ r.said = run.said /\ r.todo = SubSeq(P, 6, Len(P))
       /\ r \in Run
  <2>1. SubSeq(P, 6, Len(P)) \in Seq(Steps)
    BY <1>6, <1>7, RouteEnds
  <2>2. r = [run EXCEPT !.todo = SubSeq(P, 6, Len(P)), !.skipped = TRUE]
    BY <1>2, <1>9 DEF Run
  <2> HIDE DEF r
  <2> QED
    BY <1>2, <1>3, <2>1, <2>2 DEF Run
<1> HIDE DEF r
<1>11. Plans(run') = Plans(run)
  BY <1>1, <1>3, <1>10 DEF Plans
<1>12. RouteInv'
  <2>1. P \in Plans(run') /\ 6 \in 1..Len(P) + 1
    <3>1. P \in Plans(run')
      BY <1>4, <1>11
    <3>2. 6 \in 1..Len(P) + 1
      <4>1. CASE Len(P) = 8
        BY <4>1
      <4>2. CASE Len(P) = 10
        BY <4>2
      <4> QED
        BY <1>7, <4>1, <4>2
    <3> QED
      BY <3>1, <3>2
  <2>2. OnRoute(P, 6)'
    BY <1>1, <1>10, <2>1 DEF OnRoute
  <2>3. \E Q \in Plans(run') : \E k \in 1..Len(Q) + 1 : OnRoute(Q, k)'
    BY <2>1, <2>2
  <2>4. run'.said # "complete" /\ (run'.force => run'.domain # NoDomain)
    BY <1>1, <1>3, <1>10, Unpacked DEF RouteInv
  <2> QED
    BY <2>3, <2>4 DEF RouteInv
<1>13. env.secret > 0
  BY <1>2, <1>3 DEF SetupInv, DoneInv
<1>14. "record" \in Left'
  <2>1. PICK k \in 7..Len(P) : P[k] = "record"
    BY <1>6, WizardShape
  <2>2. k \in 6..Len(P) /\ 6 \in 1..Len(P) + 1
    BY <1>7
  <2>3. "record" \in Range(SubSeq(P, 6, Len(P)))
    BY <1>6, <2>1, <2>2, RouteElements
  <2> QED
    BY <1>1, <1>10, <2>3 DEF Left
<1>15. DoneInv'
  BY <1>1, <1>10, <1>13, <1>14 DEF DoneInv
<1>16. SetupTyped' /\ BuildIsPinned'
  BY <1>1, <1>10, Unpacked DEF SetupTyped, PlacesTyped, BuildIsPinned
<1> QED
  BY <1>12, <1>15, <1>16 DEF SetupInv

LEMMA DomainStep ==
    ASSUME SetupAssumption, SetupInv, ConfigureDomain
    PROVE  SetupInv'
<1>1. CASE env.domain = NoDomain
  <2> DEFINE c == [env EXCEPT !.domain = run.domain, !.cors = Address(run.domain)]
  <2>1. At("domain") /\ Go /\ env' = c
        /\ UNCHANGED <<base, dist, caddyfile, admin, unit, binary, pin, secrets, begun, byHand,
                       unpinned>>
    BY <1>1 DEF ConfigureDomain, WriteEnv
  <2>2. run.domain \in Domains \cup {NoDomain} /\ Address(run.domain) \in Addresses
    BY AddressTypes, Unpacked DEF Run
  <2>3. /\ c \in Env /\ c.domain = run.domain /\ c.cors = Address(run.domain)
        /\ c.secret = env.secret /\ c.edition = env.edition
    BY <2>2, Unpacked DEF Env
  <2> HIDE DEF c
  <2>4. run.kind = "wizard"
    BY <2>1, KindOf DEF WizardOnly
  <2>5. Keeps("domain")
    BY <2>1, <2>3, <2>4 DEF Keeps
  <2>6. PlacesTyped' /\ BuildIsPinned'
    BY <2>1, Unpacked DEF PlacesTyped, BuildIsPinned
  <2> QED
    BY <2>1, <2>3, <2>5, <2>6, StepKeeps, Unpacked
<1> QED
  BY <1>1, DomainFound

LEMMA FrontendStep ==
    ASSUME SetupAssumption, SetupInv, WriteFrontendEnv
    PROVE  SetupInv'
<1>1. At("frontend") /\ Go /\ base' = Address(run.domain)
      /\ UNCHANGED <<env, dist, caddyfile, admin, unit, binary, pin, secrets, begun, byHand,
                     unpinned>>
  BY DEF WriteFrontendEnv
<1>2. RunDomain' = RunDomain
  BY <1>1, SameDomain
<1>3. run.kind = "wizard"
  BY <1>1, KindOf DEF WizardOnly
<1>4. Keeps("frontend")
  BY <1>1, <1>2, <1>3 DEF Keeps
<1>5. PlacesTyped' /\ BuildIsPinned'
  BY <1>1, AddressTypes, Unpacked DEF PlacesTyped, BuildIsPinned
<1> QED
  BY <1>1, <1>4, <1>5, StepKeeps, Unpacked

LEMMA BuildStep ==
    ASSUME SetupAssumption, SetupInv, BuildDashboard
    PROVE  SetupInv'
<1>1. PICK s \in {"build", "dashboard"} : At(s)
  BY DEF BuildDashboard
<1>2. /\ Go /\ (dist' = Address(base) \/ dist' = dist)
      /\ UNCHANGED <<env, base, caddyfile, admin, unit, binary, pin, secrets, begun, byHand,
                     unpinned>>
  BY DEF BuildDashboard, Build
<1>3. dist' \in Addresses /\ (dist # NoDomain => dist' # NoDomain)
  BY <1>2, AddressTypes, Unpacked DEF PlacesTyped
<1>4. PlacesTyped' /\ BuildIsPinned'
  BY <1>2, <1>3, Unpacked DEF PlacesTyped, BuildIsPinned
<1> QED
  BY <1>1, <1>2, <1>3, <1>4, QuietStep

LEMMA AdminStep ==
    ASSUME SetupAssumption, SetupInv, CreateAdminUser
    PROVE  SetupInv'
<1>1. At("admin") /\ Go /\ admin' \in {admin, TRUE}
      /\ UNCHANGED <<env, base, dist, caddyfile, unit, binary, pin, secrets, begun, byHand,
                     unpinned>>
  BY DEF CreateAdminUser
<1>2. PlacesTyped' /\ BuildIsPinned'
  BY <1>1, Unpacked DEF PlacesTyped, BuildIsPinned
<1>3. admin => admin'
  BY <1>1
<1>4. dist # NoDomain => dist' # NoDomain
  BY <1>1
<1> QED
  BY <1>1, <1>2, <1>3, <1>4, QuietStep

LEMMA CatAIStep ==
    ASSUME SetupAssumption, SetupInv, ConfigureCatAI
    PROVE  SetupInv'
<1>1. At("catai") /\ Go
      /\ UNCHANGED <<base, dist, caddyfile, admin, unit, binary, pin, secrets, begun, byHand,
                     unpinned>>
  BY DEF ConfigureCatAI
<1>2. PICK ai \in {env.ai, TRUE} : env' = [env EXCEPT !.ai = ai]
  BY DEF ConfigureCatAI, WriteEnv
<1>3. /\ env' \in Env /\ env'.edition = env.edition /\ env'.domain = env.domain
      /\ env'.cors = env.cors /\ env'.secret = env.secret
  BY <1>2, Unpacked DEF Env
<1>4. RunDomain' = RunDomain
  BY <1>1, <1>3, SameDomain
<1>5. Keeps("catai")
  BY <1>1, <1>3, <1>4 DEF Keeps
<1>6. PlacesTyped' /\ BuildIsPinned'
  BY <1>1, Unpacked DEF PlacesTyped, BuildIsPinned
<1> QED
  BY <1>1, <1>3, <1>5, <1>6, StepKeeps, Unpacked

LEMMA SetupRecordStep ==
    ASSUME SetupAssumption, SetupInv, RecordEdition
    PROVE  SetupInv'
<1>1. At("record") /\ Go /\ env' = [env EXCEPT !.edition = run.edition]
      /\ UNCHANGED <<base, dist, caddyfile, admin, unit, binary, pin, secrets, begun, byHand,
                     unpinned>>
  BY DEF RecordEdition, WriteEnv
<1>2. run.kind = "wizard" /\ run.edition \in Editions
  BY <1>1, KindOf, Unpacked DEF WizardOnly, Run
<1>3. /\ env' \in Env /\ env'.edition = run.edition /\ env'.domain = env.domain
      /\ env'.cors = env.cors /\ env'.secret = env.secret
  BY <1>1, <1>2, Unpacked DEF Env
<1>4. Keeps("record")
  BY <1>1, <1>2, <1>3 DEF Keeps
<1>5. PlacesTyped' /\ BuildIsPinned'
  BY <1>1, Unpacked DEF PlacesTyped, BuildIsPinned
<1> QED
  BY <1>1, <1>3, <1>4, <1>5, StepKeeps, Unpacked

LEMMA SetupServiceStep ==
    ASSUME SetupAssumption, SetupInv, StartService
    PROVE  SetupInv'
<1>1. At("service") /\ Go /\ unit' \in {unit, "wizard"}
      /\ UNCHANGED <<env, base, dist, caddyfile, admin, binary, pin, secrets, begun, byHand,
                     unpinned>>
  BY DEF StartService
<1>2. PlacesTyped' /\ BuildIsPinned'
  BY <1>1, Unpacked DEF PlacesTyped, BuildIsPinned
<1> QED
  BY <1>1, <1>2, QuietStep

\* A step that gives the run up and leaves .env alone.
LEMMA GivesUp ==
    ASSUME SetupInv, GiveUp \/ Die, UNCHANGED <<env, secrets>>, PlacesTyped', BuildIsPinned'
    PROVE  SetupInv'
<1>1. PICK w \in {"failed", "installed"} : Then(<<>>, w)
  BY DEF GiveUp, Die, Outcome
<1>2. run' \in Run /\ RouteInv' /\ DoneInv'
  BY <1>1, EndsEarly
<1> QED
  BY <1>2, Unpacked DEF SetupInv, SetupTyped

LEMMA CheckStep ==
    ASSUME SetupAssumption, SetupInv, CheckDomain
    PROVE  SetupInv'
<1>1. At("check")
      /\ UNCHANGED <<env, base, dist, caddyfile, admin, unit, binary, pin, secrets, begun, byHand,
                     unpinned>>
  BY DEF CheckDomain
<1>2. PlacesTyped' /\ BuildIsPinned'
  BY <1>1, Unpacked DEF PlacesTyped, BuildIsPinned
<1>3. CASE RunDomain = Invalid
  BY <1>1, <1>2, <1>3, GivesUp DEF CheckDomain
<1>4. CASE RunDomain # Invalid
  <2>1. Go
    BY <1>4 DEF CheckDomain
  <2>2. RunDomain' = RunDomain
    BY <1>1, <2>1, SameDomain
  <2>3. Keeps("check")
    BY <1>1, <1>4, <2>2 DEF Keeps
  <2> QED
    BY <1>1, <1>2, <2>1, <2>3, StepKeeps, Unpacked
<1> QED
  BY <1>3, <1>4

LEMMA ConfigureStep ==
    ASSUME SetupAssumption, SetupInv, Configure
    PROVE  SetupInv'
<1> DEFINE new == RunDomain # NoDomain /\ (env.domain = NoDomain \/ run.force)
           d == IF new THEN RunDomain ELSE env.domain
           a == IF new THEN RunDomain ELSE env.cors
           c == [env EXCEPT !.edition = run.edition, !.domain = d, !.cors = a]
<1>1. At("configure") /\ Go /\ env' = c
      /\ UNCHANGED <<base, dist, caddyfile, admin, unit, binary, pin, secrets, begun, byHand,
                     unpinned>>
  BY DEF Configure, WriteEnv
<1>2. run.todo # <<>> /\ run.kind \in {"batch", "installer"} /\ run.edition \in Editions
      /\ run.domain # Invalid
  BY <1>1, KindOf, AddressTypes, Unpacked DEF BatchOnly, Run, At
<1>3. d \in Domains \cup {NoDomain, Invalid} /\ (new => d = RunDomain)
  BY AddressTypes, Unpacked DEF Env
<1>4. RunDomain # Invalid
  BY <1>1, <1>2, KindOf
<1>5. a \in Addresses
  BY <1>4, AddressTypes, Unpacked DEF Env, Addresses
<1>6. new \/ d = env.domain
  OBVIOUS
<1> HIDE DEF new, d, a
<1>7. /\ c \in Env /\ c.edition = run.edition /\ c.domain = d /\ c.cors = a
      /\ c.secret = env.secret
  BY <1>2, <1>3, <1>5, Unpacked DEF Env
<1> HIDE DEF c
<1>8. RunDomain' # Invalid
  <2>1. run'.domain = run.domain /\ run'.kind = run.kind
    BY <1>1, <1>2, GoesOn
  <2> QED
    BY <1>1, <1>2, <1>3, <1>4, <1>6, <1>7, <2>1 DEF RunDomain
<1>9. Keeps("configure")
  BY <1>1, <1>2, <1>7, <1>8 DEF Keeps
<1>10. PlacesTyped' /\ BuildIsPinned'
  BY <1>1, Unpacked DEF PlacesTyped, BuildIsPinned
<1> QED
  BY <1>1, <1>7, <1>9, <1>10, StepKeeps, Unpacked

LEMMA ValidateStep ==
    ASSUME SetupAssumption, SetupInv, Validate
    PROVE  SetupInv'
<1>1. At("validate") /\ (Go \/ GiveUp)
      /\ UNCHANGED <<env, base, dist, caddyfile, admin, unit, binary, pin, secrets, begun, byHand,
                     unpinned>>
  BY DEF Validate
<1>2. PlacesTyped' /\ BuildIsPinned'
  BY <1>1, Unpacked DEF PlacesTyped, BuildIsPinned
<1> QED
  BY <1>1, <1>2, QuietStep, GivesUp

LEMMA FirstAdminStep ==
    ASSUME SetupAssumption, SetupInv, FirstAdmin
    PROVE  SetupInv'
<1>1. At("first admin") /\ ((Go /\ admin' = TRUE) \/ (GiveUp /\ admin' = admin))
      /\ UNCHANGED <<env, base, dist, caddyfile, unit, binary, pin, secrets, begun, byHand,
                     unpinned>>
  BY DEF FirstAdmin
<1>2. PlacesTyped' /\ BuildIsPinned'
  BY <1>1, Unpacked DEF PlacesTyped, BuildIsPinned
<1>3. CASE Go /\ admin' = TRUE
  <2>1. RunDomain' = RunDomain
    BY <1>1, <1>3, SameDomain
  <2>2. Keeps("first admin")
    BY <1>1, <1>3, <2>1 DEF Keeps
  <2> QED
    BY <1>1, <1>2, <1>3, <2>2, StepKeeps, Unpacked
<1>4. CASE GiveUp /\ admin' = admin
  BY <1>1, <1>2, <1>4, GivesUp
<1> QED
  BY <1>1, <1>3, <1>4

LEMMA AssetsStep ==
    ASSUME SetupAssumption, SetupInv, Assets
    PROVE  SetupInv'
<1>1. /\ At("assets")
      /\ \/ Go /\ dist' = dist /\ (run.edition = "lite" \/ dist # NoDomain)
         \/ Go /\ dist' = Address(base)
         \/ GiveUp /\ dist' = dist
      /\ UNCHANGED <<env, base, caddyfile, admin, unit, binary, pin, secrets, begun, byHand,
                     unpinned>>
  BY DEF Assets, Build
<1>2. /\ dist' \in Addresses
      /\ dist # NoDomain => dist' # NoDomain
      /\ Go /\ run.edition = "full" => dist' # NoDomain \/ GiveUp
  BY <1>1, AddressTypes, Unpacked DEF PlacesTyped
<1>3. PlacesTyped' /\ BuildIsPinned'
  BY <1>1, <1>2, Unpacked DEF PlacesTyped, BuildIsPinned
<1>4. CASE GiveUp
  BY <1>1, <1>3, <1>4, GivesUp
<1>5. CASE Go /\ ~GiveUp
  <2>1. RunDomain' = RunDomain
    BY <1>1, <1>5, SameDomain
  <2>2. Keeps("assets")
    BY <1>1, <1>2, <1>5, <2>1 DEF Keeps
  <2> QED
    BY <1>1, <1>3, <1>5, <2>2, StepKeeps, Unpacked
<1> QED
  BY <1>1, <1>4, <1>5

\* A run at its start has all of its steps to take.
LEMMA FromTheStart ==
    ASSUME NEW P \in Plans(run'), P \in Seq(Steps), run'.todo = P
    PROVE  /\ (\E Q \in Plans(run) : \E i \in 1..Len(Q) + 1 : OnRoute(Q, i))'
           /\ \A k \in 1..Len(P) : P[k] \in Left'
<1>1. Len(P) \in Nat /\ 1 \in 1..Len(P) + 1 /\ SubSeq(P, 1, Len(P)) = P
  BY SubSeqFull, LenProperties
<1>2. OnRoute(P, 1)'
  BY <1>1 DEF OnRoute
<1>3. ASSUME NEW k \in 1..Len(P)
      PROVE  P[k] \in Left'
  <2>1. P[k] \in Range(SubSeq(P, 1, Len(P)))
    BY <1>1, RouteElements
  <2> QED
    BY <1>1, <2>1 DEF Left
<1> QED
  BY <1>1, <1>2, <1>3

LEMMA DependenciesStep ==
    ASSUME SetupAssumption, SetupInv, Dependencies
    PROVE  SetupInv'
<1>1. At("dependencies")
      /\ UNCHANGED <<env, base, dist, caddyfile, admin, unit, pin, secrets, begun, byHand>>
  BY DEF Dependencies
<1>2. CASE ~Works(binary) /\ Go /\ binary' \in Builds /\ unpinned' = Works(binary')
  <2>1. PlacesTyped'
    BY <1>1, <1>2, Unpacked DEF PlacesTyped, Works
  <2>2. BuildIsPinned'
    BY <1>2 DEF BuildIsPinned, Works
  <2> QED
    BY <1>1, <1>2, <2>1, <2>2, QuietStep
<1>3. ASSUME UNCHANGED <<binary, unpinned>>
      PROVE  PlacesTyped' /\ BuildIsPinned'
  BY <1>1, <1>3, Unpacked DEF PlacesTyped, BuildIsPinned
<1>4. CASE Die /\ UNCHANGED <<binary, unpinned>>
  BY <1>1, <1>3, <1>4, GivesUp
<1>5. CASE Then(Tail(Tail(run.todo)), "nothing") /\ UNCHANGED <<binary, unpinned>>
  <2>1. run.todo # <<>> /\ Head(run.todo) = "dependencies" /\ run \in Run
    BY <1>1, Unpacked DEF At
  <2>2. run.kind = "installer" /\ Left \subseteq InstallerOnly
    BY <1>1, KindOf DEF InstallerOnly
  <2>3. PICK P \in Plans(run) : \E i \in 1..Len(P) :
            /\ run.todo = SubSeq(P, i, Len(P)) /\ P[i] = "dependencies" /\ P \in Seq(Steps)
    BY <2>1, UnderWay
  <2>4. PICK i \in 1..Len(P) : run.todo = SubSeq(P, i, Len(P)) /\ P[i] = "dependencies"
    BY <2>3
  <2>5. P = InstallerSteps
    <3>1. P = InstallerSteps \/ P = BatchSteps
      BY <2>2, PlansShape, Unpacked
    <3>2. P # BatchSteps
      BY <2>4, BatchShape DEF InstallerOnly
    <3> QED
      BY <3>1, <3>2
  <2>6. i = 1 /\ Len(P) = 8 /\ P \in Seq(Steps)
    BY <2>4, <2>5, InstallerShape
  <2>7. Tail(Tail(run.todo)) = SubSeq(P, 3, 8)
    <3>1. 1 \in 1..Len(P) /\ 2 \in 1..Len(P) /\ Len(P) \in 1..Len(P) /\ Len(P) \in 2..Len(P)
          /\ 1 + 1 = 2 /\ 2 + 1 = 3
      BY <2>6
    <3>2. Tail(SubSeq(P, 1, Len(P))) = SubSeq(P, 2, Len(P))
      BY <2>6, <3>1, HeadTailOfSubSeq
    <3>3. Tail(SubSeq(P, 2, Len(P))) = SubSeq(P, 3, Len(P))
      BY <2>6, <3>1, HeadTailOfSubSeq
    <3> QED
      BY <2>4, <2>6, <3>2, <3>3
  <2>8. SubSeq(P, 3, 8) \in Seq(Steps) /\ 3 \in 1..Len(P) + 1
    <3>1. 3 \in 1..Len(P) + 1
      BY <2>6
    <3> QED
      BY <2>6, <3>1, RouteEnds
  <2> DEFINE r == [run EXCEPT !.todo = SubSeq(P, 3, 8), !.said = "nothing"]
  <2>9. run' = r
    BY <1>5, <2>7 DEF Then
  <2>10. /\ r \in Run /\ r.kind = run.kind /\ r.edition = run.edition /\ r.domain = run.domain
         /\ r.force = run.force /\ r.todo = SubSeq(P, 3, 8) /\ r.said = "nothing"
    BY <2>1, <2>8 DEF Run, Said
  <2> HIDE DEF r
  <2>11. Plans(run') = Plans(run)
    BY <2>9, <2>10 DEF Plans
  <2>12. RouteInv'
    <3>1. OnRoute(P, 3)'
      BY <2>3, <2>6, <2>8, <2>9, <2>10, <2>11 DEF OnRoute
    <3>2. \E Q \in Plans(run') : \E k \in 1..Len(Q) + 1 : OnRoute(Q, k)'
      BY <2>3, <2>8, <2>11, <3>1
    <3>3. run'.said # "complete" /\ (run'.force => run'.domain # NoDomain)
      BY <2>9, <2>10, Unpacked DEF RouteInv
    <3> QED
      BY <3>2, <3>3 DEF RouteInv
  <2>13. "caddyfile" \notin Left'
    <3>1. \A k \in 3..Len(P) : P[k] # "caddyfile"
      <4>1. \A k \in 3..Len(P) : k \in 1..8
        BY <2>6
      <4> QED
        BY <2>5, <4>1, InstallerShape DEF InstallerOnly
    <3>2. ASSUME "caddyfile" \in Range(SubSeq(P, 3, Len(P)))
          PROVE  FALSE
      <4> DEFINE x == "caddyfile"
      <4> HIDE DEF x
      <4>1. P \in Seq(Steps) /\ 3 \in 1..Len(P) + 1
        BY <2>6, <2>8
      <4>2. x \in Range(SubSeq(P, 3, Len(P))) <=> \E k \in 3..Len(P) : x = P[k]
        BY ONLY <4>1, RouteElements
      <4>3. PICK k \in 3..Len(P) : "caddyfile" = P[k]
        BY <3>2, <4>2 DEF x
      <4> QED
        BY <3>1, <4>3
    <3> QED
      BY <2>6, <2>9, <2>10, <3>2 DEF Left
  <2>14. DoneInv'
    BY <2>2, <2>9, <2>10, <2>13 DEF DoneInv
  <2> QED
    BY <1>1, <1>3, <1>5, <2>9, <2>10, <2>12, <2>14, Unpacked DEF SetupInv, SetupTyped
<1> QED
  BY <1>2, <1>4, <1>5 DEF Dependencies

LEMMA PinStep ==
    ASSUME SetupAssumption, SetupInv, WritePin
    PROVE  SetupInv'
<1>1. At("pin") /\ Go
      /\ UNCHANGED <<env, base, dist, caddyfile, admin, unit, binary, secrets, begun, byHand>>
      /\ pin' = IF Works(binary) THEN binary ELSE pin
  BY DEF WritePin
<1>2. unpinned' \in BOOLEAN
  <2>1. unpinned' = (unpinned /\ ~Works(binary))
    BY Zenon DEF WritePin
  <2> QED
    BY <2>1
<1>3. PlacesTyped'
  <2>1. pin' \in Builds \cup {NoBuild}
    BY <1>1, Unpacked DEF PlacesTyped
  <2> QED
    BY <1>1, <1>2, <2>1, Unpacked DEF PlacesTyped
<1>4. BuildIsPinned'
  BY <1>1 DEF BuildIsPinned, Works
<1> QED
  BY <1>1, <1>3, <1>4, QuietStep

LEMMA DeployStep ==
    ASSUME SetupAssumption, SetupInv, Deploy
    PROVE  SetupInv'
<1>1. /\ At("deploy")
      /\ \/ Go /\ dist' = dist
         \/ Go /\ dist' = Address(base)
         \/ Die /\ dist' = dist
      /\ UNCHANGED <<env, base, caddyfile, admin, unit, binary, pin, secrets, begun, byHand,
                     unpinned>>
  BY DEF Deploy, Build
<1>2. dist' \in Addresses /\ (dist # NoDomain => dist' # NoDomain)
  BY <1>1, AddressTypes, Unpacked DEF PlacesTyped
<1>3. PlacesTyped' /\ BuildIsPinned'
  BY <1>1, <1>2, Unpacked DEF PlacesTyped, BuildIsPinned
<1> QED
  BY <1>1, <1>2, <1>3, QuietStep, GivesUp

\* The installer's own steps have nothing to keep but the secret.
LEMMA InstallerStep ==
    ASSUME SetupAssumption, SetupInv, SetEnvVar
    PROVE  SetupInv'
<1>1. PICK s \in {"edition", "hostname", "key"} :
        /\ At(s)
        /\ s = "edition" => env' = [env EXCEPT !.edition = run.edition] /\ secrets' = secrets
        /\ s = "hostname" =>
              /\ secrets' = secrets
              /\ env' = [env EXCEPT !.domain = IF run.domain = NoDomain THEN @ ELSE run.domain]
        /\ s = "key" =>
              \/ /\ env.secret = 0 /\ secrets' = secrets + 1
                 /\ env' = [env EXCEPT !.secret = secrets + 1]
              \/ UNCHANGED <<env, secrets>>
  <2>1. CASE At("edition") /\ env' = [env EXCEPT !.edition = run.edition] /\ UNCHANGED secrets
    BY <2>1
  <2>2. CASE /\ At("hostname") /\ UNCHANGED secrets
             /\ env' = [env EXCEPT !.domain = IF run.domain = NoDomain THEN @ ELSE run.domain]
    BY <2>2
  <2>3. CASE /\ At("key")
             /\ IF env.secret = 0
                THEN env' = [env EXCEPT !.secret = secrets + 1] /\ secrets' = secrets + 1
                ELSE UNCHANGED <<env, secrets>>
    BY <2>3
  <2> QED
    BY <2>1, <2>2, <2>3 DEF SetEnvVar
<1>2. Go /\ UNCHANGED <<base, dist, caddyfile, admin, unit, binary, pin, begun, byHand, unpinned>>
  BY DEF SetEnvVar
<1>3. run.kind = "installer" /\ run.todo # <<>>
  BY <1>1, KindOf DEF InstallerOnly, At
<1>4. env \in Env /\ secrets \in Nat /\ env.secret \in -1..secrets /\ run \in Run
      /\ run.domain # Invalid
  BY Unpacked, AddressTypes
<1>5. /\ env' \in Env /\ secrets' \in Nat /\ env'.secret \in -1..secrets'
      /\ env.secret > 0 => env'.secret > 0
      /\ env'.domain \in {env.domain, run.domain}
      /\ env'.domain # env.domain => run.domain # NoDomain
  <2>1. CASE s = "edition"
    BY <1>1, <1>4, <2>1 DEF Env, Run
  <2>2. CASE s = "hostname"
    BY <1>1, <1>4, <2>2 DEF Env, Run
  <2>3. CASE s = "key"
    <3>1. CASE UNCHANGED <<env, secrets>>
      BY <1>4, <3>1
    <3>2. CASE /\ env.secret = 0 /\ secrets' = secrets + 1
               /\ env' = [env EXCEPT !.secret = secrets + 1]
      <4> DEFINE c == [env EXCEPT !.secret = secrets + 1]
      <4>1. c \in Env /\ c.secret = secrets + 1 /\ c.domain = env.domain
        BY <1>4 DEF Env
      <4>2. env' = c
        BY <3>2
      <4> HIDE DEF c
      <4> QED
        BY <1>4, <3>2, <4>1, <4>2
    <3> QED
      BY <1>1, <2>3, <3>1, <3>2
  <2> QED
    BY <1>1, <2>1, <2>2, <2>3
<1>6. RunDomain # Invalid => RunDomain' # Invalid
  <2>1. run'.domain = run.domain /\ run'.kind = run.kind
    BY <1>2, <1>3, GoesOn
  <2> QED
    BY <1>3, <1>4, <1>5, <2>1 DEF RunDomain
<1>7. Keeps(s)
  BY <1>1, <1>2, <1>3, <1>5, <1>6 DEF Keeps
<1>8. PlacesTyped' /\ BuildIsPinned'
  BY <1>2, Unpacked DEF PlacesTyped, BuildIsPinned
<1> QED
  BY <1>1, <1>2, <1>5, <1>7, <1>8, StepKeeps

LEMMA UnitStep ==
    ASSUME SetupAssumption, SetupInv, InstallUnit
    PROVE  SetupInv'
<1>1. At("unit") /\ Go /\ unit' \in {unit, "none", "installer"}
      /\ UNCHANGED <<env, base, dist, caddyfile, admin, binary, pin, secrets, begun, byHand,
                     unpinned>>
  BY DEF InstallUnit
<1>2. PlacesTyped' /\ BuildIsPinned'
  BY <1>1, Unpacked DEF PlacesTyped, BuildIsPinned
<1> QED
  BY <1>1, <1>2, QuietStep

LEMMA RunSetupStep ==
    ASSUME SetupAssumption, SetupInv, RunSetup
    PROVE  SetupInv'
<1>1. At("setup")
      /\ UNCHANGED <<env, base, dist, caddyfile, admin, unit, binary, pin, secrets, begun, byHand,
                     unpinned>>
  BY DEF RunSetup
<1>2. PlacesTyped' /\ BuildIsPinned'
  BY <1>1, Unpacked DEF PlacesTyped, BuildIsPinned
<1>3. run.kind = "installer" /\ run \in Run
  BY <1>1, KindOf, Unpacked DEF InstallerOnly
<1>4. CASE Then(<<>>, "installed")
  BY <1>1, <1>2, <1>4, EndsEarly, Unpacked DEF SetupInv, SetupTyped
<1>5. CASE Then(BatchSteps, "nothing")
  <2> DEFINE r == [run EXCEPT !.todo = BatchSteps, !.said = "nothing"]
  <2>1. run' = r
    BY <1>5 DEF Then
  <2>2. /\ r \in Run /\ r.kind = run.kind /\ r.domain = run.domain /\ r.force = run.force
        /\ r.todo = BatchSteps /\ r.said = "nothing"
    BY <1>3, BatchShape DEF Run, Said
  <2> HIDE DEF r
  <2>3. BatchSteps \in Plans(run') /\ BatchSteps \in Seq(Steps) /\ run'.todo = BatchSteps
    <3>1. BatchSteps \in Plans(run')
      BY <1>3, <2>1, <2>2 DEF Plans
    <3> QED
      BY <2>1, <2>2, <3>1, BatchShape
  <2>4. (\E Q \in Plans(run) : \E i \in 1..Len(Q) + 1 : OnRoute(Q, i))'
        /\ \A k \in 1..Len(BatchSteps) : BatchSteps[k] \in Left'
    BY <2>3, FromTheStart
  <2>5. "check" \in Left'
    <3>1. Len(BatchSteps) = 7 /\ BatchSteps[2] = "check"
      BY BatchShape
    <3>2. 2 \in 1..Len(BatchSteps)
      BY <3>1
    <3> QED
      BY <2>4, <3>1, <3>2
  <2>6. RouteInv'
    <3>1. run'.said # "complete" /\ (run'.force => run'.domain # NoDomain)
      BY <2>1, <2>2, Unpacked DEF RouteInv
    <3> QED
      BY <2>4, <3>1 DEF RouteInv
  <2>7. DoneInv'
    BY <1>3, <2>1, <2>2, <2>5 DEF DoneInv
  <2> QED
    BY <1>1, <1>2, <2>1, <2>2, <2>6, <2>7, Unpacked DEF SetupInv, SetupTyped
<1> QED
  BY <1>4, <1>5 DEF RunSetup

LEMMA BeginStep ==
    ASSUME SetupAssumption, SetupInv, NEW k \in {"wizard", "batch", "installer"},
           NEW e \in Editions, NEW d \in Domains \cup {NoDomain}, NEW f \in BOOLEAN,
           Begin(k, e, d, f)
    PROVE  SetupInv'
<1> DEFINE P == CASE k = "wizard" -> WizardSteps(e)
                  [] k = "batch" -> BatchSteps
                  [] OTHER -> InstallerSteps
           r == [kind |-> k, edition |-> e, domain |-> d, force |-> f, skipped |-> FALSE,
                 said |-> "nothing", todo |-> P]
<1>1. /\ run' = r /\ begun < MaxRuns /\ begun' = begun + 1 /\ (f => d # NoDomain)
      /\ UNCHANGED <<env, base, dist, caddyfile, admin, unit, binary, pin, secrets, byHand,
                     unpinned>>
  BY DEF Begin
<1>2. /\ k = "wizard" => P = WizardSteps(e)
      /\ k = "batch" => P = BatchSteps
      /\ k = "installer" => P = InstallerSteps
  OBVIOUS
<1> HIDE DEF P
<1>3. P \in Seq(Steps)
  BY <1>2, WizardShape, BatchShape, InstallerShape
<1>4. /\ r \in Run /\ r.kind = k /\ r.edition = e /\ r.domain = d /\ r.force = f
      /\ r.todo = P /\ r.said = "nothing"
  BY <1>3 DEF Run, Said
<1> HIDE DEF r
<1>5. P \in Plans(run')
  BY <1>1, <1>2, <1>4 DEF Plans
<1>6. /\ (\E Q \in Plans(run) : \E i \in 1..Len(Q) + 1 : OnRoute(Q, i))'
      /\ \A j \in 1..Len(P) : P[j] \in Left'
  BY <1>1, <1>3, <1>4, <1>5, FromTheStart
<1>7. RouteInv'
  BY <1>1, <1>4, <1>6 DEF RouteInv
<1>8. ASSUME k = "wizard"
      PROVE  DoneInv'
  <2>1. Len(P) \in {8, 10} /\ P[1] = "secret" /\ P[2] = "domain" /\ P[3] = "frontend"
        /\ P[4] = "caddyfile" /\ \E j \in 7..Len(P) : P[j] = "record"
    BY <1>2, <1>8, WizardShape
  <2>2. PICK j \in 7..Len(P) : P[j] = "record"
    BY <2>1
  <2>3. 1 \in 1..Len(P) /\ 2 \in 1..Len(P) /\ 3 \in 1..Len(P) /\ 4 \in 1..Len(P)
        /\ j \in 1..Len(P)
    BY <2>1
  <2>4. /\ "secret" \in Left' /\ "domain" \in Left' /\ "frontend" \in Left'
        /\ "caddyfile" \in Left' /\ "record" \in Left'
    BY <1>6, <2>1, <2>2, <2>3
  <2>5. run'.kind = "wizard"
    BY <1>1, <1>4, <1>8
  <2>6. DoneInv'
    BY <2>4, <2>5 DEF DoneInv
  <2> QED
    BY <2>6
<1>9. ASSUME k = "batch"
      PROVE  DoneInv'
  <2>1. P = BatchSteps /\ Len(P) = 7
    BY <1>2, <1>9, BatchShape
  <2>2. /\ "secret" \in Left' /\ "check" \in Left' /\ "configure" \in Left'
        /\ "caddyfile" \in Left' /\ "first admin" \in Left' /\ "assets" \in Left'
    <3>1. 1 \in 1..Len(P) /\ 2 \in 1..Len(P) /\ 3 \in 1..Len(P) /\ 4 \in 1..Len(P)
          /\ 6 \in 1..Len(P) /\ 7 \in 1..Len(P)
      BY <2>1
    <3>2. /\ P[1] = "secret" /\ P[2] = "check" /\ P[3] = "configure" /\ P[4] = "caddyfile"
          /\ P[6] = "first admin" /\ P[7] = "assets"
      BY <2>1, BatchShape
    <3> QED
      BY <1>6, <3>1, <3>2
  <2>3. run'.kind = "batch"
    BY <1>1, <1>4, <1>9
  <2>4. DoneInv'
    BY <2>2, <2>3 DEF DoneInv
  <2> QED
    BY <2>4
<1>10. ASSUME k = "installer"
      PROVE  DoneInv'
  <2>1. P = InstallerSteps /\ Len(P) = 8
    BY <1>2, <1>10, InstallerShape
  <2>2. \A j \in 1..Len(P) : P[j] # "caddyfile"
    BY <2>1, InstallerShape DEF InstallerOnly
  <2>3. ASSUME "caddyfile" \in Range(SubSeq(P, 1, Len(P)))
        PROVE  FALSE
    <3>1. 1 \in 1..Len(P) + 1
      BY <2>1
    <3>2. PICK j \in 1..Len(P) : "caddyfile" = P[j]
      BY <1>3, <2>3, <3>1, RouteElements
    <3> QED
      BY <2>2, <3>2
  <2>4. "caddyfile" \notin Left'
    BY <1>1, <1>3, <1>4, <2>3, SubSeqFull DEF Left
  <2>5. run'.kind = "installer"
    BY <1>1, <1>4, <1>10
  <2>6. DoneInv'
    BY <2>4, <2>5 DEF DoneInv
  <2> QED
    BY <2>6
<1>11. SetupTyped' /\ BuildIsPinned'
  BY <1>1, <1>4, Unpacked DEF SetupTyped, PlacesTyped, BuildIsPinned, SetupAssumption
<1>12. DoneInv'
  BY <1>8, <1>9, <1>10
<1> QED
  BY <1>7, <1>11, <1>12 DEF SetupInv

LEMMA InterruptStep ==
    ASSUME SetupAssumption, SetupInv, Interrupt
    PROVE  SetupInv'
<1>1. /\ Then(<<>>, "failed") /\ (UNCHANGED env \/ env' = EmptyEnv)
      /\ UNCHANGED <<base, dist, caddyfile, admin, unit, binary, pin, secrets, begun, byHand,
                     unpinned>>
  BY DEF Interrupt, Die
<1>2. run' \in Run /\ RouteInv' /\ DoneInv'
  BY <1>1, EndsEarly
<1>3. env' \in Env /\ env'.secret \in -1..secrets
  <2>1. EmptyEnv \in Env /\ EmptyEnv.secret = 0
    BY DEF EmptyEnv, Env, Addresses
  <2>2. 0 \in -1..secrets
    BY Unpacked
  <2> QED
    BY <1>1, <2>1, <2>2, Unpacked
<1>4. SetupTyped'
  BY <1>1, <1>2, <1>3, Unpacked DEF SetupTyped, PlacesTyped
<1>5. BuildIsPinned'
  BY <1>1, Unpacked DEF BuildIsPinned
<1> QED
  BY <1>2, <1>4, <1>5 DEF SetupInv

LEMMA HandStep ==
    ASSUME SetupAssumption, SetupInv, ChangeByHand
    PROVE  SetupInv'
<1>1. /\ run.todo = <<>> /\ run' = [run EXCEPT !.said = "nothing"]
      /\ byHand < MaxEdits /\ byHand' = byHand + 1
      /\ UNCHANGED <<base, dist, admin, unit, pin, secrets, begun, unpinned>>
      /\ env' \in {env, [env EXCEPT !.domain = Invalid], [env EXCEPT !.secret = -1]}
      /\ binary' \in {binary, NoBuild} /\ caddyfile' \in {caddyfile, NoDomain}
  BY DEF ChangeByHand, Idle
<1>2. /\ run' \in Run /\ run'.kind = run.kind /\ run'.edition = run.edition
      /\ run'.domain = run.domain /\ run'.force = run.force
      /\ run'.todo = <<>> /\ run'.said = "nothing"
  BY <1>1, Unpacked DEF Run, Said
<1>3. Plans(run') = Plans(run)
  BY <1>2 DEF Plans
<1>4. RouteInv'
  <2>1. PICK P \in Plans(run) : \E i \in 1..Len(P) + 1 : OnRoute(P, i)
    BY Unpacked DEF RouteInv
  <2>2. PICK i \in 1..Len(P) + 1 : OnRoute(P, i)
    BY <2>1
  <2>3. OnRoute(P, i)'
    BY <1>1, <1>2, <1>3, <2>2 DEF OnRoute
  <2>4. \E Q \in Plans(run') : \E k \in 1..Len(Q) + 1 : OnRoute(Q, k)'
    BY <1>3, <2>2, <2>3
  <2>5. run'.force => run'.domain # NoDomain
    BY <1>2, Unpacked DEF RouteInv
  <2> QED
    BY <1>2, <2>4, <2>5 DEF RouteInv
<1>5. DoneInv'
  BY <1>2 DEF DoneInv
<1>6. env' \in Env /\ env'.secret \in -1..secrets
  <2>1. [env EXCEPT !.domain = Invalid] \in Env
    BY Unpacked DEF Env
  <2>2. [env EXCEPT !.domain = Invalid].secret = env.secret
    BY Unpacked DEF Env
  <2>3. [env EXCEPT !.secret = -1] \in Env
    BY Unpacked DEF Env
  <2>4. [env EXCEPT !.secret = -1].secret = -1
    BY Unpacked DEF Env
  <2>5. -1 \in -1..secrets
    BY Unpacked
  <2>6. CASE env' = env
    BY <2>6, Unpacked
  <2>7. CASE env' = [env EXCEPT !.domain = Invalid]
    BY <2>1, <2>2, <2>7, Unpacked
  <2>8. CASE env' = [env EXCEPT !.secret = -1]
    BY <2>3, <2>4, <2>5, <2>8
  <2> QED
    BY <1>1, <2>6, <2>7, <2>8
<1>7. PlacesTyped'
  BY <1>1, Unpacked DEF PlacesTyped, Addresses, SetupAssumption
<1>8. BuildIsPinned'
  BY <1>1, Unpacked DEF BuildIsPinned, Works
<1>9. SetupTyped'
  BY <1>1, <1>2, <1>6, <1>7, Unpacked DEF SetupTyped
<1> QED
  BY <1>4, <1>5, <1>8, <1>9 DEF SetupInv

LEMMA SetupStarts ==
    ASSUME SetupAssumption, SetupInit
    PROVE  SetupInv
<1>1. /\ run = NoRun /\ env = EmptyEnv /\ secrets = 0 /\ base = NoDomain /\ dist = NoDomain
      /\ caddyfile = NoDomain /\ admin = FALSE /\ unit = "none" /\ binary = NoBuild
      /\ pin = NoBuild /\ begun = 0 /\ byHand = 0 /\ unpinned = FALSE
  BY DEF SetupInit
<1>2. <<>> \in Seq(Steps) /\ Len(<<>>) = 0
  BY EmptySeq
<1>3. run \in Run /\ run.todo = <<>> /\ run.said = "nothing" /\ run.kind = "none"
      /\ run.force = FALSE
  BY <1>1, <1>2 DEF NoRun, Run, Said, Editions
<1>4. env \in Env /\ env.secret = 0
  BY <1>1 DEF EmptyEnv, Env, Addresses
<1>5. PlacesTyped
  <2>1. NoDomain \in Addresses /\ 0 \in 0..MaxRuns /\ 0 \in 0..MaxEdits
    BY DEF Addresses, SetupAssumption
  <2> QED
    BY <1>1, <2>1 DEF PlacesTyped
<1>6. SetupTyped
  BY <1>1, <1>3, <1>4, <1>5 DEF SetupTyped
<1>7. RouteInv
  <2>1. <<>> \in Plans(run)
    BY <1>3 DEF Plans
  <2>2. 1 \in 1..Len(<<>>) + 1 /\ SubSeq(<<>>, 1, Len(<<>>)) = <<>>
    BY <1>2, SubSeqFull
  <2>3. OnRoute(<<>>, 1)
    BY <1>3, <2>1, <2>2 DEF OnRoute
  <2> QED
    BY <1>3, <2>1, <2>2, <2>3 DEF RouteInv
<1>8. DoneInv
  BY <1>3 DEF DoneInv
<1>9. BuildIsPinned
  BY <1>1 DEF BuildIsPinned, Works
<1> QED
  BY <1>6, <1>7, <1>8, <1>9 DEF SetupInv

LEMMA SetupKeepsInv ==
    ASSUME SetupAssumption, SetupInv, [SetupNext]_setupVars
    PROVE  SetupInv'
<1>1. CASE \E k \in {"wizard", "batch", "installer"}, e \in Editions,
              d \in Domains \cup {NoDomain}, f \in BOOLEAN : Begin(k, e, d, f)
  BY <1>1, BeginStep
<1>2. CASE Interrupt
  BY <1>2, InterruptStep
<1>3. CASE ChangeByHand
  BY <1>3, HandStep
<1>4. CASE EnsureJwtSecret
  BY <1>4, SecretStep
<1>5. CASE WriteCaddyfile
  BY <1>5, CaddyfileStep
<1>6. CASE ConfigureDomain
  BY <1>6, DomainStep
<1>7. CASE WriteFrontendEnv
  BY <1>7, FrontendStep
<1>8. CASE BuildDashboard
  BY <1>8, BuildStep
<1>9. CASE CreateAdminUser
  BY <1>9, AdminStep
<1>10. CASE ConfigureCatAI
  BY <1>10, CatAIStep
<1>11. CASE RecordEdition
  BY <1>11, SetupRecordStep
<1>12. CASE StartService
  BY <1>12, SetupServiceStep
<1>13. CASE CheckDomain
  BY <1>13, CheckStep
<1>14. CASE Configure
  BY <1>14, ConfigureStep
<1>15. CASE Validate
  BY <1>15, ValidateStep
<1>16. CASE FirstAdmin
  BY <1>16, FirstAdminStep
<1>17. CASE Assets
  BY <1>17, AssetsStep
<1>18. CASE Dependencies
  BY <1>18, DependenciesStep
<1>19. CASE WritePin
  BY <1>19, PinStep
<1>20. CASE Deploy
  BY <1>20, DeployStep
<1>21. CASE SetEnvVar
  BY <1>21, InstallerStep
<1>22. CASE InstallUnit
  BY <1>22, UnitStep
<1>23. CASE RunSetup
  BY <1>23, RunSetupStep
<1>24. CASE UNCHANGED setupVars
  <2>1. UNCHANGED <<env, base, dist, caddyfile, admin, unit, binary, pin, run, secrets, begun,
                    byHand, unpinned>>
    BY <1>24 DEF setupVars
  <2>2. SetupTyped' /\ BuildIsPinned'
    BY <2>1, Unpacked DEF SetupTyped, PlacesTyped, BuildIsPinned
  <2>3. RouteInv'
    BY <2>1, Unpacked DEF RouteInv, OnRoute
  <2>4. DoneInv'
    BY <2>1 DEF SetupInv, DoneInv, Left, RunDomain
  <2> QED
    BY <2>2, <2>3, <2>4 DEF SetupInv
<1> QED
  BY <1>1, <1>2, <1>3, <1>4, <1>5, <1>6, <1>7, <1>8, <1>9, <1>10, <1>11, <1>12, <1>13, <1>14,
     <1>15, <1>16, <1>17, <1>18, <1>19, <1>20, <1>21, <1>22, <1>23, <1>24 DEF SetupNext

LEMMA SetupShows ==
    ASSUME SetupInv
    PROVE  SetupTypeOK /\ SetupHolds
<1>1. run \in Run /\ env \in Env /\ PlacesTyped /\ env.secret \in -1..secrets
  BY Unpacked
<1>2. Range(run.todo) \subseteq Steps
  <2>1. run.todo \in Seq(Steps)
    BY <1>1 DEF Run
  <2> QED
    BY <2>1, ElementOfSeq, LenProperties DEF Range
<1>3. SetupTypeOK
  BY <1>1, <1>2 DEF SetupTypeOK, PlacesTyped, Run, Env
<1>4. ASSUME run.said = "complete"
      PROVE  DoneInv!2 /\ Left = {} /\ run.kind \in {"wizard", "batch"}
  <2>1. run.todo = <<>> /\ run.kind \in {"wizard", "batch"}
    BY <1>4, Unpacked DEF RouteInv
  <2>2. Left = {}
    BY <2>1, EmptySeq DEF Left, Range
  <2> QED
    BY <1>4, <2>1, <2>2 DEF SetupInv, DoneInv
<1>5. CompleteIsWhole
  BY <1>4 DEF CompleteIsWhole
<1>6. WizardAgrees
  BY <1>4 DEF WizardAgrees
<1> QED
  BY <1>3, <1>5, <1>6, Unpacked DEF SetupHolds

(***************************************************************************)
(* A run that says "complete" has left what it takes to start: the edition,*)
(* a secret and a Caddyfile (but a wizard that skipped the domain), and    *)
(* from `catwaf setup --yes` and setup.sh an admin and the dashboard of the*)
(* full edition; a wizard's domain, CORS entry and dashboard address agree;*)
(* and the Caddy build is the pinned one unless a run ended before it      *)
(* recorded it. For any domains, builds, interruptions and changes by hand.*)
(***************************************************************************)
THEOREM SetupIsWhole ==
    ASSUME SetupAssumption
    PROVE  SetupSpec => [](SetupTypeOK /\ SetupHolds)
<1>1. SetupInit => SetupInv
  BY SetupStarts
<1>2. SetupInv /\ [SetupNext]_setupVars => SetupInv'
  BY SetupKeepsInv
<1>3. SetupInv => SetupTypeOK /\ SetupHolds
  BY SetupShows
<1> QED
  BY <1>1, <1>2, <1>3, PTL DEF SetupSpec

\* What a step that is not a change by hand preserves.
Preserves ==
    begun' = begun /\ byHand' = byHand /\ env' # EmptyEnv =>
        /\ env.secret > 0 => env'.secret = env.secret
        /\ admin => admin'
        /\ caddyfile # NoDomain => caddyfile' = caddyfile
        /\ env.domain # NoDomain /\ env'.domain # env.domain =>
            run.domain = env'.domain /\ (run.force \/ run.kind = "installer")

LEMMA NothingLost ==
    ASSUME admin => admin', caddyfile # NoDomain => caddyfile' = caddyfile,
           env.secret > 0 => env'.secret = env.secret,
           env.domain # NoDomain /\ env'.domain # env.domain =>
               run.domain = env'.domain /\ (run.force \/ run.kind = "installer")
    PROVE  Preserves
BY DEF Preserves

LEMMA StepPreserves ==
    ASSUME SetupAssumption, SetupInv, [SetupNext]_setupVars
    PROVE  Preserves
<1>1. env \in Env /\ secrets \in Nat /\ env.secret \in -1..secrets /\ run \in Run
  BY Unpacked
<1>2. CASE \E k \in {"wizard", "batch", "installer"}, e \in Editions,
              d \in Domains \cup {NoDomain}, f \in BOOLEAN : Begin(k, e, d, f)
  BY <1>2, NothingLost DEF Begin
<1>3. CASE Interrupt
  <2>1. UNCHANGED <<admin, caddyfile>> /\ (env' = env \/ env' = EmptyEnv)
    BY <1>3 DEF Interrupt
  <2> QED
    BY <2>1 DEF Preserves
<1>4. CASE ChangeByHand
  <2>1. byHand' # byHand
    BY <1>4, Unpacked DEF ChangeByHand, PlacesTyped
  <2> QED
    BY <2>1 DEF Preserves
<1>5. CASE EnsureJwtSecret
  <2>1. UNCHANGED <<admin, caddyfile>>
    BY <1>5 DEF EnsureJwtSecret
  <2>2. CASE MakesSecret(env.secret)
    <3>1. env' = [env EXCEPT !.secret = secrets + 1] /\ ~(env.secret > 0)
      BY <1>1, <1>5, <2>2 DEF EnsureJwtSecret, WriteEnv, MakesSecret
    <3>2. env'.domain = env.domain
      BY <1>1, <3>1 DEF Env
    <3> QED
      BY <2>1, <3>1, <3>2, NothingLost
  <2>3. CASE ~MakesSecret(env.secret)
    <3>1. env' = env
      BY <1>5, <2>3 DEF EnsureJwtSecret
    <3> QED
      BY <2>1, <3>1, NothingLost
  <2> QED
    BY <2>2, <2>3
<1>6. CASE WriteCaddyfile
  BY <1>6, NothingLost DEF WriteCaddyfile
<1>7. CASE ConfigureDomain
  <2>1. UNCHANGED <<admin, caddyfile>>
    BY <1>7 DEF ConfigureDomain
  <2>2. CASE env.domain # NoDomain
    <3>1. env' = env
      BY <1>7, <2>2 DEF ConfigureDomain
    <3> QED
      BY <2>1, <3>1, NothingLost
  <2>3. CASE env.domain = NoDomain
    <3>1. env' = [env EXCEPT !.domain = run.domain, !.cors = Address(run.domain)]
      BY <1>7, <2>3 DEF ConfigureDomain, WriteEnv
    <3>2. env'.secret = env.secret
      BY <1>1, <3>1 DEF Env
    <3> QED
      BY <2>1, <2>3, <3>2, NothingLost
  <2> QED
    BY <2>2, <2>3
<1>8. CASE WriteFrontendEnv \/ BuildDashboard \/ StartService \/ CheckDomain \/ Validate
  BY <1>8, NothingLost
     DEF WriteFrontendEnv, BuildDashboard, StartService, CheckDomain, Validate
<1>9. CASE Assets \/ Dependencies \/ WritePin \/ Deploy \/ InstallUnit \/ RunSetup
  BY <1>9, NothingLost DEF Assets, Dependencies, WritePin, Deploy, InstallUnit, RunSetup
<1>10. CASE CreateAdminUser \/ FirstAdmin
  <2>1. UNCHANGED <<env, caddyfile>>
    BY <1>10 DEF CreateAdminUser, FirstAdmin
  <2>2. admin => admin'
    BY <1>10 DEF CreateAdminUser, FirstAdmin
  <2> QED
    BY <2>1, <2>2, NothingLost
<1>11. CASE ConfigureCatAI
  <2>1. UNCHANGED <<admin, caddyfile>> /\ \E ai \in {env.ai, TRUE} : env' = [env EXCEPT !.ai = ai]
    BY <1>11 DEF ConfigureCatAI, WriteEnv
  <2>2. env'.secret = env.secret /\ env'.domain = env.domain
    BY <1>1, <2>1 DEF Env
  <2> QED
    BY <2>1, <2>2, NothingLost
<1>12. CASE RecordEdition
  <2>1. UNCHANGED <<admin, caddyfile>> /\ env' = [env EXCEPT !.edition = run.edition]
    BY <1>12 DEF RecordEdition, WriteEnv
  <2>2. env'.secret = env.secret /\ env'.domain = env.domain
    BY <1>1, <2>1 DEF Env
  <2> QED
    BY <2>1, <2>2, NothingLost
<1>13. CASE Configure
  <2> DEFINE new == RunDomain # NoDomain /\ (env.domain = NoDomain \/ run.force)
             d == IF new THEN RunDomain ELSE env.domain
             a == IF new THEN RunDomain ELSE env.cors
  <2>1. At("configure") /\ UNCHANGED <<admin, caddyfile>>
        /\ env' = [env EXCEPT !.edition = run.edition, !.domain = d, !.cors = a]
    BY <1>13 DEF Configure, WriteEnv
  <2>2. d = env.domain \/ (d = RunDomain /\ (env.domain = NoDomain \/ run.force))
    OBVIOUS
  <2> HIDE DEF new, d, a
  <2>3. env'.secret = env.secret /\ env'.domain = d
    BY <1>1, <2>1 DEF Env
  <2>4. run.force => RunDomain = run.domain
    BY Unpacked DEF RouteInv, RunDomain
  <2> QED
    BY <2>1, <2>2, <2>3, <2>4, NothingLost
<1>14. CASE SetEnvVar
  <2>1. UNCHANGED <<admin, caddyfile>>
    BY <1>14 DEF SetEnvVar
  <2>2. CASE At("edition") /\ env' = [env EXCEPT !.edition = run.edition]
    <3>1. env'.secret = env.secret /\ env'.domain = env.domain
      BY <1>1, <2>2 DEF Env
    <3> QED
      BY <2>1, <3>1, NothingLost
  <2>3. CASE /\ At("hostname")
             /\ env' = [env EXCEPT !.domain = IF run.domain = NoDomain THEN @ ELSE run.domain]
    <3>1. env'.secret = env.secret /\ env'.domain \in {env.domain, run.domain}
      BY <1>1, <2>3 DEF Env
    <3>2. run.kind = "installer"
      BY <2>3, KindOf DEF InstallerOnly
    <3> QED
      BY <2>1, <3>1, <3>2, NothingLost
  <2>4. CASE /\ At("key")
             /\ \/ env.secret = 0 /\ env' = [env EXCEPT !.secret = secrets + 1]
                \/ env' = env
    <3>1. CASE env' = env
      BY <2>1, <3>1, NothingLost
    <3>2. CASE env.secret = 0 /\ env' = [env EXCEPT !.secret = secrets + 1]
      <4>1. env'.domain = env.domain
        BY <1>1, <3>2 DEF Env
      <4> QED
        BY <2>1, <3>2, <4>1, NothingLost
    <3> QED
      BY <2>4, <3>1, <3>2
  <2> QED
    BY <1>14, <2>2, <2>3, <2>4 DEF SetEnvVar
<1>15. CASE UNCHANGED setupVars
  BY <1>15, NothingLost DEF setupVars
<1> QED
  BY <1>2, <1>3, <1>4, <1>5, <1>6, <1>7, <1>8, <1>9, <1>10, <1>11, <1>12, <1>13, <1>14, <1>15
     DEF SetupNext

(***************************************************************************)
(* "Re-running is safe" (setup.sh:20): but for an .env left empty, a run   *)
(* never replaces a secret, takes an admin away or loses the Caddyfile,    *)
(* and changes the domain only to the one it was given.                    *)
(***************************************************************************)
THEOREM RunningAgainPreserves ==
    ASSUME SetupAssumption
    PROVE  SetupSpec => RerunPreserves
<1>1. SetupInit => SetupInv
  BY SetupStarts
<1>2. SetupInv /\ [SetupNext]_setupVars => SetupInv'
  BY SetupKeepsInv
<1>3. SetupInv /\ [SetupNext]_setupVars => [Preserves]_setupVars
  BY StepPreserves
<1>4. SetupSpec => [][Preserves]_setupVars
  BY <1>1, <1>2, <1>3, PTL DEF SetupSpec
<1> QED
  BY <1>4 DEF RerunPreserves, Preserves

-----------------------------------------------------------------------------
(* The settings pages.                                                     *)

FormSpec == FormInit /\ [][FormNext]_formVars

Fields == {"list", "secret"}

LEMMA DefaultsDomain == DOMAIN Defaults = Fields
  BY DEF Defaults, Fields

\* What a draft is.
LEMMA DraftIs ==
    ASSUME NEW d \in Drafts
    PROVE  /\ DOMAIN d \subseteq Fields
           /\ d = [f \in DOMAIN d |-> d[f]]
           /\ "list" \in DOMAIN d => d["list"] \in SUBSET Entries
           /\ "secret" \in DOMAIN d => d["secret"] \in {Blank, Secret}
<1>1. PICK F \in SUBSET Fields, v \in Typed : d = [f \in F |-> v[f]]
  BY DefaultsDomain DEF Drafts
<1>2. v["list"] \in SUBSET Entries /\ v["secret"] \in {Blank, Secret}
  BY DEF Typed
<1> QED
  BY <1>1, <1>2

LEMMA IsDraft ==
    ASSUME NEW d, NEW F \in SUBSET Fields, d = [f \in F |-> d[f]],
           "list" \in F => d["list"] \in SUBSET Entries,
           "secret" \in F => d["secret"] \in {Blank, Secret}
    PROVE  d \in Drafts
<1> DEFINE v == [list |-> IF "list" \in F THEN d["list"] ELSE {},
                 secret |-> IF "secret" \in F THEN d["secret"] ELSE Blank]
<1>1. v \in Typed
  BY DEF Typed
<1>2. v["list"] = (IF "list" \in F THEN d["list"] ELSE {})
      /\ v["secret"] = (IF "secret" \in F THEN d["secret"] ELSE Blank)
  OBVIOUS
<1> HIDE DEF v
<1>3. \A f \in F : v[f] = d[f]
  BY <1>2 DEF Fields
<1>4. d = [f \in F |-> v[f]]
  BY <1>3
<1> QED
  BY <1>1, <1>4, DefaultsDomain DEF Drafts

LEMMA EmptyDraft == NoDraft \in Drafts /\ DOMAIN NoDraft = {}
<1>1. NoDraft = [f \in {} |-> NoDraft[f]] /\ DOMAIN NoDraft = {}
  BY DEF NoDraft
<1> QED
  BY <1>1, IsDraft

\* What values are.
LEMMA ValuesAre ==
    ASSUME NEW v
    PROVE  v \in Values <=>
              /\ v = [f \in Fields |-> v[f]]
              /\ v["list"] \in SUBSET Entries /\ v["secret"] \in {Blank, Secret, Kept}
  BY DEF Values, Fields

\* A draft over values.
LEMMA OverHas ==
    ASSUME NEW d \in Drafts, NEW v \in Values
    PROVE  /\ Over(d, v) \in Values
           /\ \A f \in DOMAIN d : Over(d, v)[f] = d[f]
           /\ \A f \in Fields : f \notin DOMAIN d => Over(d, v)[f] = v[f]
<1>1. DOMAIN d \subseteq Fields /\ DOMAIN v = Fields
  BY DraftIs, ValuesAre
<1>2. Over(d, v) = [f \in Fields |-> IF f \in DOMAIN d THEN d[f] ELSE v[f]]
  BY <1>1 DEF Over
<1>3. \A f \in Fields : Over(d, v)[f] = IF f \in DOMAIN d THEN d[f] ELSE v[f]
  BY <1>2
<1>4. Over(d, v) = [f \in Fields |-> Over(d, v)[f]]
  BY <1>2
<1>5. Over(d, v)["list"] \in SUBSET Entries /\ Over(d, v)["secret"] \in {Blank, Secret, Kept}
  BY <1>3, DraftIs, ValuesAre DEF Fields
<1>6. Over(d, v) \in Values
  BY <1>4, <1>5, ValuesAre
<1> QED
  BY <1>1, <1>3, <1>6

\* A field set in a draft.
LEMMA OneSet ==
    ASSUME NEW d \in Drafts, NEW f \in Fields, NEW w,
           f = "list" => w \in SUBSET Entries, f = "secret" => w \in {Blank, Secret}
    PROVE  /\ Over([x \in {f} |-> w], d) \in Drafts
           /\ DOMAIN Over([x \in {f} |-> w], d) = {f} \cup DOMAIN d
<1> DEFINE o == Over([x \in {f} |-> w], d)
           F == {f} \cup DOMAIN d
<1>1. F \in SUBSET Fields
  BY DraftIs
<1>2. o = [x \in F |-> IF x = f THEN w ELSE d[x]]
  BY DEF Over
<1>3. \A x \in F : o[x] = IF x = f THEN w ELSE d[x]
  BY <1>2
<1>4. o = [x \in F |-> o[x]] /\ DOMAIN o = F
  BY <1>2
<1>5. \A x \in F : x # f => x \in DOMAIN d
  OBVIOUS
<1> HIDE DEF o, F
<1>6. "list" \in F => o["list"] \in SUBSET Entries
  BY <1>3, <1>5, DraftIs
<1>7. "secret" \in F => o["secret"] \in {Blank, Secret}
  BY <1>3, <1>5, DraftIs
<1>8. o \in Drafts
  BY <1>1, <1>4, <1>6, <1>7, IsDraft
<1> QED
  BY <1>4, <1>8 DEF o, F

LEMMA RedactedValues ==
    ASSUME NEW v \in Values PROVE Redacted(v) \in Values
  BY DEF Redacted, Values

LEMMA DefaultValues == Defaults \in Values
  BY DEF Defaults, Values

-----------------------------------------------------------------------------
(* The invariant of the settings pages.                                    *)

FormRec == [values : Values \cup {Missing}, draft : Drafts, preview : Previews \cup {Missing}]

\* An answer that brings values.
Told(r) == r # Missing /\ r.answer # Missing /\ r.answer.outcome \in {"values", "applied", "saved"}

\* What is asked is asked of the draft on the screen, which cannot change meanwhile.
RequestFits(f, r) ==
    /\ r.op = "load" => f.values = Missing
    /\ r.op \in {"save", "preview"} => r.patch = f.draft

\* The answer is one to the request.
AnswerFits(r) ==
    /\ r.answer.outcome = "values" => r.op = "load"
    /\ r.answer.outcome \in {"applied", "saved"} =>
          /\ r.op \in {"save", "reset"}
          /\ r.op = "save" => \A x \in DOMAIN r.patch : r.answer.values[x] = r.patch[x]
    /\ r.answer.outcome = "applied" => r.answer.live = TRUE
    /\ r.answer.outcome = "preview" =>
          r.op = "preview" /\ r.answer.preview.to = Over(r.patch, r.answer.preview.from)

\* What holds of a form f, its request r, the fields e edited in it and whether it may be
\* behind, b, while g is stored.
Good(f, r, e, b, g) ==
    /\ DOMAIN f.draft \subseteq e
    /\ f.values = Missing => DOMAIN f.draft = {}
    /\ f.preview # Missing => f.preview.to = Over(f.draft, f.preview.from)
    /\ r # Missing => RequestFits(f, r) /\ (r.answer # Missing => AnswerFits(r))
    /\ Told(r) /\ ~b => r.answer.values = g
    /\ f.values # Missing /\ ~b /\ ~Told(r) => f.values = Redacted(g)

FormsGood == \A a \in Editors : Good(forms[a], requests[a], edited[a], behind[a], group)

FormInv == FormTypeOK /\ FormsGood

LEMMA GoodButBehind ==
    ASSUME NEW f, NEW r, NEW e, NEW b, NEW g, Good(f, r, e, b, g), NEW h
    PROVE  Good(f, r, e, TRUE, h)
  BY DEF Good

LEMMA FormTypes ==
    ASSUME FormTypeOK
    PROVE  /\ group \in Values /\ enforced \in Values \cup {Missing}
           /\ forms = [a \in Editors |-> forms[a]] /\ \A a \in Editors : forms[a] \in FormRec
           /\ requests = [a \in Editors |-> requests[a]]
           /\ \A a \in Editors : requests[a] \in Asked \cup {Missing}
           /\ sent \in 0..MaxRequests
           /\ edited = [a \in Editors |-> edited[a]]
           /\ \A a \in Editors : edited[a] \in SUBSET Fields
           /\ behind = [a \in Editors |-> behind[a]] /\ \A a \in Editors : behind[a] \in BOOLEAN
  BY DefaultsDomain DEF FormTypeOK, FormRec

\* One form, request and so on is another one.
LEMMA OneForm ==
    ASSUME FormTypeOK, NEW a \in Editors, NEW f \in FormRec
    PROVE  [forms EXCEPT ![a] = f] \in [Editors -> FormRec]
  BY DEF FormTypeOK, FormRec

LEMMA OneRequest ==
    ASSUME FormTypeOK, NEW a \in Editors, NEW r \in Asked \cup {Missing}
    PROVE  [requests EXCEPT ![a] = r] \in [Editors -> Asked \cup {Missing}]
  BY DEF FormTypeOK

LEMMA FormInvInit == FormAssumption /\ FormInit => FormInv
<1> SUFFICES ASSUME FormAssumption, FormInit PROVE FormInv
  OBVIOUS
<1>1. group \in Values
  BY DEF FormInit, Values
<1>2. [values |-> Missing, draft |-> NoDraft, preview |-> Missing] \in FormRec
  BY EmptyDraft DEF FormRec
<1>3. forms \in [Editors -> FormRec]
  BY <1>2 DEF FormInit
<1>4. sent \in 0..MaxRequests
  BY DEF FormInit, FormAssumption
<1>5. FormTypeOK
  BY <1>1, <1>3, <1>4 DEF FormInit, FormTypeOK, FormRec
<1>6. ASSUME NEW a \in Editors
      PROVE  Good(forms[a], requests[a], edited[a], behind[a], group)
  <2>1. /\ forms[a].values = Missing /\ forms[a].draft = NoDraft /\ forms[a].preview = Missing
        /\ requests[a] = Missing
    BY DEF FormInit
  <2> QED
    BY <2>1, EmptyDraft DEF Good, Told
<1> QED
  BY <1>5, <1>6 DEF FormInv, FormsGood

\* Only the form of a changes, and what is stored only if the others may be behind.
LEMMA OnlyOneForm ==
    ASSUME FormInv, NEW a \in Editors,
           \A b \in Editors \ {a} :
              /\ forms'[b] = forms[b] /\ requests'[b] = requests[b] /\ edited'[b] = edited[b]
              /\ (behind'[b] = behind[b] /\ group' = group) \/ behind'[b] = TRUE,
           Good(forms'[a], requests'[a], edited'[a], behind'[a], group')
    PROVE  FormsGood'
<1> SUFFICES ASSUME NEW b \in Editors
             PROVE  Good(forms'[b], requests'[b], edited'[b], behind'[b], group')
  BY DEF FormsGood
<1>1. CASE b = a
  BY <1>1
<1>2. CASE b # a
  <2>1. Good(forms[b], requests[b], edited[b], behind[b], group)
    BY DEF FormInv, FormsGood
  <2> QED
    BY <1>2, <2>1, GoodButBehind
<1> QED
  BY <1>1, <1>2

LEMMA OpenKeepsFormInv ==
    ASSUME FormAssumption, FormInv, NEW a \in Editors, Open(a) PROVE FormInv'
<1> DEFINE r == [op |-> "load", patch |-> NoDraft, answer |-> Missing]
<1>1. /\ forms[a].values = Missing /\ requests[a] = Missing
      /\ requests' = [requests EXCEPT ![a] = r]
      /\ UNCHANGED <<group, enforced, forms, sent, edited, behind>>
  BY DEF Open, Loaded, Free, Ask
<1>2. r \in Asked /\ r.op = "load" /\ r.answer = Missing
  BY EmptyDraft DEF Asked
<1> HIDE DEF r
<1>3. FormTypeOK'
  BY <1>1, <1>2, OneRequest DEF FormInv, FormTypeOK
<1>4. \A b \in Editors : requests'[b] = IF b = a THEN r ELSE requests[b]
  BY <1>1, FormTypes DEF FormInv
<1>5. Good(forms[a], requests[a], edited[a], behind[a], group)
  BY DEF FormInv, FormsGood
<1>6. Good(forms[a], r, edited[a], behind[a], group)
  BY <1>1, <1>2, <1>5 DEF Good, Told, RequestFits
<1>7. FormsGood'
  BY <1>1, <1>4, <1>6, OnlyOneForm
<1> QED
  BY <1>3, <1>7 DEF FormInv

\* A field is set.
LEMMA SetFieldDoes ==
    ASSUME FormAssumption, FormInv, NEW a \in Editors, Loaded(a), Free(a),
           NEW f \in Fields, NEW w, SetField(a, f, w),
           f = "list" => w \in SUBSET Entries, f = "secret" => w \in {Blank, Secret},
           edited' = [edited EXCEPT ![a] = @ \cup {f}],
           UNCHANGED <<group, enforced, requests, sent, behind>>
    PROVE  FormInv'
<1> DEFINE d == Over([x \in {f} |-> w], forms[a].draft)
           new == [forms[a] EXCEPT !.draft = d, !.preview = Missing]
<1>1. forms' = [forms EXCEPT ![a] = new]
  BY DEF SetField
<1>2. forms[a] \in FormRec
  BY FormTypes DEF FormInv
<1>3. d \in Drafts /\ DOMAIN d = {f} \cup DOMAIN forms[a].draft
  BY <1>2, OneSet DEF FormRec
<1> HIDE DEF d
<1>4. /\ new \in FormRec /\ new.draft = d /\ new.preview = Missing
      /\ new.values = forms[a].values
  BY <1>2, <1>3 DEF FormRec
<1> HIDE DEF new
<1>5. edited' = [edited EXCEPT ![a] = edited[a] \cup {f}]
  OBVIOUS
<1>6. FormTypeOK'
  <2>1. edited' \in [Editors -> SUBSET DOMAIN Defaults]
    BY <1>5, DefaultsDomain DEF FormInv, FormTypeOK
  <2>2. forms' \in [Editors -> FormRec]
    BY <1>1, <1>4, OneForm DEF FormInv
  <2> QED
    BY <2>1, <2>2 DEF FormInv, FormTypeOK, FormRec
<1>7. /\ \A b \in Editors : forms'[b] = IF b = a THEN new ELSE forms[b]
      /\ \A b \in Editors : edited'[b] = IF b = a THEN edited[a] \cup {f} ELSE edited[b]
  BY <1>1, <1>5, FormTypes DEF FormInv
<1>8. Good(forms[a], requests[a], edited[a], behind[a], group)
  BY DEF FormInv, FormsGood
<1>9. forms[a].values # Missing /\ requests[a] = Missing
  BY DEF Loaded, Free
<1>10. Good(new, requests[a], edited[a] \cup {f}, behind[a], group)
  BY <1>3, <1>4, <1>8, <1>9 DEF Good, Told
<1>11. FormsGood'
  BY <1>7, <1>10, OnlyOneForm
<1> QED
  BY <1>6, <1>11 DEF FormInv

LEMMA EditKeepsFormInv ==
    ASSUME FormAssumption, FormInv, NEW a \in Editors, Edit(a) PROVE FormInv'
<1>1. /\ Loaded(a) /\ Free(a)
      /\ UNCHANGED <<group, enforced, requests, sent, behind>>
  BY DEF Edit
<1>2. /\ forms[a].draft \in Drafts /\ forms[a].values \in Values
  BY <1>1, FormTypes DEF FormInv, FormRec, Loaded
<1>3. Shown(a)["list"] \in SUBSET Entries
  BY <1>2, OverHas, ValuesAre DEF Shown
<1>4. ASSUME NEW e \in Entries, NEW list \in {Shown(a).list \cup {e}, Shown(a).list \ {e}},
             SetField(a, "list", list), edited' = [edited EXCEPT ![a] = @ \cup {"list"}]
      PROVE  FormInv'
  <2>1. list \in SUBSET Entries
    BY <1>3
  <2> QED
    BY <1>1, <1>4, <2>1, SetFieldDoes DEF Fields
<1>5. ASSUME NEW s \in {Secret, Blank},
             SetField(a, "secret", s), edited' = [edited EXCEPT ![a] = @ \cup {"secret"}]
      PROVE  FormInv'
  BY <1>1, <1>5, SetFieldDoes DEF Fields
<1> QED
  BY <1>4, <1>5 DEF Edit

\* A form is put back, to new values or to those it has.
LEMMA FormCleared ==
    ASSUME FormAssumption, FormInv, NEW a \in Editors, NEW v \in Values \cup {Missing},
           forms' = [forms EXCEPT ![a] = [values |-> v, draft |-> NoDraft, preview |-> Missing]],
           edited' = [edited EXCEPT ![a] = {}], requests' = [requests EXCEPT ![a] = Missing],
           v # Missing /\ ~behind[a] => v = Redacted(group),
           UNCHANGED <<group, enforced, sent, behind>>
    PROVE  FormInv'
<1> DEFINE new == [values |-> v, draft |-> NoDraft, preview |-> Missing]
<1>1. new \in FormRec /\ new.values = v /\ new.draft = NoDraft /\ new.preview = Missing
  BY EmptyDraft DEF FormRec
<1>2. forms' = [forms EXCEPT ![a] = new]
  OBVIOUS
<1> HIDE DEF new
<1>3. FormTypeOK'
  <2>1. edited' \in [Editors -> SUBSET DOMAIN Defaults]
    BY DEF FormInv, FormTypeOK
  <2>2. forms' \in [Editors -> FormRec]
    BY <1>1, <1>2, OneForm DEF FormInv
  <2>3. requests' \in [Editors -> Asked \cup {Missing}]
    BY OneRequest DEF FormInv
  <2> QED
    BY <2>1, <2>2, <2>3 DEF FormInv, FormTypeOK, FormRec
<1>4. /\ \A b \in Editors : forms'[b] = IF b = a THEN new ELSE forms[b]
      /\ \A b \in Editors : edited'[b] = IF b = a THEN {} ELSE edited[b]
      /\ \A b \in Editors : requests'[b] = IF b = a THEN Missing ELSE requests[b]
  BY <1>2, FormTypes DEF FormInv
<1>5. Good(new, Missing, {}, behind[a], group)
  BY <1>1, EmptyDraft DEF Good, Told
<1>6. FormsGood'
  BY <1>4, <1>5, OnlyOneForm
<1> QED
  BY <1>3, <1>6 DEF FormInv

LEMMA ClearedRec ==
    ASSUME NEW f \in FormRec
    PROVE  [f EXCEPT !.draft = NoDraft, !.preview = Missing] =
               [values |-> f.values, draft |-> NoDraft, preview |-> Missing]
<1> DEFINE g == [f EXCEPT !.draft = NoDraft, !.preview = Missing]
<1>1. DOMAIN g = {"values", "draft", "preview"}
  BY DEF FormRec
<1>2. g.values = f.values /\ g.draft = NoDraft /\ g.preview = Missing
  BY DEF FormRec
<1>3. g = [x \in {"values", "draft", "preview"} |-> g[x]]
  BY <1>1
<1> HIDE DEF g
<1>4. g = [values |-> f.values, draft |-> NoDraft, preview |-> Missing]
  BY <1>2, <1>3
<1> QED
  BY <1>4 DEF g

LEMMA DiscardKeepsFormInv ==
    ASSUME FormAssumption, FormInv, NEW a \in Editors, Discard(a) PROVE FormInv'
<1>1. /\ requests[a] = Missing /\ edited' = [edited EXCEPT ![a] = {}]
      /\ forms' = [forms EXCEPT ![a].draft = NoDraft, ![a].preview = Missing]
      /\ UNCHANGED <<group, enforced, requests, sent, behind>>
  BY DEF Discard, Free
<1>2. forms[a] \in FormRec /\ requests = [b \in Editors |-> requests[b]]
  BY FormTypes DEF FormInv
<1>3. [forms[a] EXCEPT !.draft = NoDraft, !.preview = Missing] =
        [values |-> forms[a].values, draft |-> NoDraft, preview |-> Missing]
  BY <1>2, ClearedRec
<1>4. forms' = [forms EXCEPT ![a] =
        [values |-> forms[a].values, draft |-> NoDraft, preview |-> Missing]]
  BY <1>1, <1>3
<1>5. requests' = [requests EXCEPT ![a] = Missing]
  BY <1>1, <1>2
<1>6. forms[a].values \in Values \cup {Missing}
  BY <1>2 DEF FormRec
<1>7. forms[a].values # Missing /\ ~behind[a] => forms[a].values = Redacted(group)
  BY <1>1 DEF FormInv, FormsGood, Good, Told
<1> QED
  BY <1>1, <1>4, <1>5, <1>6, <1>7, FormCleared

LEMMA SubmitKeepsFormInv ==
    ASSUME FormAssumption, FormInv, NEW a \in Editors, NEW op \in {"save", "reset", "preview"},
           Submit(a, op)
    PROVE  FormInv'
<1> DEFINE r == [op |-> op, patch |-> IF op = "reset" THEN NoDraft ELSE Patch(a),
                 answer |-> Missing]
<1>1. /\ forms[a].values # Missing /\ requests[a] = Missing
      /\ sent < MaxRequests /\ sent' = sent + 1
      /\ requests' = [requests EXCEPT ![a] = r]
      /\ UNCHANGED <<group, enforced, forms, edited, behind>>
  BY DEF Submit, Loaded, Free, Ask
<1>2. forms[a] \in FormRec
  BY FormTypes DEF FormInv
<1>3. /\ r \in Asked /\ r.op = op /\ r.answer = Missing
      /\ op # "reset" => r.patch = forms[a].draft
  BY <1>2, EmptyDraft DEF Asked, Patch, FormRec
<1> HIDE DEF r
<1>4. FormTypeOK'
  <2>1. sent' \in 0..MaxRequests
    BY <1>1 DEF FormInv, FormTypeOK, FormAssumption
  <2> QED
    BY <1>1, <1>3, <2>1, OneRequest DEF FormInv, FormTypeOK
<1>5. \A b \in Editors : requests'[b] = IF b = a THEN r ELSE requests[b]
  BY <1>1, FormTypes DEF FormInv
<1>6. Good(forms[a], requests[a], edited[a], behind[a], group)
  BY DEF FormInv, FormsGood
<1>7. Good(forms[a], r, edited[a], behind[a], group)
  BY <1>1, <1>3, <1>6 DEF Good, Told, RequestFits
<1>8. FormsGood'
  BY <1>1, <1>5, <1>7, OnlyOneForm
<1> QED
  BY <1>4, <1>8 DEF FormInv

\* A request is answered.
LEMMA AnswerDoes ==
    ASSUME FormAssumption, FormInv, NEW a \in Editors, NEW answer \in Answers,
           requests[a] # Missing, requests[a].answer = Missing, Answer(a, answer),
           group' \in Values, enforced' \in Values \cup {Missing},
           behind' \in [Editors -> BOOLEAN],
           \A b \in Editors \ {a} : (behind'[b] = behind[b] /\ group' = group) \/ behind'[b] = TRUE,
           \A r \in Asked :
              (r.op = requests[a].op /\ r.patch = requests[a].patch /\ r.answer = answer) =>
                  /\ AnswerFits(r) /\ (Told(r) /\ ~behind'[a] => answer.values = group')
                  /\ ~Told(r) => behind'[a] = behind[a] /\ group' = group,
           UNCHANGED <<forms, sent, edited>>
    PROVE  FormInv'
<1> DEFINE r == [requests[a] EXCEPT !.answer = answer]
<1>1. requests' = [requests EXCEPT ![a] = r]
  BY DEF Answer
<1>2. requests[a] \in Asked
  BY FormTypes DEF FormInv
<1>3. /\ r \in Asked /\ r.op = requests[a].op /\ r.patch = requests[a].patch
      /\ r.answer = answer
  BY <1>2 DEF Asked
<1> HIDE DEF r
<1>4. FormTypeOK'
  <2>1. requests' \in [Editors -> Asked \cup {Missing}]
    BY <1>1, <1>3, OneRequest DEF FormInv
  <2> QED
    BY <2>1 DEF FormInv, FormTypeOK
<1>5. \A b \in Editors : requests'[b] = IF b = a THEN r ELSE requests[b]
  BY <1>1, FormTypes DEF FormInv
<1>6. Good(forms[a], requests[a], edited[a], behind[a], group)
  BY DEF FormInv, FormsGood
<1>7. r # Missing /\ r.answer # Missing /\ ~Told(requests[a])
  BY <1>3 DEF FormAssumption, Told
<1>8. /\ AnswerFits(r) /\ (Told(r) /\ ~behind'[a] => r.answer.values = group')
      /\ ~Told(r) => behind'[a] = behind[a] /\ group' = group
  BY <1>3
<1>9. RequestFits(forms[a], r)
  BY <1>3, <1>6 DEF Good, RequestFits
<1>10. Good(forms[a], r, edited[a], behind'[a], group')
  BY <1>6, <1>7, <1>8, <1>9 DEF Good
<1>11. FormsGood'
  BY <1>5, <1>10, OnlyOneForm
<1> QED
  BY <1>4, <1>11 DEF FormInv

\* What is stored is told, or the reload that failed.
LEMMA StoreDoes ==
    ASSUME FormAssumption, FormInv, NEW a \in Editors, NEW new \in Values,
           requests[a] # Missing, requests[a].answer = Missing, Store(a, new),
           requests[a].op \in {"save", "reset"},
           requests[a].op = "save" =>
               \A x \in DOMAIN requests[a].patch : new[x] = requests[a].patch[x],
           UNCHANGED <<forms, sent, edited>>
    PROVE  FormInv'
<1> DEFINE answer == [outcome |-> IF enforced = Missing THEN "saved" ELSE "applied",
                      values |-> new, live |-> enforced' = new]
<1>1. /\ group' = new /\ enforced' = IF enforced = Missing THEN Missing ELSE new
      /\ Answer(a, answer) /\ behind' = [b \in Editors |-> b # a]
  BY DEF Store
<1>2. answer \in Answers
  <2>1. (enforced' = new) \in BOOLEAN
    OBVIOUS
  <2> QED
    BY <2>1 DEF Answers
<1>3. answer.outcome \in {"saved", "applied"} /\ answer.values = new
  OBVIOUS
<1>4. answer.outcome = "applied" => answer.live = TRUE
  <2>1. answer.outcome = "applied" => enforced # Missing
    OBVIOUS
  <2>2. enforced # Missing => (enforced' = new) = TRUE
    BY <1>1
  <2>3. answer.live = (enforced' = new)
    OBVIOUS
  <2> HIDE DEF answer
  <2> QED
    BY <2>1, <2>2, <2>3
<1> HIDE DEF answer
<1>5. ASSUME NEW r \in Asked, r.op = requests[a].op, r.patch = requests[a].patch,
             r.answer = answer
      PROVE  AnswerFits(r) /\ Told(r) /\ answer.values = group'
  <2>1. r # Missing /\ answer # Missing
    BY <1>2 DEF FormAssumption
  <2>2. Told(r)
    BY <1>3, <1>5, <2>1 DEF Told
  <2>3. AnswerFits(r)
    BY <1>3, <1>4, <1>5 DEF AnswerFits
  <2> QED
    BY <1>1, <1>3, <2>2, <2>3
<1>6. group' \in Values /\ enforced' \in Values \cup {Missing}
  BY <1>1
<1>7. behind' \in [Editors -> BOOLEAN] /\ \A b \in Editors \ {a} : behind'[b] = TRUE
  <2>1. \A b \in Editors : (b # a) \in BOOLEAN
    OBVIOUS
  <2>2. behind' \in [Editors -> BOOLEAN]
    BY <1>1, <2>1
  <2>3. ASSUME NEW b \in Editors \ {a} PROVE behind'[b] = TRUE
    <3>1. behind'[b] = (b # a)
      BY <1>1
    <3>2. (b # a) = TRUE
      OBVIOUS
    <3> QED
      BY <3>1, <3>2
  <2> QED
    BY <2>2, <2>3
<1>8. \A r \in Asked :
          (r.op = requests[a].op /\ r.patch = requests[a].patch /\ r.answer = answer) =>
              /\ AnswerFits(r) /\ (Told(r) /\ ~behind'[a] => answer.values = group')
              /\ ~Told(r) => behind'[a] = behind[a] /\ group' = group
  BY <1>5
<1>9. \A b \in Editors \ {a} : (behind'[b] = behind[b] /\ group' = group) \/ behind'[b] = TRUE
  BY <1>7
<1>10. Answer(a, answer)
  BY <1>1
<1> QED
  BY <1>2, <1>6, <1>7, <1>8, <1>9, <1>10, AnswerDoes

LEMMA ServeKeepsFormInv ==
    ASSUME FormAssumption, FormInv, NEW a \in Editors, Serve(a) PROVE FormInv'
<1> DEFINE q == requests[a]
           merged == Over(q.patch, group)
<1>1. /\ q # Missing /\ q.answer = Missing /\ UNCHANGED <<forms, sent, edited>>
  BY DEF Serve, Free
<1>2. q \in Asked
  BY <1>1, FormTypes DEF FormInv
<1>3. q.patch \in Drafts /\ group \in Values
  BY <1>2, FormTypes DEF Asked, FormInv
<1>4. merged \in Values /\ \A f \in DOMAIN q.patch : merged[f] = q.patch[f]
  BY <1>3, OverHas
<1>5. Missing \notin Answers /\ \A r \in Asked : r # Missing
  BY DEF FormAssumption
<1>6. enforced \in Values \cup {Missing} /\ behind \in [Editors -> BOOLEAN]
  BY DEF FormInv, FormTypeOK
<1>7. ASSUME q.op = "load", behind' = [behind EXCEPT ![a] = FALSE], UNCHANGED <<group, enforced>>,
             Answer(a, [outcome |-> "values", values |-> group, live |-> FALSE])
      PROVE  FormInv'
  <2> DEFINE answer == [outcome |-> "values", values |-> group, live |-> FALSE]
  <2>1. answer \in Answers /\ answer.outcome = "values" /\ answer.values = group
    BY <1>3 DEF Answers
  <2>2. Answer(a, answer)
    BY <1>7
  <2> HIDE DEF answer
  <2>3. \A r \in Asked : r.op = q.op /\ r.answer = answer => AnswerFits(r) /\ Told(r)
    BY <1>5, <1>7, <2>1 DEF AnswerFits, Told
  <2>4. /\ behind' \in [Editors -> BOOLEAN]
        /\ \A b \in Editors \ {a} : behind'[b] = behind[b]
    BY <1>6, <1>7
  <2>5. group' = group /\ enforced' = enforced
    BY <1>7
  <2>6. \A r \in Asked :
            (r.op = q.op /\ r.patch = q.patch /\ r.answer = answer) =>
                /\ AnswerFits(r) /\ (Told(r) /\ ~behind'[a] => answer.values = group')
                /\ ~Told(r) => behind'[a] = behind[a] /\ group' = group
    BY <2>1, <2>3, <2>5
  <2>7. \A b \in Editors \ {a} : (behind'[b] = behind[b] /\ group' = group) \/ behind'[b] = TRUE
    BY <2>4, <2>5
  <2>8. group' \in Values /\ enforced' \in Values \cup {Missing}
    BY <1>3, <1>6, <2>5
  <2> QED
    BY <1>1, <2>1, <2>2, <2>4, <2>6, <2>7, <2>8, AnswerDoes
<1>8. ASSUME Refuse(a) PROVE FormInv'
  <2> DEFINE answer == [outcome |-> "refused", values |-> group, live |-> FALSE]
  <2>1. answer \in Answers /\ answer.outcome = "refused"
    BY <1>3 DEF Answers
  <2>2. Answer(a, answer) /\ UNCHANGED <<group, enforced, behind>>
    BY <1>8 DEF Refuse
  <2> HIDE DEF answer
  <2>3. \A r \in Asked : r.answer = answer => AnswerFits(r) /\ ~Told(r)
    BY <2>1 DEF AnswerFits, Told
  <2> QED
    BY <1>1, <1>3, <1>6, <2>1, <2>2, <2>3, AnswerDoes
<1>9. ASSUME q.op = "save", Store(a, merged) PROVE FormInv'
  BY <1>1, <1>4, <1>9, StoreDoes
<1>10. ASSUME q.op = "reset", Store(a, Defaults) PROVE FormInv'
  BY <1>1, <1>10, DefaultValues, StoreDoes
<1>11. ASSUME q.op = "preview", UNCHANGED <<group, enforced, behind>>,
              Answer(a, [outcome |-> "preview", preview |-> [from |-> group, to |-> merged]])
       PROVE  FormInv'
  <2> DEFINE preview == [from |-> group, to |-> merged]
             answer == [outcome |-> "preview", preview |-> preview]
  <2>1. preview \in Previews /\ preview.from = group /\ preview.to = merged
    BY <1>3, <1>4 DEF Previews
  <2> HIDE DEF preview
  <2>2. answer \in Answers /\ answer.outcome = "preview" /\ answer.preview = preview
    BY <2>1 DEF Answers
  <2>3. Answer(a, answer)
    BY <1>11 DEF preview
  <2> HIDE DEF answer
  <2>4. \A r \in Asked : r.op = q.op /\ r.patch = q.patch /\ r.answer = answer =>
            AnswerFits(r) /\ ~Told(r)
    BY <1>11, <2>1, <2>2 DEF AnswerFits, Told
  <2>5. group' = group /\ enforced' = enforced /\ behind' = behind
    BY <1>11
  <2>6. \A r \in Asked :
            (r.op = q.op /\ r.patch = q.patch /\ r.answer = answer) =>
                /\ AnswerFits(r) /\ (Told(r) /\ ~behind'[a] => answer.values = group')
                /\ ~Told(r) => behind'[a] = behind[a] /\ group' = group
    BY <2>4, <2>5
  <2> QED
    BY <1>1, <1>3, <1>6, <2>2, <2>3, <2>5, <2>6, AnswerDoes
<1> QED
  BY <1>7, <1>8, <1>9, <1>10, <1>11 DEF Serve

LEMMA ReceiveKeepsFormInv ==
    ASSUME FormAssumption, FormInv, NEW a \in Editors, Receive(a) PROVE FormInv'
<1> DEFINE r == requests[a]
<1>1. /\ r # Missing /\ r.answer # Missing /\ requests' = [requests EXCEPT ![a] = Missing]
      /\ UNCHANGED <<group, enforced, sent, behind>>
  BY DEF Receive, Free
<1>2. r \in Asked /\ r.answer \in Answers
  BY <1>1, FormTypes DEF FormInv, Asked
<1>3. Good(forms[a], r, edited[a], behind[a], group)
  BY DEF FormInv, FormsGood
<1>4. forms[a] \in FormRec
  BY FormTypes DEF FormInv
<1>5. \A b \in Editors : requests'[b] = IF b = a THEN Missing ELSE requests[b]
  BY <1>1, FormTypes DEF FormInv
<1>6. requests' \in [Editors -> Asked \cup {Missing}]
  BY <1>1, OneRequest DEF FormInv
<1>7. CASE r.answer.outcome \in {"values", "applied", "saved"}
  <2>1. Fill(a, r)
    BY <1>7 DEF Receive
  <2>2. r.answer.values \in Values
    BY <1>2, <1>7 DEF Answers
  <2>3. ~behind[a] => r.answer.values = group
    BY <1>1, <1>3, <1>7 DEF Good, Told
  <2> QED
    BY <1>1, <2>1, <2>2, <2>3, RedactedValues, FormCleared DEF Fill
<1>8. CASE r.answer.outcome = "preview"
  <2>1. /\ forms' = [forms EXCEPT ![a].preview = r.answer.preview] /\ UNCHANGED edited
    BY <1>8 DEF Receive
  <2>2. r.answer.preview \in Previews
    BY <1>2, <1>8 DEF Answers
  <2>3. r.answer.preview.to = Over(forms[a].draft, r.answer.preview.from)
    BY <1>1, <1>3, <1>8 DEF Good, RequestFits, AnswerFits
  <2> DEFINE new == [forms[a] EXCEPT !.preview = r.answer.preview]
  <2>4. /\ new \in FormRec /\ new.values = forms[a].values /\ new.draft = forms[a].draft
        /\ new.preview = r.answer.preview
    BY <1>4, <2>2 DEF FormRec
  <2>5. forms' = [forms EXCEPT ![a] = new]
    BY <2>1
  <2> HIDE DEF new
  <2>6. FormTypeOK'
    <3>1. forms' \in [Editors -> FormRec]
      BY <2>4, <2>5, OneForm DEF FormInv
    <3> QED
      BY <1>1, <1>6, <2>1, <3>1 DEF FormInv, FormTypeOK, FormRec
  <2>7. \A b \in Editors : forms'[b] = IF b = a THEN new ELSE forms[b]
    BY <2>5, FormTypes DEF FormInv
  <2>8. ~Told(r)
    BY <1>8 DEF Told
  <2>9. Good(new, Missing, edited[a], behind[a], group)
    BY <1>3, <2>3, <2>4, <2>8 DEF Good, Told
  <2>10. FormsGood'
    BY <1>1, <1>5, <2>1, <2>7, <2>9, OnlyOneForm
  <2> QED
    BY <2>6, <2>10 DEF FormInv
<1>9. CASE r.answer.outcome \notin {"values", "applied", "saved", "preview"}
  <2>1. UNCHANGED <<forms, edited>>
    BY <1>9 DEF Receive
  <2>2. FormTypeOK'
    BY <1>1, <1>6, <2>1 DEF FormInv, FormTypeOK
  <2>3. Good(forms[a], Missing, edited[a], behind[a], group)
    BY <1>3, <1>9 DEF Good, Told
  <2>4. FormsGood'
    BY <1>1, <1>5, <2>1, <2>3, OnlyOneForm
  <2> QED
    BY <2>2, <2>4 DEF FormInv
<1> QED
  BY <1>7, <1>8, <1>9

LEMMA LoseKeepsFormInv ==
    ASSUME FormAssumption, FormInv, NEW a \in Editors, Lose(a) PROVE FormInv'
<1>1. /\ requests' = [requests EXCEPT ![a] = Missing]
      /\ UNCHANGED <<group, enforced, forms, sent, edited>>
      /\ behind' = [behind EXCEPT ![a] = @ \/ requests[a].answer # Missing]
  BY DEF Lose
<1>2. behind[a] \in BOOLEAN
  BY FormTypes DEF FormInv
<1>3. (behind[a] \/ requests[a].answer # Missing) \in BOOLEAN
  OBVIOUS
<1>4. FormTypeOK'
  <2>1. requests' \in [Editors -> Asked \cup {Missing}]
    BY <1>1, OneRequest DEF FormInv
  <2>2. behind' \in [Editors -> BOOLEAN]
    BY <1>1, <1>3 DEF FormInv, FormTypeOK
  <2> QED
    BY <1>1, <2>1, <2>2 DEF FormInv, FormTypeOK
<1>5. /\ \A b \in Editors : requests'[b] = IF b = a THEN Missing ELSE requests[b]
      /\ \A b \in Editors \ {a} : behind'[b] = behind[b]
      /\ behind'[a] = (behind[a] \/ requests[a].answer # Missing)
  BY <1>1, FormTypes DEF FormInv
<1>6. Good(forms[a], requests[a], edited[a], behind[a], group)
  BY DEF FormInv, FormsGood
<1>7. ~behind'[a] => ~behind[a] /\ ~Told(requests[a])
  BY <1>5 DEF Told
<1>8. Good(forms[a], Missing, edited[a], behind'[a], group)
  BY <1>6, <1>7 DEF Good, Told
<1>9. FormsGood'
  BY <1>1, <1>5, <1>8, OnlyOneForm
<1> QED
  BY <1>4, <1>9 DEF FormInv

LEMMA FormNextKeepsInv == FormAssumption /\ FormInv /\ [FormNext]_formVars => FormInv'
<1> SUFFICES ASSUME FormAssumption, FormInv, [FormNext]_formVars PROVE FormInv'
  OBVIOUS
<1>1. CASE UNCHANGED formVars
  <2>1. FormTypeOK'
    BY <1>1 DEF FormInv, FormTypeOK, formVars
  <2>2. FormsGood'
    BY <1>1 DEF FormInv, FormsGood, formVars
  <2> QED
    BY <2>1, <2>2 DEF FormInv
<1>2. CASE Caddy
  <2>1. UNCHANGED <<group, forms, requests, sent, edited, behind>>
        /\ enforced' \in {group, Missing}
    BY <1>2 DEF Caddy
  <2>2. FormTypeOK'
    BY <2>1 DEF FormInv, FormTypeOK
  <2>3. FormsGood'
    BY <2>1 DEF FormInv, FormsGood
  <2> QED
    BY <2>2, <2>3 DEF FormInv
<1>3. ASSUME NEW a \in Editors,
             \/ Open(a) \/ Edit(a) \/ Discard(a) \/ Serve(a) \/ Receive(a) \/ Lose(a)
             \/ \E op \in {"save", "reset", "preview"} : Submit(a, op)
      PROVE  FormInv'
  BY <1>3, OpenKeepsFormInv, EditKeepsFormInv, DiscardKeepsFormInv, ServeKeepsFormInv,
     ReceiveKeepsFormInv, LoseKeepsFormInv, SubmitKeepsFormInv
<1> QED
  BY <1>1, <1>2, <1>3 DEF FormNext

LEMMA FormInvariant == ASSUME FormAssumption PROVE FormSpec => []FormInv
<1>1. FormInit => FormInv
  BY FormInvInit
<1>2. FormInv /\ [FormNext]_formVars => FormInv'
  BY FormNextKeepsInv
<1> QED
  BY <1>1, <1>2, PTL DEF FormSpec

LEMMA FormInvScreen == FormAssumption /\ FormInv => ScreenIsTrue
<1> SUFFICES ASSUME FormInv, NEW a \in Editors
             PROVE  /\ forms[a].preview # Missing =>
                          forms[a].preview.to = Over(forms[a].draft, forms[a].preview.from)
                    /\ Loaded(a) /\ Free(a) /\ ~Dirty(a) /\ ~behind[a] =>
                          forms[a].values = Redacted(group)
  BY DEF ScreenIsTrue
<1> QED
  BY DEF FormInv, FormsGood, Good, Told, Loaded, Free

(***************************************************************************)
(* A settings page shows what is stored, and a preview the difference its  *)
(* draft makes, whoever saves at the same time (SettingsForm.jsx and the   *)
(* GroupsPage of pageKit.jsx).                                             *)
(***************************************************************************)
THEOREM TheScreenIsTrue ==
    ASSUME FormAssumption
    PROVE  FormSpec => [](FormTypeOK /\ ScreenIsTrue)
<1>1. FormInv => FormTypeOK /\ ScreenIsTrue
  BY FormInvScreen DEF FormInv
<1> QED
  BY <1>1, FormInvariant, PTL

-----------------------------------------------------------------------------
(* The steps of the settings pages.                                        *)

\* A save that changes a field was of an edit of it, or a reset.
LEMMA StepStoresEdits ==
    ASSUME FormAssumption, FormInv, NEW a \in Editors, NEW f \in DOMAIN group,
           Serve(a), group'[f] # group[f]
    PROVE  f \in edited[a] \/ ResetBy(a)
<1> DEFINE q == requests[a]
           merged == Over(q.patch, group)
<1>1. q # Missing /\ q \in Asked
  BY FormTypes DEF FormInv, Serve, Free
<1>2. q.patch \in Drafts /\ group \in Values /\ f \in Fields
  BY <1>1, FormTypes, ValuesAre DEF Asked, FormInv
<1>3. f \notin DOMAIN q.patch => merged[f] = group[f]
  BY <1>2, OverHas
<1>4. Good(forms[a], q, edited[a], behind[a], group)
  BY DEF FormInv, FormsGood
<1>5. CASE q.op = "reset"
  BY <1>1, <1>5 DEF ResetBy, Free
<1>6. CASE q.op # "reset"
  <2>1. q.op = "save" /\ group' = merged
    BY <1>6 DEF Serve, Refuse, Store
  <2>2. q.patch = forms[a].draft /\ DOMAIN forms[a].draft \subseteq edited[a]
    BY <1>1, <1>4, <2>1 DEF Good, RequestFits
  <2>3. f \in DOMAIN q.patch
    BY <1>3, <2>1
  <2> QED
    BY <2>2, <2>3
<1> QED
  BY <1>5, <1>6

\* An edit that leaves the screen is stored.
LEMMA StepKeepsEdits ==
    ASSUME FormAssumption, FormInv, [FormNext]_formVars, NEW a \in Editors,
           NEW f \in DOMAIN forms[a].draft \ DOMAIN forms'[a].draft
    PROVE  \/ Free(a) \/ ResetBy(a)
           \/ /\ requests[a].answer.outcome \in {"applied", "saved"}
              /\ requests[a].answer.values[f] = forms[a].draft[f]
<1> SUFFICES ASSUME requests[a] # Missing, requests[a].op # "reset"
             PROVE  /\ requests[a].answer.outcome \in {"applied", "saved"}
                    /\ requests[a].answer.values[f] = forms[a].draft[f]
  BY DEF Free, ResetBy
<1> DEFINE r == requests[a]
<1>1. forms'[a] # forms[a]
  OBVIOUS
<1>2. forms = [b \in Editors |-> forms[b]]
  BY FormTypes DEF FormInv
<1>3. Receive(a)
  <2>1. ~UNCHANGED forms
    BY <1>1
  <2>2. ~UNCHANGED formVars /\ ~Caddy
    BY <2>1 DEF formVars, Caddy
  <2>3. \A b \in Editors : ~Open(b) /\ ~Serve(b) /\ ~Lose(b) /\ \A op : ~Submit(b, op)
    BY <2>1 DEF Open, Serve, Lose, Submit
  <2>4. ~Edit(a) /\ ~Discard(a)
    BY DEF Edit, Discard, Free
  <2>5. ASSUME NEW b \in Editors, Edit(b) \/ Discard(b) \/ Receive(b) PROVE b = a
    <3> SUFFICES ASSUME b # a PROVE FALSE
      OBVIOUS
    <3>1. CASE Edit(b)
      BY <1>1, <1>2, <3>1 DEF Edit, SetField
    <3>2. CASE Discard(b)
      BY <1>1, <1>2, <3>2 DEF Discard
    <3>3. CASE Receive(b)
      BY <1>1, <1>2, <3>3 DEF Receive, Fill
    <3> QED
      BY <2>5, <3>1, <3>2, <3>3
  <2> QED
    BY <2>2, <2>3, <2>4, <2>5 DEF FormNext
<1>4. r.answer # Missing /\ r \in Asked /\ r.answer \in Answers
  BY <1>3, FormTypes DEF Receive, Free, FormInv, Asked
<1>5. Good(forms[a], r, edited[a], behind[a], group)
  BY DEF FormInv, FormsGood
<1>6. AnswerFits(r) /\ RequestFits(forms[a], r)
  BY <1>4, <1>5 DEF Good
<1>7. r.answer.outcome \notin {"preview", "refused"}
  <2>1. CASE r.answer.outcome = "preview"
    <3>1. forms' = [forms EXCEPT ![a].preview = r.answer.preview]
      BY <1>3, <2>1 DEF Receive
    <3>2. forms'[a] = [forms[a] EXCEPT !.preview = r.answer.preview]
      BY <1>2, <3>1
    <3>3. forms[a] \in FormRec
      BY FormTypes DEF FormInv
    <3>4. forms'[a].draft = forms[a].draft
      BY <3>2, <3>3 DEF FormRec
    <3> QED
      BY <3>4
  <2>2. CASE r.answer.outcome = "refused"
    BY <1>1, <1>3, <2>2 DEF Receive
  <2> QED
    BY <2>1, <2>2
<1>8. r.answer.outcome # "values"
  <2> SUFFICES ASSUME r.answer.outcome = "values" PROVE FALSE
    OBVIOUS
  <2>1. r.op = "load"
    BY <1>6 DEF AnswerFits
  <2>2. forms[a].values = Missing
    BY <1>6, <2>1 DEF RequestFits
  <2>3. DOMAIN forms[a].draft = {}
    BY <1>5, <2>2 DEF Good
  <2> QED
    BY <2>3
<1>9. r.answer.outcome \in {"applied", "saved"}
  BY <1>4, <1>7, <1>8 DEF Answers
<1>10. r.op = "save"
  BY <1>6, <1>9 DEF AnswerFits
<1>11. r.patch = forms[a].draft
  BY <1>6, <1>10 DEF RequestFits
<1>12. \A x \in DOMAIN r.patch : r.answer.values[x] = r.patch[x]
  BY <1>6, <1>9, <1>10 DEF AnswerFits
<1> QED
  BY <1>9, <1>11, <1>12

\* "Applied" is the answer to a save that Caddy has loaded.
LEMMA StepSaysWhatIsLive ==
    ASSUME FormAssumption, FormInv, NEW a \in Editors \ OwnToast,
           Receive(a), SaysApplied(a, requests[a])
    PROVE  requests[a].answer.live \/ ResetBy(a)
<1>1. requests[a] # Missing /\ requests[a].answer # Missing
  BY DEF Receive, Free
<1>2. Good(forms[a], requests[a], edited[a], behind[a], group)
  BY DEF FormInv, FormsGood
<1>3. CASE requests[a].op = "reset"
  BY <1>1, <1>3 DEF ResetBy, Free
<1>4. CASE requests[a].op # "reset"
  <2>1. requests[a].answer.outcome = "applied"
    BY <1>4 DEF SaysApplied
  <2>2. AnswerFits(requests[a])
    BY <1>1, <1>2 DEF Good
  <2>3. requests[a].answer.live = TRUE
    BY <2>1, <2>2 DEF AnswerFits
  <2> QED
    BY <2>3
<1> QED
  BY <1>3, <1>4

(***************************************************************************)
(* A save stores the fields that were edited and no others, what is edited *)
(* stays on the screen until it is stored, and "Applied" is said of what   *)
(* Caddy has loaded (save(), reset() and onSaved() with routes/settings.js)*)
(***************************************************************************)
THEOREM FormsKeepTheirWord ==
    ASSUME FormAssumption
    PROVE  FormSpec => FormsHold
<1>1. FormInv /\ [FormNext]_formVars =>
        [\A a \in Editors : \A f \in DOMAIN group :
            Serve(a) /\ group'[f] # group[f] => f \in edited[a] \/ ResetBy(a)]_formVars
  BY StepStoresEdits
<1>2. FormInv /\ [FormNext]_formVars =>
        [\A a \in Editors : \A f \in DOMAIN forms[a].draft \ DOMAIN forms'[a].draft :
            \/ Free(a) \/ ResetBy(a)
            \/ /\ requests[a].answer.outcome \in {"applied", "saved"}
               /\ requests[a].answer.values[f] = forms[a].draft[f]]_formVars
  BY StepKeepsEdits
<1>3. FormInv /\ [FormNext]_formVars =>
        [\A a \in Editors \ OwnToast :
            Receive(a) /\ SaysApplied(a, requests[a])
                => requests[a].answer.live \/ ResetBy(a)]_formVars
  BY StepSaysWhatIsLive
<1>4. FormSpec => OnlyEditsAreStored
  BY <1>1, FormInvariant, PTL DEF FormSpec, OnlyEditsAreStored
<1>5. FormSpec => EditsStay
  BY <1>2, FormInvariant, PTL DEF FormSpec, EditsStay
<1>6. FormSpec => AppliedIsLive
  BY <1>3, FormInvariant, PTL DEF FormSpec, AppliedIsLive
<1> QED
  BY <1>4, <1>5, <1>6 DEF FormsHold

=============================================================================
