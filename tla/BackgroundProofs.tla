--------------------------- MODULE BackgroundProofs ---------------------------
(***************************************************************************)
(* Proofs about what processes do beside each other, for every number of   *)
(* them and every bound: the configuration lock (its inductive invariant   *)
(* LockInv, the safety properties that follow from it and the              *)
(* implementation of LockService), and of the modules MCServices checks on *)
(* small instances the settings, the SIEM stream, the alerts, the mirrors  *)
(* of the bans, the reader of the audit log and the challenge gate.        *)
(***************************************************************************)
EXTENDS ConfigLock, Settings, Siem, Alerts, Mirrors, Reader, Challenge, FiniteSetTheorems,
        WellFoundedInduction, TLAPS

-----------------------------------------------------------------------------
(* The configuration lock.                                                 *)

(***************************************************************************)
(* What makes exclusion inductive while nothing has degraded:              *)
(*   - whoever relies on a file relies on the one at the path, so at most  *)
(*     one process does;                                                   *)
(*   - a file somebody has decided to break is not in use, and at most one *)
(*     process has decided.                                                *)
(***************************************************************************)
UsersOwnTheFile ==
    \A p \in Procs : pc[p] \in Using => lockFile # NoFile /\ lockFile.creator = p

BreakersAreSafe ==
    \A p \in Procs : pc[p] = "break" =>
        /\ lockFile # NoFile /\ ~InUse(lockFile)
        /\ \A q \in Procs : pc[q] = "break" => q = p

DepthMatches == \A p \in Procs : depth[p] > 0 <=> pc[p] = "inside"

LockInv ==
    /\ TypeOK
    /\ DepthMatches
    /\ TokenNamesUserOrDead
    /\ ~degraded => UsersOwnTheFile /\ BreakersAreSafe

-----------------------------------------------------------------------------
\* The value for "no file" has none of a file's parts.
LEMMA NoFileIsNoLockFile == NoFile \notin LockFiles
BY NoFileAssumption DEF LockFiles

\* A fresh file, a file given its token and a file grown old are lock files.
LEMMA FileTypes ==
    /\ \A p \in Procs : NewFile(p) \in LockFiles
    /\ \A f \in LockFiles : /\ [f EXCEPT !.token = TRUE] \in LockFiles
                             /\ [f EXCEPT !.stale = TRUE] \in LockFiles
BY DEF LockFiles, NewFile

\* The initial state satisfies the invariant.
LEMMA InitLockInv == Init => LockInv
<1> SUFFICES ASSUME Init PROVE LockInv
    OBVIOUS
<1>1. TypeOK
  <2>1. pc \in [Procs -> Labels]
    BY DEF Init, Labels
  <2>2. depth \in [Procs -> 0..MaxDepth]
    BY MaxDepthAssumption DEF Init
  <2> QED
    BY <2>1, <2>2 DEF Init, TypeOK
<1>2. DepthMatches
    BY DEF Init, DepthMatches
<1>3. TokenNamesUserOrDead /\ UsersOwnTheFile /\ BreakersAreSafe
    BY DEF Init, TokenNamesUserOrDead, UsersOwnTheFile, BreakersAreSafe, Using
<1> QED
    BY <1>1, <1>2, <1>3 DEF LockInv

-----------------------------------------------------------------------------
\* Every step keeps the types and the match between depth and label.
LEMMA TypeStep ==
    ASSUME TypeOK, DepthMatches, [Next]_vars
    PROVE  TypeOK' /\ DepthMatches'
<1> USE FileTypes, MaxDepthAssumption DEF TypeOK, DepthMatches, Labels
<1>1. ASSUME NEW p \in Procs, Want(p) \/ Retry(p) \/ GiveUp(p)
      PROVE  TypeOK' /\ DepthMatches'
    BY <1>1 DEF Want, Retry, GiveUp, Goto
<1>2. ASSUME NEW p \in Procs, Open(p)
      PROVE  TypeOK' /\ DepthMatches'
    BY <1>2 DEF Open, Goto
<1>3. ASSUME NEW p \in Procs, WriteToken(p)
      PROVE  TypeOK' /\ DepthMatches'
    BY <1>3 DEF WriteToken, Goto
<1>4. ASSUME NEW p \in Procs, Confirm(p)
      PROVE  TypeOK' /\ DepthMatches'
    BY <1>4 DEF Confirm, Enter, Goto
<1>5. ASSUME NEW p \in Procs, Inspect(p)
      PROVE  TypeOK' /\ DepthMatches'
    BY <1>5 DEF Inspect, Decide, Goto
<1>6. ASSUME NEW p \in Procs, Stat(p)
      PROVE  TypeOK' /\ DepthMatches'
    BY <1>6 DEF Stat, Decide, Goto
<1>7. ASSUME NEW p \in Procs, Break(p)
      PROVE  TypeOK' /\ DepthMatches'
    BY <1>7 DEF Break, Goto
<1>8. ASSUME NEW p \in Procs, Reopen(p)
      PROVE  TypeOK' /\ DepthMatches'
    BY <1>8 DEF Reopen, Enter, Goto
<1>9. ASSUME NEW p \in Procs, Nest(p)
      PROVE  TypeOK' /\ DepthMatches'
    BY <1>9 DEF Nest
<1>10. ASSUME NEW p \in Procs, Return(p)
       PROVE  TypeOK' /\ DepthMatches'
    BY <1>10 DEF Return, Goto
<1>11. ASSUME NEW p \in Procs, ReadBeforeUnlink(p)
       PROVE  TypeOK' /\ DepthMatches'
    BY <1>11 DEF ReadBeforeUnlink, Goto
<1>12. ASSUME NEW p \in Procs, UnlinkOnRelease(p)
       PROVE  TypeOK' /\ DepthMatches'
    BY <1>12 DEF UnlinkOnRelease, Goto
<1>13. ASSUME NEW p \in Procs, Crash(p)
       PROVE  TypeOK' /\ DepthMatches'
    BY <1>13 DEF Crash, Goto
<1>14. CASE Expire
    BY <1>14 DEF Expire
<1>15. CASE UNCHANGED vars
    BY <1>15 DEF vars
<1> QED
    BY <1>1, <1>2, <1>3, <1>4, <1>5, <1>6, <1>7, <1>8, <1>9, <1>10, <1>11,
       <1>12, <1>13, <1>14, <1>15 DEF Next, Proceed

-----------------------------------------------------------------------------
\* A token on disk keeps naming a user or a dead process, degraded or not.
LEMMA TokenStep ==
    ASSUME TypeOK, TokenNamesUserOrDead, [Next]_vars
    PROVE  TokenNamesUserOrDead'
<1> USE NoFileIsNoLockFile
    DEF TypeOK, TokenNamesUserOrDead, InUse, Alive, Using, Labels, LockFiles
<1>1. ASSUME NEW p \in Procs,
             Want(p) \/ Retry(p) \/ GiveUp(p) \/ Nest(p)
      PROVE  TokenNamesUserOrDead'
    BY <1>1 DEF Want, Retry, GiveUp, Nest, Goto
<1>2. ASSUME NEW p \in Procs, Open(p)
      PROVE  TokenNamesUserOrDead'
    BY <1>2 DEF Open, Goto, NewFile
<1>3. ASSUME NEW p \in Procs, WriteToken(p)
      PROVE  TokenNamesUserOrDead'
    BY <1>3 DEF WriteToken, Goto
<1>4. ASSUME NEW p \in Procs, Confirm(p)
      PROVE  TokenNamesUserOrDead'
    BY <1>4 DEF Confirm, Enter, OwnToken, Goto
<1>5. ASSUME NEW p \in Procs, Inspect(p) \/ Stat(p)
      PROVE  TokenNamesUserOrDead'
  <2>1. /\ lockFile' = lockFile
        /\ pc' \in [Procs -> Labels]
        /\ pc'[p] \in {"stat", "break", "wait"}
        /\ pc[p] \in {"inspect", "stat"}
        /\ \A q \in Procs \ {p} : pc'[q] = pc[q]
    BY <1>5 DEF Inspect, Stat, Decide, Goto
  <2> QED
    BY <2>1
<1>6. ASSUME NEW p \in Procs, Break(p) \/ UnlinkOnRelease(p)
      PROVE  TokenNamesUserOrDead'
    BY <1>6 DEF Break, UnlinkOnRelease
<1>7. ASSUME NEW p \in Procs, Reopen(p)
      PROVE  TokenNamesUserOrDead'
    BY <1>7 DEF Reopen, Enter, Goto, NewFile
<1>8. ASSUME NEW p \in Procs, Return(p)
      PROVE  TokenNamesUserOrDead'
    BY <1>8 DEF Return, Goto
<1>9. ASSUME NEW p \in Procs, ReadBeforeUnlink(p)
      PROVE  TokenNamesUserOrDead'
    BY <1>9 DEF ReadBeforeUnlink, OwnToken, Goto
<1>10. ASSUME NEW p \in Procs, Crash(p)
       PROVE  TokenNamesUserOrDead'
    BY <1>10 DEF Crash, Goto
<1>11. CASE Expire
    BY <1>11 DEF Expire
<1>12. CASE UNCHANGED vars
    BY <1>12 DEF vars
<1> QED
    BY <1>1, <1>2, <1>3, <1>4, <1>5, <1>6, <1>7, <1>8, <1>9, <1>10, <1>11,
       <1>12 DEF Next, Proceed

-----------------------------------------------------------------------------
\* Degradation is for good.
LEMMA DegradedStaysDegraded ==
    ASSUME TypeOK, [Next]_vars, degraded
    PROVE  degraded'
BY DEF TypeOK, Next, Proceed, vars, Want, Open, WriteToken, Confirm, Inspect,
       Stat, Decide, Break, Reopen, Retry, GiveUp, Nest, Return,
       ReadBeforeUnlink, UnlinkOnRelease, Crash, Expire

(***************************************************************************)
(* The file a process decides to break is not in use, unless the decision  *)
(* itself degrades the service: the file's creator is dead or, the file    *)
(* being stale, relied on by nobody.                                       *)
(***************************************************************************)
LEMMA SafeDecision ==
    ASSUME TypeOK, NEW p \in Procs, Inspect(p) \/ Stat(p), ~degraded',
           pc'[p] = "break"
    PROVE  /\ lockFile # NoFile /\ ~InUse(lockFile)
           /\ \A q \in Procs \ {p} : pc[q] # "break"
BY DEF TypeOK, Inspect, Stat, Decide, Goto, StaleToken, StaleMtime, Alive, InUse,
       Using, Labels

\* Creating the file where there was none makes its creator the only user.
LEMMA NewFileIsExclusive ==
    ASSUME TypeOK, UsersOwnTheFile, BreakersAreSafe, lockFile = NoFile,
           NEW p \in Procs, lockFile' = NewFile(p),
           NEW label \in Using, pc' = [pc EXCEPT ![p] = label]
    PROVE  UsersOwnTheFile' /\ BreakersAreSafe'
<1>1. NewFile(p) # NoFile /\ NewFile(p).creator = p
    BY FileTypes, NoFileIsNoLockFile DEF NewFile
<1>2. \A q \in Procs : pc[q] \notin Using /\ pc[q] # "break"
    BY DEF UsersOwnTheFile, BreakersAreSafe
<1>3. \A q \in Procs \ {p} : pc'[q] = pc[q]
    BY DEF TypeOK
<1>4. pc'[p] = label /\ label # "break"
    BY DEF TypeOK, Using
<1>5. UsersOwnTheFile'
    BY <1>1, <1>2, <1>3 DEF UsersOwnTheFile
<1>6. BreakersAreSafe'
    BY <1>2, <1>3, <1>4 DEF BreakersAreSafe
<1> QED
    BY <1>5, <1>6

\* The two parts of exclusion survive every step that does not degrade.
LEMMA ExclusionStep ==
    ASSUME TypeOK, [Next]_vars, ~degraded', UsersOwnTheFile, BreakersAreSafe
    PROVE  UsersOwnTheFile' /\ BreakersAreSafe'
<1> USE NoFileIsNoLockFile
    DEF TypeOK, UsersOwnTheFile, BreakersAreSafe, InUse, Using, Labels, LockFiles
<1>1. ASSUME NEW p \in Procs,
             Want(p) \/ Retry(p) \/ GiveUp(p) \/ Nest(p)
      PROVE  UsersOwnTheFile' /\ BreakersAreSafe'
    BY <1>1 DEF Want, Retry, GiveUp, Nest, Goto
<1>2. ASSUME NEW p \in Procs, Open(p)
      PROVE  UsersOwnTheFile' /\ BreakersAreSafe'
  <2>1. CASE lockFile = NoFile
    BY <1>2, <2>1, NewFileIsExclusive DEF Open, Goto
  <2>2. CASE lockFile # NoFile
    BY <1>2, <2>2 DEF Open, Goto
  <2> QED
    BY <2>1, <2>2
<1>3. ASSUME NEW p \in Procs, WriteToken(p)
      PROVE  UsersOwnTheFile' /\ BreakersAreSafe'
  <2>1. UsersOwnTheFile'
    BY <1>3 DEF WriteToken, Goto
  <2>2. BreakersAreSafe'
    BY <1>3 DEF WriteToken, Goto
  <2> QED
    BY <2>1, <2>2
<1>4. ASSUME NEW p \in Procs, Confirm(p)
      PROVE  UsersOwnTheFile' /\ BreakersAreSafe'
    BY <1>4 DEF Confirm, Enter, OwnToken, Goto
<1>5. ASSUME NEW p \in Procs, Inspect(p) \/ Stat(p)
      PROVE  UsersOwnTheFile' /\ BreakersAreSafe'
  <2>1. /\ lockFile' = lockFile
        /\ pc'[p] \in {"stat", "break", "wait"}
        /\ pc[p] \in {"inspect", "stat"}
        /\ \A q \in Procs \ {p} : pc'[q] = pc[q]
    BY <1>5 DEF Inspect, Stat, Decide, Goto
  <2>2. UsersOwnTheFile'
    BY <2>1
  <2>3. CASE pc'[p] = "break"
    BY <1>5, <2>1, <2>3, SafeDecision
  <2>4. CASE pc'[p] # "break"
    BY <2>1, <2>4
  <2> QED
    BY <2>2, <2>3, <2>4
<1>6. ASSUME NEW p \in Procs, Break(p) \/ UnlinkOnRelease(p)
      PROVE  UsersOwnTheFile' /\ BreakersAreSafe'
    BY <1>6 DEF Break, UnlinkOnRelease, Goto
<1>7. ASSUME NEW p \in Procs, Reopen(p)
      PROVE  UsersOwnTheFile' /\ BreakersAreSafe'
  <2>1. CASE lockFile = NoFile
    BY <1>7, <2>1, NewFileIsExclusive DEF Reopen, Enter, Goto
  <2>2. CASE lockFile # NoFile
    BY <1>7, <2>2 DEF Reopen, Goto
  <2> QED
    BY <2>1, <2>2
<1>8. ASSUME NEW p \in Procs, Return(p)
      PROVE  UsersOwnTheFile' /\ BreakersAreSafe'
    BY <1>8 DEF Return, Goto
<1>9. ASSUME NEW p \in Procs, ReadBeforeUnlink(p)
      PROVE  UsersOwnTheFile' /\ BreakersAreSafe'
    BY <1>9 DEF ReadBeforeUnlink, Goto
<1>10. ASSUME NEW p \in Procs, Crash(p)
       PROVE  UsersOwnTheFile' /\ BreakersAreSafe'
    BY <1>10 DEF Crash, Goto
<1>11. CASE Expire
    BY <1>11 DEF Expire
<1>12. CASE UNCHANGED vars
    BY <1>12 DEF vars
<1> QED
    BY <1>1, <1>2, <1>3, <1>4, <1>5, <1>6, <1>7, <1>8, <1>9, <1>10, <1>11,
       <1>12 DEF Next, Proceed

\* The invariant is inductive.
LEMMA NextLockInv == LockInv /\ [Next]_vars => LockInv'
<1> SUFFICES ASSUME LockInv, [Next]_vars PROVE LockInv'
    OBVIOUS
<1>1. TypeOK' /\ DepthMatches' /\ TokenNamesUserOrDead'
    BY TypeStep, TokenStep DEF LockInv
<1>2. ~degraded' => UsersOwnTheFile' /\ BreakersAreSafe'
    BY DegradedStaysDegraded, ExclusionStep DEF LockInv
<1> QED
    BY <1>1, <1>2 DEF LockInv

\* LockInv holds in every reachable state.
THEOREM LockInvariant == Spec => []LockInv
BY InitLockInv, NextLockInv, PTL DEF Spec

\* The variables of configLock.js keep their types.
THEOREM TypeCorrect == Spec => []TypeOK
<1>1. LockInv => TypeOK
    BY DEF LockInv
<1> QED
    BY <1>1, LockInvariant, PTL

\* Until two breakers overlap or a holder outlives staleMs, at most one process
\* runs under withConfigLock, whoever crashed and whenever.
THEOREM Exclusion == Spec => []ExclusionUntilDegraded
<1>1. LockInv => ExclusionUntilDegraded
    BY DEF LockInv, ExclusionUntilDegraded, Inside, UsersOwnTheFile, Using
<1> QED
    BY <1>1, LockInvariant, PTL

\* release() never leaves behind the token of a process that has finished.
THEOREM TokensNameUsersOrDead == Spec => []TokenNamesUserOrDead
<1>1. LockInv => TokenNamesUserOrDead
    BY DEF LockInv
<1> QED
    BY <1>1, LockInvariant, PTL

-----------------------------------------------------------------------------
\* Nobody is inside when a process enters, or the service has degraded.
LEMMA EnterAlone ==
    ASSUME LockInv, NEW p \in Procs, Confirm(p) \/ Reopen(p), pc'[p] = "inside"
    PROVE  Inside = {} \/ degraded
<1> SUFFICES ASSUME ~degraded, NEW q \in Procs, pc[q] = "inside" PROVE FALSE
    BY DEF Inside
<1>1. lockFile # NoFile /\ lockFile.creator = q
    BY DEF LockInv, UsersOwnTheFile, Using
<1>2. CASE Confirm(p)
    BY <1>1, <1>2 DEF LockInv, TypeOK, UsersOwnTheFile, Using, Confirm
<1>3. CASE Reopen(p)
    BY <1>1, <1>3 DEF LockInv, TypeOK, Reopen, Goto
<1> QED
    BY <1>2, <1>3

\* Moving p changes the set of processes inside by p alone.
LEMMA InsideMoves ==
    ASSUME TypeOK, NEW p \in Procs, NEW label \in Labels, Goto(p, label)
    PROVE  Inside' = IF label = "inside" THEN Inside \cup {p} ELSE Inside \ {p}
BY DEF TypeOK, Goto, Inside

\* Every step of the lock file is a step of the service or leaves it alone.
LEMMA ServiceStep ==
    ASSUME LockInv, [Next]_vars
    PROVE  [Service!Next]_(Service!vars)
<1> USE DEF LockInv
<1> DEFINE quiet == Inside' = Inside /\ degraded' = degraded
           enters(p) == Service!Enter(p)
           leaves(p) == Service!Leave(p)
<1>1. ASSUME NEW p \in Procs,
             \/ Want(p) \/ Open(p) \/ WriteToken(p) \/ Break(p) \/ Retry(p)
             \/ GiveUp(p) \/ Nest(p) \/ ReadBeforeUnlink(p) \/ UnlinkOnRelease(p)
      PROVE  quiet
    BY <1>1 DEF TypeOK, Inside, Goto, Want, Open, WriteToken, Break, Retry, GiveUp,
                Nest, ReadBeforeUnlink, UnlinkOnRelease
<1>2. ASSUME NEW p \in Procs, Confirm(p) \/ Reopen(p)
      PROVE  quiet \/ enters(p)
  <2>1. CASE pc'[p] = "inside"
    <3>1. Inside' = Inside \cup {p} /\ p \notin Inside /\ degraded' = degraded
      BY <1>2, <2>1 DEF TypeOK, Inside, Confirm, Reopen, Enter, Goto
    <3> QED
      BY <1>2, <2>1, <3>1, EnterAlone DEF Service!Enter
  <2>2. CASE pc'[p] # "inside"
    BY <1>2, <2>2 DEF TypeOK, Inside, Confirm, Reopen, Enter, Goto
  <2> QED
    BY <2>1, <2>2
<1>3. ASSUME NEW p \in Procs, Inspect(p) \/ Stat(p)
      PROVE  quiet \/ Service!Degrade
  <2>1. Inside' = Inside
    BY <1>3 DEF TypeOK, Inside, Inspect, Stat, Decide, Goto
  <2>2. degraded' = degraded \/ degraded' = TRUE
    BY <1>3 DEF TypeOK, Inspect, Stat, Decide
  <2> QED
    BY <2>1, <2>2 DEF Service!Degrade
<1>4. ASSUME NEW p \in Procs, Return(p) \/ Crash(p)
      PROVE  quiet \/ leaves(p)
  <2>1. degraded' = degraded
    BY <1>4 DEF Return, Crash
  <2>2. \/ Inside' = Inside
        \/ p \in Inside /\ Inside' = Inside \ {p}
    BY <1>4 DEF TypeOK, Inside, Return, Crash, Goto
  <2> QED
    BY <2>1, <2>2 DEF Service!Leave
<1>5. CASE Expire
    BY <1>5 DEF Expire, Inside, Service!vars
<1>6. CASE UNCHANGED vars
    BY <1>6 DEF vars, Inside, Service!vars
<1> QED
    BY <1>1, <1>2, <1>3, <1>4, <1>5, <1>6
    DEF Next, Proceed, Service!Next, Service!vars

\* The lock file, with every interleaving of its system calls and every crash,
\* implements the lock service.
THEOREM Implementation == Spec => ImplementsService
<1>1. Init => Service!Init
    BY DEF Init, Inside, Service!Init
<1> QED
    BY <1>1, ServiceStep, LockInvariant, PTL
    DEF Spec, ImplementsService, Service!Spec

-----------------------------------------------------------------------------
(* Numbers: the next one, and the largest of some.                         *)

\* A number that has not reached its bound can be one more.
LEMMA OneMore ==
    \A n \in Nat : \A k \in 0..n : k # n => k + 1 \in 0..n
  OBVIOUS

\* A set of natural numbers has a smallest member.
LEMMA LeastNumber ==
    ASSUME NEW T \in SUBSET Nat, T # {} PROVE \E x \in T : \A y \in T : x <= y
<1> DEFINE R == OpToRel(<, Nat)
<1>1. IsWellFoundedOn(R, Nat)
  BY NatLessThanWellFounded
<1>2. \A x, y \in Nat : x < y => <<x, y>> \in R
  BY DEF OpToRel
<1> HIDE DEF R
<1>3. PICK x \in T : \A y \in T : <<y, x>> \notin R
  BY <1>1, WFMin
<1>4. ASSUME NEW y \in T PROVE x <= y
  <2>1. x \in Nat /\ y \in Nat
    OBVIOUS
  <2>2. ~(y < x)
    BY <1>2, <1>3, <2>1
  <2> QED
    BY <2>1, <2>2
<1> QED
  BY <1>4

\* A bounded set of natural numbers that is not empty has a largest member.
LEMMA LargestNumber ==
    ASSUME NEW n \in Nat, NEW S \in SUBSET (0..n), S # {}
    PROVE  Max(S) \in S /\ \A y \in S : y <= Max(S)
<1> DEFINE T == {n - x : x \in S}
<1>1. T \in SUBSET Nat /\ T # {}
  <2>1. \A x \in S : x \in 0..n /\ n - x \in Nat
    OBVIOUS
  <2> QED
    BY <2>1
<1>2. \E d \in T : \A e \in T : d <= e
  BY <1>1, LeastNumber
<1>3. PICK x \in S : \A y \in S : n - x <= n - y
  BY <1>2
<1>4. \A y \in S : x >= y
  BY <1>3
<1> QED
  BY <1>4 DEF Max

-----------------------------------------------------------------------------
(* Settings: a change is heard of within a second.                         *)

\* What a cache holds of a group is not what the row holds.
Stale(p, g) == cache[p][g] \notin {stored[g], NotCached}

\* A cache that is true was so just now.  One that is not, of a process that will
\* hear of it, is dropped at the next look, and the last look was before the change.
CacheInv ==
    \A p \in Processes, g \in Groups :
        IF Stale(p, g)
        THEN missed[p] \/ (seenRev[p] # rev /\ checked[p] <= asOf[p][g])
        ELSE asOf[p][g] = second

\* The counter has never been seen further than it is, and a look is remembered for
\* the second it was made in and the next.
LookInv ==
    \A p \in Processes :
        /\ seenRev[p] # Unseen => seenRev[p] <= rev
        /\ checked[p] \in {0, second - 1, second}

SettingsInv == SettingsTypeOK /\ CacheInv /\ LookInv /\ HeardWithinASecond

\* What the history needs to know of a step, for the caches to stay within a second.
HearsOf(deaf) ==
    \A p \in Processes, g \in Groups :
        Stale(p, g)' /\ ~missed[p] /\ p \notin deaf =>
            seenRev'[p] # rev' /\ checked'[p] <= asOf[p][g]

\* The history keeps up with a step that hears of the changes it should.
LEMMA RememberStep ==
    ASSUME SettingsTypeOK, NEW deaf, Remember(deaf), HearsOf(deaf), LookInv',
           second' \in Nat, checked' \in [Processes -> Nat], second <= second'
    PROVE  /\ CacheInv'
           /\ asOf' \in [Processes -> [Groups -> 0..second']]
           /\ missed' \in [Processes -> BOOLEAN]
<1> USE DEF SettingsTypeOK, Remember
<1>1. asOf' \in [Processes -> [Groups -> 0..second']]
  <2> SUFFICES ASSUME NEW p \in Processes, NEW g \in Groups
               PROVE  (IF True(p, g) THEN second'
                       ELSE IF second' - asOf[p][g] > REV_CHECK THEN 0 ELSE asOf[p][g])
                          \in 0..second'
    OBVIOUS
  <2>1. asOf[p][g] \in 0..second /\ second \in Nat
    OBVIOUS
  <2> QED
    BY <2>1
<1>2. missed' \in [Processes -> BOOLEAN]
  OBVIOUS
<1>3. ASSUME NEW p \in Processes, NEW g \in Groups, ~Stale(p, g)'
      PROVE  asOf'[p][g] = second'
  BY <1>3 DEF Stale, True
<1>4. ASSUME NEW p \in Processes, NEW g \in Groups, Stale(p, g)', ~missed'[p]
      PROVE  seenRev'[p] # rev' /\ checked'[p] <= asOf'[p][g]
  <2>1. ~True(p, g)
    BY <1>4 DEF Stale, True
  <2>2. ~missed[p] /\ p \notin deaf
    BY <1>4, <2>1
  <2>3. seenRev'[p] # rev' /\ checked'[p] <= asOf[p][g]
    BY <1>4, <2>2 DEF HearsOf
  <2>4. asOf[p][g] \in 0..second /\ checked'[p] \in Nat
    OBVIOUS
  <2>5. CASE second' - asOf[p][g] > REV_CHECK
    <3>1. asOf'[p][g] = 0
      BY <2>1, <2>5
    <3>2. checked'[p] \in {0, second' - 1, second'}
      BY DEF LookInv
    <3> QED
      BY <2>3, <2>4, <2>5, <3>1, <3>2 DEF REV_CHECK
  <2>6. CASE ~(second' - asOf[p][g] > REV_CHECK)
    <3>1. asOf'[p][g] = asOf[p][g]
      BY <2>1, <2>6
    <3> QED
      BY <2>3, <3>1
  <2> QED
    BY <2>5, <2>6
<1> QED
  BY <1>1, <1>2, <1>3, <1>4 DEF CacheInv

\* Who relies on what it has looked after relies on what was stored a second ago.
LEMMA UseStep ==
    ASSUME SettingsInv, NEW p \in Processes, NEW look \in BOOLEAN, MayLook(p, look),
           NEW groups \in SUBSET Groups, Use(p, look, groups)
    PROVE  /\ used' \in [lag : 0..second, missed : BOOLEAN]
           /\ used'.lag <= 1 \/ used'.missed
<1> DEFINE cached == {g \in groups : Left(p, look)[g] # NotCached}
           lag(g) == IF cache[p][g] = stored[g] THEN 0 ELSE second - asOf[p][g]
           lags == {lag(g) : g \in cached}
<1>1. second \in Nat \ {0} /\ missed[p] \in BOOLEAN
  BY DEF SettingsInv, SettingsTypeOK
<1>2. CASE cached = {}
  BY <1>1, <1>2 DEF Use, NoUse
<1>3. CASE cached # {}
  <2>1. used' = [lag |-> Max(lags), missed |-> missed[p]]
    BY <1>3 DEF Use
  <2>2. ASSUME NEW g \in cached
        PROVE  lag(g) \in 0..second /\ (lag(g) <= 1 \/ missed[p])
    <3>1. asOf[p][g] \in 0..second /\ checked[p] \in 0..second
      BY DEF SettingsInv, SettingsTypeOK
    <3>2. CASE cache[p][g] = stored[g]
      BY <1>1, <3>2
    <3>3. CASE cache[p][g] # stored[g] /\ ~missed[p]
      <4>1. cache[p][g] # NotCached /\ Left(p, look) = cache[p]
        BY DEF Left, Empty
      <4>2. seenRev[p] # rev /\ checked[p] <= asOf[p][g]
        BY <3>3, <4>1 DEF SettingsInv, CacheInv, Stale
      <4>3. ~look
        BY <3>3, <4>1, <4>2 DEF Left, Empty
      <4>4. second - checked[p] < 2
        BY <4>3 DEF MayLook, REV_CHECK
      <4> QED
        BY <1>1, <3>1, <3>3, <4>2, <4>4
    <3>4. CASE cache[p][g] # stored[g] /\ missed[p]
      BY <1>1, <3>1, <3>4
    <3> QED
      BY <1>1, <3>2, <3>3, <3>4
  <2>3. lags \in SUBSET (0..second) /\ lags # {}
    BY <1>3, <2>2
  <2> HIDE DEF lags
  <2>4. Max(lags) \in lags
    BY <1>1, <2>3, LargestNumber
  <2>5. \A l \in lags : l <= 1 \/ missed[p]
    BY <2>2 DEF lags
  <2> QED
    BY <1>1, <2>1, <2>3, <2>4, <2>5
<1> QED
  BY <1>2, <1>3

\* What is left of a cache, and what is got from it, are values of the groups.
LEMMA LeftValues ==
    ASSUME SettingsTypeOK, NEW p \in Processes, NEW look \in BOOLEAN
    PROVE  /\ Left(p, look) \in [Groups -> Value \cup {NotCached}]
           /\ \A g \in Groups : Got(p, look, g) \in Value
           /\ Counter(p, look) \in Nat \cup {Unseen}
           /\ Looked(p, look) \in 0..second
  BY DEF SettingsTypeOK, Left, Empty, Got, Counter, Looked

\* A group is read, after a look or without one.
LEMMA GetStep ==
    ASSUME SettingsInv, NEW p \in Processes, NEW look \in BOOLEAN, NEW g \in Groups, Get(p, g, look)
    PROVE  SettingsInv'
<1>1. /\ stored' = stored /\ rev' = rev /\ second' = second
      /\ writes' = writes /\ unmoved' = unmoved /\ second \in Nat
      /\ MayLook(p, look) /\ Use(p, look, {g}) /\ Remember({})
  BY DEF Get, SettingsInv, SettingsTypeOK
<1>2. /\ cache' \in [Processes -> [Groups -> Value \cup {NotCached}]]
      /\ seenRev' \in [Processes -> Nat \cup {Unseen}]
      /\ checked' \in [Processes -> 0..second']
  BY <1>1, LeftValues DEF Get, SettingsInv, SettingsTypeOK
<1>3. LookInv'
  BY <1>1 DEF Get, SettingsInv, SettingsTypeOK, LookInv, Counter, Looked
<1>4. HearsOf({})
  <2> SUFFICES ASSUME NEW q \in Processes, NEW h \in Groups, Stale(q, h)', ~missed[q]
               PROVE  seenRev'[q] # rev' /\ checked'[q] <= asOf[q][h]
    BY DEF HearsOf
  <2>1. CASE q # p
    BY <1>1, <2>1 DEF Get, SettingsInv, SettingsTypeOK, CacheInv, Stale
  <2>2. CASE q = p
    <3>1. cache'[p][h] = IF h = g THEN Got(p, look, g) ELSE Left(p, look)[h]
      BY LeftValues DEF Get, SettingsInv, SettingsTypeOK
    <3>2. cache'[p][h] = Left(p, look)[h] /\ Left(p, look)[h] \notin {stored[h], NotCached}
      BY <1>1, <2>2, <3>1 DEF Got, Stale
    <3>3. Left(p, look) = cache[p] /\ (look => seenRev[p] = rev)
      BY <3>2 DEF Left, Empty
    <3>4. seenRev[p] # rev /\ checked[p] <= asOf[p][h]
      BY <2>2, <3>2, <3>3 DEF SettingsInv, CacheInv, Stale
    <3> QED
      BY <1>1, <2>2, <3>3, <3>4
         DEF Get, SettingsInv, SettingsTypeOK, Counter, Looked
  <2> QED
    BY <2>1, <2>2
<1>5. checked' \in [Processes -> Nat]
  BY <1>1, <1>2
<1>6. /\ CacheInv' /\ asOf' \in [Processes -> [Groups -> 0..second']]
      /\ missed' \in [Processes -> BOOLEAN]
  BY <1>1, <1>3, <1>4, <1>5, RememberStep DEF SettingsInv
<1>7. used' \in [lag : 0..second, missed : BOOLEAN] /\ (used'.lag <= 1 \/ used'.missed)
  BY <1>1, UseStep
<1> QED
  BY <1>1, <1>2, <1>3, <1>6, <1>7 DEF SettingsInv, SettingsTypeOK, HeardWithinASecond

\* Whoever writes has what it has written in its cache; the others will look within a second.
LEMMA WriteStep ==
    ASSUME SettingsAssumption, SettingsBoundsAssumption, SettingsInv,
           NEW p \in Processes, NEW look \in BOOLEAN, NEW values, DOMAIN values \subseteq Groups,
           \A g \in DOMAIN values : values[g] \in Value,
           NEW steps \in Nat, Groups # {} => steps > 0, Write(p, look, values, steps),
           used' \in [lag : 0..second, missed : BOOLEAN], used'.lag <= 1 \/ used'.missed
    PROVE  SettingsInv'
<1>1. /\ second' = second /\ second \in Nat \ {0} /\ rev \in Nat /\ writes' \in 0..MaxWrites
      /\ writes' = writes + 1
  BY DEF Write, SettingsInv, SettingsTypeOK, SettingsBoundsAssumption
<1>2. stored' \in [Groups -> Value]
  BY <1>1 DEF Write, Replaced, SettingsInv, SettingsTypeOK
<1>3. /\ cache' \in [Processes -> [Groups -> Value \cup {NotCached}]]
      /\ \A q \in Processes : q # p => cache'[q] = cache[q]
      /\ \A g \in Groups : cache'[p][g] = IF g \in DOMAIN values THEN values[g]
                                          ELSE Left(p, look)[g]
  <2>1. Replaced(Left(p, look), values) \in [Groups -> Value \cup {NotCached}]
    BY <1>1, LeftValues DEF Replaced, SettingsInv
  <2>2. \A g \in Groups : Replaced(Left(p, look), values)[g]
            = IF g \in DOMAIN values THEN values[g] ELSE Left(p, look)[g]
    BY DEF Replaced
  <2>3. cache' = [cache EXCEPT ![p] = Replaced(Left(p, look), values)]
    BY DEF Write
  <2> HIDE DEF Replaced
  <2> QED
    BY <2>1, <2>2, <2>3 DEF SettingsInv, SettingsTypeOK
<1>4. \A g \in Groups : stored'[g] = IF g \in DOMAIN values THEN values[g] ELSE stored[g]
  BY DEF Write, Replaced
<1>5. \A q \in Processes, g \in Groups :
        /\ q # p /\ ~missed[q] => checked[q] <= asOf[q][g]
                                  /\ (Stale(q, g) => seenRev[q] # rev)
        /\ q = p /\ Stale(q, g)' /\ ~missed[q] =>
              ~look /\ seenRev[q] # rev /\ checked[q] <= asOf[q][g]
  <2> SUFFICES ASSUME NEW q \in Processes, NEW g \in Groups, ~missed[q]
               PROVE  /\ checked[q] <= asOf[q][g]
                      /\ Stale(q, g) => seenRev[q] # rev
                      /\ q = p /\ Stale(q, g)' => ~look /\ seenRev[q] # rev
    OBVIOUS
  <2>1. checked[q] <= asOf[q][g] /\ (Stale(q, g) => seenRev[q] # rev)
    BY DEF SettingsInv, SettingsTypeOK, CacheInv
  <2>2. ASSUME q = p, Stale(q, g)' PROVE ~look /\ seenRev[q] # rev
    <3>1. g \notin DOMAIN values /\ Left(p, look)[g] \notin {stored[g], NotCached}
      BY <1>3, <1>4, <2>2 DEF Stale
    <3>2. Left(p, look) = cache[p] /\ (look => seenRev[p] = rev)
      BY <3>1 DEF Left, Empty
    <3> QED
      BY <2>1, <2>2, <3>1, <3>2 DEF Stale
  <2> QED
    BY <2>1, <2>2
<1>6. CASE /\ rev' = rev + steps
           /\ seenRev' = [seenRev EXCEPT ![p] = rev']
           /\ checked' = [checked EXCEPT ![p] = second]
           /\ UNCHANGED unmoved
           /\ Remember(IF Counter(p, look) = rev THEN {} ELSE {p})
  <2> DEFINE deaf == IF Counter(p, look) = rev THEN {} ELSE {p}
  <2>1. /\ rev' \in Nat /\ seenRev' \in [Processes -> Nat \cup {Unseen}]
        /\ checked' \in [Processes -> 0..second'] /\ checked' \in [Processes -> Nat]
    BY <1>1, <1>6 DEF SettingsInv, SettingsTypeOK
  <2>2. LookInv'
    BY <1>1, <1>6 DEF SettingsInv, SettingsTypeOK, LookInv
  <2>3. HearsOf(deaf)
    <3> SUFFICES ASSUME NEW q \in Processes, NEW g \in Groups, Stale(q, g)', ~missed[q],
                        q \notin deaf
                 PROVE  seenRev'[q] # rev' /\ checked'[q] <= asOf[q][g]
      BY DEF HearsOf
    <3>1. q # p
      BY <1>5 DEF Counter
    <3>2. seenRev'[q] = seenRev[q] /\ checked'[q] = checked[q]
      BY <1>6, <3>1 DEF SettingsInv, SettingsTypeOK
    <3>3. seenRev[q] # rev'
      BY <1>1, <1>6 DEF SettingsInv, SettingsTypeOK, LookInv, SettingsAssumption
    <3> QED
      BY <1>5, <3>1, <3>2, <3>3
  <2>4. Remember(deaf)
    BY <1>6
  <2> HIDE DEF deaf
  <2>5. /\ CacheInv' /\ asOf' \in [Processes -> [Groups -> 0..second']]
        /\ missed' \in [Processes -> BOOLEAN]
    BY <1>1, <2>1, <2>2, <2>3, <2>4, RememberStep DEF SettingsInv
  <2> QED
    BY <1>1, <1>2, <1>3, <1>6, <2>1, <2>2, <2>5
       DEF SettingsInv, SettingsTypeOK, HeardWithinASecond
<1>7. CASE /\ unmoved < MaxFaults /\ unmoved' = unmoved + 1 /\ UNCHANGED rev
           /\ seenRev' = [seenRev EXCEPT ![p] = Counter(p, look)]
           /\ checked' = [checked EXCEPT ![p] = Looked(p, look)]
           /\ Remember(Processes \ {p})
  <2>1. /\ unmoved' \in 0..MaxFaults /\ seenRev' \in [Processes -> Nat \cup {Unseen}]
        /\ checked' \in [Processes -> 0..second'] /\ checked' \in [Processes -> Nat]
    <3>1. unmoved' \in 0..MaxFaults
      BY <1>7 DEF SettingsInv, SettingsTypeOK, SettingsBoundsAssumption
    <3>2. Counter(p, look) \in Nat \cup {Unseen} /\ Looked(p, look) \in 0..second
      BY LeftValues DEF SettingsInv
    <3> QED
      BY <1>1, <1>7, <3>1, <3>2 DEF SettingsInv, SettingsTypeOK
  <2>2. LookInv'
    BY <1>1, <1>7 DEF SettingsInv, SettingsTypeOK, LookInv, Counter, Looked
  <2>3. HearsOf(Processes \ {p})
    <3> SUFFICES ASSUME NEW g \in Groups, Stale(p, g)', ~missed[p]
                 PROVE  seenRev'[p] # rev' /\ checked'[p] <= asOf[p][g]
      BY DEF HearsOf
    <3> QED
      BY <1>5, <1>7 DEF SettingsInv, SettingsTypeOK, Counter, Looked
  <2>4. /\ CacheInv' /\ asOf' \in [Processes -> [Groups -> 0..second']]
        /\ missed' \in [Processes -> BOOLEAN]
    BY <1>1, <1>7, <2>1, <2>2, <2>3, RememberStep DEF SettingsInv
  <2> QED
    BY <1>1, <1>2, <1>3, <1>7, <2>1, <2>2, <2>4
       DEF SettingsInv, SettingsTypeOK, HeardWithinASecond
<1> QED
  BY <1>6, <1>7 DEF Write, BumpRev

\* The values a write is given are values.
LEMMA SetStep ==
    ASSUME SettingsAssumption, SettingsBoundsAssumption, SettingsInv,
           NEW p \in Processes, NEW look \in BOOLEAN, NEW g \in Groups, NEW f \in Fields,
           Set(p, g, f, look)
    PROVE  SettingsInv'
<1> DEFINE new == [Got(p, look, g) EXCEPT ![f] = writes + 1]
           values == [h \in {g} |-> new]
<1>1. new \in Value
  <2>1. Got(p, look, g) \in Value
    BY LeftValues DEF SettingsInv
  <2>2. writes + 1 \in 0..MaxWrites
    BY DEF Set, Write, SettingsInv, SettingsTypeOK, SettingsBoundsAssumption
  <2> QED
    BY <2>1, <2>2 DEF Value
<1>2. Write(p, look, values, 1) /\ MayLook(p, look) /\ Use(p, look, {g})
  BY DEF Set
<1> HIDE DEF new
<1>3. DOMAIN values \subseteq Groups /\ \A h \in DOMAIN values : values[h] \in Value
  BY <1>1
<1> HIDE DEF values
<1>4. used' \in [lag : 0..second, missed : BOOLEAN] /\ (used'.lag <= 1 \/ used'.missed)
  BY <1>2, UseStep
<1> QED
  BY <1>2, <1>3, <1>4, WriteStep

\* A group is written back to its defaults, without a look.
LEMMA ResetStep ==
    ASSUME SettingsAssumption, SettingsBoundsAssumption, SettingsInv,
           NEW p \in Processes, NEW g \in Groups, Reset(p, g)
    PROVE  SettingsInv'
<1> DEFINE values == [h \in {g} |-> Defaults]
           look == FALSE
<1>1. Write(p, look, values, 1) /\ used' = NoUse /\ look \in BOOLEAN
  BY DEF Reset
<1>2. DOMAIN values \subseteq Groups /\ \A h \in DOMAIN values : values[h] \in Value
  BY DEF Defaults, Value, SettingsBoundsAssumption
<1> HIDE DEF values, look
<1>3. used' \in [lag : 0..second, missed : BOOLEAN] /\ (used'.lag <= 1 \/ used'.missed)
  BY <1>1 DEF NoUse, SettingsInv, SettingsTypeOK
<1> QED
  BY <1>1, <1>2, <1>3, WriteStep

\* A rollback writes all groups, of which it keeps what it has read.
LEMMA RollbackStep ==
    ASSUME SettingsAssumption, SettingsBoundsAssumption, SettingsInv,
           NEW p \in Processes, NEW look \in BOOLEAN, Rollback(p, look)
    PROVE  SettingsInv'
<1> DEFINE values == [g \in Groups |-> Got(p, look, g)]
<1>1. /\ Write(p, look, values, Cardinality(Groups))
      /\ MayLook(p, look) /\ Use(p, look, Groups)
  BY DEF Rollback
<1>2. DOMAIN values \subseteq Groups /\ \A g \in DOMAIN values : values[g] \in Value
  BY LeftValues DEF SettingsInv
<1> HIDE DEF values
<1>3. Cardinality(Groups) \in Nat /\ (Groups # {} => Cardinality(Groups) > 0)
  BY FS_CardinalityType, FS_EmptySet DEF SettingsAssumption
<1>4. used' \in [lag : 0..second, missed : BOOLEAN] /\ (used'.lag <= 1 \/ used'.missed)
  BY <1>1, UseStep
<1> QED
  BY <1>1, <1>2, <1>3, <1>4, WriteStep

\* A process that is told reads everything anew.
LEMMA ReloadStep ==
    ASSUME SettingsInv, NEW p \in Processes, Reload(p) PROVE SettingsInv'
<1>1. /\ stored' = stored /\ rev' = rev /\ second' = second /\ second \in Nat
      /\ writes' = writes /\ unmoved' = unmoved /\ used' = NoUse /\ Remember({})
  BY DEF Reload, SettingsInv, SettingsTypeOK
<1>2. /\ cache' \in [Processes -> [Groups -> Value \cup {NotCached}]]
      /\ seenRev' \in [Processes -> Nat \cup {Unseen}]
      /\ checked' \in [Processes -> 0..second'] /\ checked' \in [Processes -> Nat]
  BY <1>1 DEF Reload, Empty, SettingsInv, SettingsTypeOK
<1>3. LookInv'
  BY <1>1 DEF Reload, SettingsInv, SettingsTypeOK, LookInv
<1>4. HearsOf({})
  BY <1>1 DEF HearsOf, Reload, Empty, SettingsInv, SettingsTypeOK, CacheInv, Stale
<1>5. /\ CacheInv' /\ asOf' \in [Processes -> [Groups -> 0..second']]
      /\ missed' \in [Processes -> BOOLEAN]
  BY <1>1, <1>2, <1>3, <1>4, RememberStep DEF SettingsInv
<1> QED
  BY <1>1, <1>2, <1>3, <1>5
     DEF SettingsInv, SettingsTypeOK, HeardWithinASecond, NoUse

\* A second passes only once every process has had its look.
LEMMA SecondStep == ASSUME SettingsBoundsAssumption, SettingsInv, Second PROVE SettingsInv'
<1>1. /\ stored' = stored /\ rev' = rev /\ second' = second + 1 /\ second \in Nat
      /\ second' \in 1..MaxSecond /\ cache' = cache /\ seenRev' = seenRev
      /\ writes' = writes /\ unmoved' = unmoved /\ used' = NoUse /\ Remember({})
  BY DEF Second, SettingsInv, SettingsTypeOK, SettingsBoundsAssumption
<1>2. checked' \in [Processes -> 0..second'] /\ checked' \in [Processes -> Nat]
  BY <1>1 DEF Second, SettingsInv, SettingsTypeOK
<1>3. LookInv'
  BY <1>1 DEF Second, SettingsInv, SettingsTypeOK, LookInv
<1>4. HearsOf({})
  BY <1>1 DEF HearsOf, Second, SettingsInv, SettingsTypeOK, CacheInv, Stale
<1>5. /\ CacheInv' /\ asOf' \in [Processes -> [Groups -> 0..second']]
      /\ missed' \in [Processes -> BOOLEAN]
  BY <1>1, <1>2, <1>3, <1>4, RememberStep DEF SettingsInv
<1> QED
  BY <1>1, <1>2, <1>3, <1>5
     DEF SettingsInv, SettingsTypeOK, HeardWithinASecond, NoUse

\* Every step of the settings keeps the invariant.
LEMMA SettingsStep ==
    ASSUME SettingsAssumption, SettingsBoundsAssumption,
           SettingsInv, [SettingsNext]_settingsVars
    PROVE  SettingsInv'
<1>1. ASSUME NEW p \in Processes, NEW g \in Groups, NEW look \in BOOLEAN, Get(p, g, look)
      PROVE  SettingsInv'
  BY <1>1, GetStep
<1>2. ASSUME NEW p \in Processes, NEW g \in Groups, NEW f \in Fields, NEW look \in BOOLEAN,
             Set(p, g, f, look)
      PROVE  SettingsInv'
  BY <1>2, SetStep
<1>3. ASSUME NEW p \in Processes, NEW g \in Groups, Reset(p, g) PROVE SettingsInv'
  BY <1>3, ResetStep
<1>4. ASSUME NEW p \in Processes, NEW look \in BOOLEAN, Rollback(p, look) PROVE SettingsInv'
  BY <1>4, RollbackStep
<1>5. ASSUME NEW p \in Processes, Reload(p) PROVE SettingsInv'
  BY <1>5, ReloadStep
<1>6. ASSUME Second PROVE SettingsInv'
  BY <1>6, SecondStep
<1>7. ASSUME UNCHANGED settingsVars PROVE SettingsInv'
  BY <1>7 DEF settingsVars, copies, SettingsInv, SettingsTypeOK, CacheInv, LookInv, Stale,
              HeardWithinASecond
<1> QED
  BY <1>1, <1>2, <1>3, <1>4, <1>5, <1>6, <1>7 DEF SettingsNext

\* The invariant holds of settings nobody has read or written yet.
LEMMA SettingsStart ==
    ASSUME SettingsBoundsAssumption, SettingsInit PROVE SettingsInv
  BY DEF SettingsBoundsAssumption, SettingsInit, SettingsInv, SettingsTypeOK, CacheInv,
         LookInv, Stale, HeardWithinASecond, Value, Defaults, Empty, NoUse

(***************************************************************************)
(* The settings keep their types, and what is known of the caches: one     *)
(* that is out of date is dropped at its process's next look, which comes  *)
(* within a second, unless that process wrote before it had heard or was   *)
(* not told.                                                               *)
(***************************************************************************)
THEOREM SettingsInvariant ==
    ASSUME SettingsAssumption, SettingsBoundsAssumption
    PROVE  SettingsSpec => []SettingsInv
<1>1. SettingsInit => SettingsInv
  BY SettingsStart
<1>2. SettingsInv /\ [SettingsNext]_settingsVars => SettingsInv'
  BY SettingsStep
<1> QED
  BY <1>1, <1>2, PTL DEF SettingsSpec

(***************************************************************************)
(* Another process's write is heard of within a second, for every number   *)
(* of processes, groups and writes: what a process answers, keeps in an    *)
(* update of other fields or rolls back to was stored then or a second ago,*)
(* with the two exceptions the property names.                             *)
(***************************************************************************)
THEOREM ChangesAreHeard ==
    ASSUME SettingsAssumption, SettingsBoundsAssumption
    PROVE  SettingsSpec => []HeardWithinASecond
<1>1. SettingsInv => HeardWithinASecond
  BY DEF SettingsInv
<1> QED
  BY <1>1, SettingsInvariant, PTL

-----------------------------------------------------------------------------
(* Siem: a blocked request is in the file exactly once.                    *)

\* Rows are numbered as they come, and never further than they are many.
RowsInv ==
    /\ log \subseteq Row /\ IsFiniteSet(log)
    /\ logged \in 0..MaxRows /\ file \subseteq 1..logged
    /\ DOMAIN poll = Pollers
    /\ \A p \in Pollers : poll[p] \subseteq Row
    /\ \A r \in log : r.n <= logged /\ r.rid <= r.n
    /\ \A r, s \in log : r.rid = s.rid \/ r.n = s.n => r = s
    /\ \A p \in Pollers : \A r \in poll[p] :
          r.n <= logged /\ \A s \in log : r.n = s.n => r = s

\* Whatever is in front of the cursor or of what a poll has selected is in the file,
\* about to be, or had its number too late.
CoveredInv ==
    /\ \A r \in log : r.action = "block" /\ r.rid <= cursor => r.n \in file \cup passed
    /\ \A p \in Polling, r \in log : r.action = "block" /\ r.rid <= LastRid(poll[p]) =>
          r.n \in file \cup passed \cup Numbers(poll[p])
    /\ \A p \in Pollers : appended[p] => p \in Polling /\ Numbers(poll[p]) \subseteq file

\* As long as no poll was interrupted or met another: there is one at a time, it has
\* selected rows beyond the cursor, and the file has no others beyond it.
OnceInv ==
    \/ disturbed
    \/ /\ twice = {}
       /\ \A p, q \in Polling : p = q
       /\ \A p \in Polling : \A r \in poll[p] : r.rid > cursor
       /\ \A p \in Polling : ~appended[p] => Numbers(poll[p]) \cap file = {}
       /\ \A r \in log : r.n \in file =>
             r.rid <= cursor \/ \E p \in Polling : appended[p] /\ r \in poll[p]

SiemInv == SiemTypeOK /\ RowsInv /\ CoveredInv /\ OnceInv

\* A poll that has selected none has not selected too many.
LEMMA NoRows == ASSUME SiemAssumption PROVE {} \subseteq Row /\ Cardinality({}) <= batch_max
<1>1. Cardinality({}) = 0
  BY FS_EmptySet
<1> QED
  BY <1>1 DEF SiemAssumption

\* The last of some rows.
LEMMA LastRow ==
    ASSUME SiemAssumption, NEW rows \in SUBSET Row
    PROVE  /\ LastRid(rows) \in 0..MaxRows
           /\ \A r \in rows : r.rid <= LastRid(rows)
           /\ IF rows = {} THEN LastRid(rows) = 0 ELSE \E r \in rows : r.rid = LastRid(rows)
<1> DEFINE rids == Rids(rows) \cup {0}
<1>1. rids \in SUBSET (0..MaxRows) /\ rids # {} /\ MaxRows \in Nat
  BY DEF Rids, Row, SiemAssumption
<1>2. \A r \in rows : r.rid \in rids /\ r.rid > 0
  BY DEF Rids, Row, SiemAssumption
<1>3. \A x \in rids : x = 0 \/ \E r \in rows : x = r.rid
  BY DEF Rids
<1> HIDE DEF rids
<1>4. Max(rids) \in rids /\ \A y \in rids : y <= Max(rids)
  BY <1>1, LargestNumber
<1>5. LastRid(rows) = Max(rids)
  BY DEF LastRid, rids
<1>6. CASE rows = {}
  BY <1>1, <1>3, <1>4, <1>5, <1>6
<1>7. CASE rows # {}
  <2>1. PICK r \in rows : r.rid \in rids /\ r.rid > 0
    BY <1>2, <1>7
  <2>2. Max(rids) \in 0..MaxRows /\ r.rid \in 0..MaxRows /\ r.rid <= Max(rids)
    BY <1>1, <1>4, <2>1
  <2>3. Max(rids) # 0
    BY <1>1, <2>1, <2>2
  <2> QED
    BY <1>1, <1>2, <1>3, <1>4, <1>5, <1>7, <2>3
<1> QED
  BY <1>6, <1>7

\* What a poll selects: some of the rows beyond the cursor, no more than it may, and with
\* each row all that are in front of it.
LEMMA BatchRows ==
    ASSUME SiemAssumption, SiemInv
    PROVE  /\ Batch \in SUBSET Row /\ Batch \subseteq Beyond /\ Beyond \subseteq log
           /\ Cardinality(Batch) <= batch_max
           /\ \A r \in Beyond : r.rid <= LastRid(Batch) => r \in Batch
<1> DEFINE Upto(r) == {s \in Beyond : s.rid <= r.rid}
<1>1. /\ Batch \subseteq Beyond /\ Beyond \subseteq log /\ log \subseteq Row /\ IsFiniteSet(log)
      /\ batch_max \in Nat /\ cursor \in Nat
  BY DEF Batch, Beyond, SiemInv, RowsInv, SiemTypeOK, SiemAssumption
<1>2. \A r \in Beyond : IsFiniteSet(Upto(r)) /\ Cardinality(Upto(r)) \in Nat
  <2>1. \A r \in Beyond : Upto(r) \subseteq log
    BY <1>1
  <2> QED
    BY <1>1, <2>1, FS_Subset, FS_CardinalityType
<1>3. \A r \in Beyond : r \in Batch <=> Cardinality(Upto(r)) <= batch_max
  BY DEF Batch
<1>4. \A r \in Beyond : r.rid \in Nat
  BY <1>1 DEF Row, SiemAssumption
<1>5. CASE Batch = {}
  <2>1. LastRid(Batch) = 0
    BY <1>5, LastRow
  <2>2. \A r \in Beyond : ~(r.rid <= 0)
    BY <1>1, <1>4 DEF Beyond
  <2> QED
    BY <1>1, <1>5, <2>1, <2>2, FS_EmptySet
<1>6. CASE Batch # {}
  <2>1. PICK l \in Batch : l.rid = LastRid(Batch) /\ \A r \in Batch : r.rid <= l.rid
    BY <1>1, <1>6, LastRow
  <2>2. Batch \subseteq Upto(l) /\ l \in Beyond
    BY <1>1, <2>1
  <2>3. Cardinality(Batch) <= Cardinality(Upto(l)) /\ Cardinality(Batch) \in Nat
    BY <1>2, <2>2, FS_Subset, FS_CardinalityType
  <2>4. Cardinality(Upto(l)) <= batch_max
    BY <1>3, <2>1, <2>2
  <2>5. Cardinality(Batch) <= batch_max
    BY <1>1, <1>2, <2>2, <2>3, <2>4
  <2>6. ASSUME NEW r \in Beyond, r.rid <= LastRid(Batch) PROVE r \in Batch
    <3>1. Upto(r) \subseteq Upto(l)
      BY <1>4, <2>1, <2>2, <2>6
    <3>2. Cardinality(Upto(r)) <= Cardinality(Upto(l))
      BY <1>2, <2>2, <3>1, FS_Subset
    <3>3. Cardinality(Upto(r)) <= batch_max
      BY <1>1, <1>2, <2>2, <2>4, <3>2
    <3> QED
      BY <1>3, <3>3
  <2> QED
    BY <1>1, <2>5, <2>6
<1> QED
  BY <1>5, <1>6

\* A new row has a number of its own, which a poll may be past already.
LEMMA LogStep ==
    ASSUME SiemAssumption, SiemInv, NEW action \in {"block", "allow"}, Log(action)
    PROVE  SiemInv'
<1> DEFINE new == [n |-> logged + 1, rid |-> LastRid(log) + 1, action |-> action]
<1> USE DEF SiemInv
<1>1. /\ log \in SUBSET Row /\ logged \in 0..MaxRows /\ logged < MaxRows /\ MaxRows \in Nat
      /\ cursor \in 0..MaxRows /\ \A p \in Pollers : poll[p] \in SUBSET Row
  BY DEF Log, SiemTypeOK, RowsInv, SiemAssumption
<1>2. LastRid(log) \in 0..logged /\ \A r \in log : r.rid <= LastRid(log) /\ r.rid \in Nat
  <2>1. /\ LastRid(log) \in 0..MaxRows /\ \A r \in log : r.rid <= LastRid(log)
        /\ LastRid(log) = 0 \/ \E r \in log : r.rid = LastRid(log)
    BY <1>1, LastRow
  <2>2. \A r \in log : r.rid \in Nat /\ r.n \in Nat /\ r.n <= logged /\ r.rid <= r.n
    BY <1>1 DEF RowsInv, Row
  <2> QED
    BY <1>1, <2>1, <2>2
<1>3. /\ new \in Row /\ new.n = logged + 1 /\ new.rid = LastRid(log) + 1 /\ new.action = action
      /\ new.n \in 1..MaxRows
  BY <1>1, <1>2 DEF Row
<1>4. /\ log' = log \cup {new} /\ logged' = logged + 1
      /\ UNCHANGED <<include_allowed, cursor, poll, appended, file, mishaps, twice, disturbed>>
      /\ passed' = IF \/ new.rid <= cursor \/ \E p \in Polling : new.rid <= LastRid(poll[p])
                   THEN passed \cup {new.n} ELSE passed
  BY <1>3 DEF Log
<1> HIDE DEF new
<1>5. Polling' = Polling
  BY <1>4 DEF Polling
<1>6. \A r \in log : r.n \in Nat /\ r.n < new.n /\ r.rid < new.rid
  BY <1>1, <1>2, <1>3 DEF RowsInv, Row
<1>7. SiemTypeOK'
  <2>1. log' \subseteq Row /\ logged' \in 0..MaxRows
    BY <1>1, <1>3, <1>4
  <2>2. \A r, s \in log' : r.rid = s.rid => r = s
    BY <1>1, <1>2, <1>3, <1>4, <1>6 DEF RowsInv
  <2>3. passed' \subseteq 1..MaxRows
    BY <1>3, <1>4 DEF SiemTypeOK
  <2>4. \A p \in Pollers : poll'[p] \subseteq Row /\ Cardinality(poll'[p]) <= batch_max
    BY <1>4 DEF SiemTypeOK
  <2> QED
    BY <1>4, <2>1, <2>2, <2>3, <2>4 DEF SiemTypeOK
<1>8. RowsInv'
  <2>1. IsFiniteSet(log')
    BY <1>4, FS_AddElement DEF RowsInv
  <2>2. logged' \in 0..MaxRows /\ file' \subseteq 1..logged'
    BY <1>1, <1>4 DEF RowsInv
  <2>3. \A r \in log' : r.n <= logged' /\ r.rid <= r.n
    BY <1>1, <1>2, <1>3, <1>4, <1>6 DEF RowsInv
  <2>4. \A r, s \in log' : r.rid = s.rid \/ r.n = s.n => r = s
    BY <1>1, <1>2, <1>3, <1>4, <1>6 DEF RowsInv
  <2>5. \A p \in Pollers : \A r \in poll[p] : r.n \in Nat /\ r.n < new.n
    BY <1>1, <1>3 DEF RowsInv, Row
  <2>6. \A p \in Pollers : \A r \in poll'[p] :
            r.n <= logged' /\ \A s \in log' : r.n = s.n => r = s
    BY <1>1, <1>3, <1>4, <2>5 DEF RowsInv
  <2> QED
    BY <1>3, <1>4, <2>1, <2>2, <2>3, <2>4, <2>6 DEF RowsInv
<1>9. CoveredInv'
  <2>1. \/ new.n \in passed'
        \/ ~(new.rid <= cursor) /\ \A p \in Polling : ~(new.rid <= LastRid(poll[p]))
    BY <1>4
  <2> QED
    BY <1>4, <1>5, <2>1 DEF CoveredInv
<1>10. OnceInv'
  <2>1. new.n \notin file
    BY <1>1, <1>3 DEF RowsInv
  <2> QED
    BY <1>4, <1>5, <2>1 DEF OnceInv
<1> QED
  BY <1>7, <1>8, <1>9, <1>10

\* Retention takes rows away; the largest number may be free again.
LEMMA PurgeStep ==
    ASSUME SiemInv, NEW n \in 1..MaxRows, Purge(n) PROVE SiemInv'
<1> USE DEF SiemInv
<1>1. /\ log' \subseteq log
      /\ UNCHANGED <<logged, include_allowed, cursor, poll, appended, file, mishaps, twice,
                     passed, disturbed>>
  BY DEF Purge, siemHistory
<1>2. Polling' = Polling
  BY <1>1 DEF Polling
<1>3. SiemTypeOK'
  BY <1>1 DEF SiemTypeOK
<1>4. RowsInv'
  <2>1. IsFiniteSet(log')
    BY <1>1, FS_Subset DEF RowsInv
  <2> QED
    BY <1>1, <2>1 DEF RowsInv
<1>5. CoveredInv'
  BY <1>1, <1>2 DEF CoveredInv
<1>6. OnceInv'
  BY <1>1, <1>2 DEF OnceInv
<1> QED
  BY <1>3, <1>4, <1>5, <1>6

\* What a poll selects is not in the file, unless another poll is about or one broke off.
LEMMA SelectStep ==
    ASSUME SiemAssumption, SiemInv, NEW p \in Pollers, Select(p) PROVE SiemInv'
<1> USE DEF SiemInv
<1>1. /\ poll[p] = {} /\ Batch # {} /\ poll' = [poll EXCEPT ![p] = Batch]
      /\ disturbed' = (disturbed \/ Polling # {})
      /\ UNCHANGED <<log, logged, include_allowed, cursor, appended, file, mishaps, twice, passed>>
  BY DEF Select
<1>2. /\ Batch \in SUBSET Row /\ Batch \subseteq Beyond /\ Beyond \subseteq log
      /\ Cardinality(Batch) <= batch_max
      /\ \A r \in Beyond : r.rid <= LastRid(Batch) => r \in Batch
  BY BatchRows
<1>3. \A r \in log : r \in Beyond <=>
          r.rid > cursor /\ (include_allowed \/ r.action = "block")
  BY DEF Beyond
<1>4. DOMAIN poll = Pollers /\ log \in SUBSET Row /\ cursor \in Nat
      /\ \A r \in log : r.rid \in Nat /\ r.n \in Nat
  BY DEF SiemTypeOK, RowsInv, Row, SiemAssumption
<1> DEFINE batch == Batch
<1>5. batch = Batch
  OBVIOUS
<1> HIDE DEF batch
<1>6. DOMAIN poll' = Pollers /\ poll'[p] = batch /\ \A q \in Pollers \ {p} : poll'[q] = poll[q]
  BY <1>1, <1>4, <1>5
<1>7. Polling' = Polling \cup {p} /\ p \notin Polling
  BY <1>1, <1>5, <1>6 DEF Polling
<1>8. ~appended[p]
  BY <1>7 DEF CoveredInv
<1>9. SiemTypeOK'
  <2>1. \A q \in Pollers : poll'[q] \subseteq Row /\ Cardinality(poll'[q]) <= batch_max
    BY <1>2, <1>5, <1>6 DEF SiemTypeOK
  <2>2. disturbed' \in BOOLEAN
    BY <1>1 DEF SiemTypeOK
  <2> QED
    BY <1>1, <1>6, <2>1, <2>2 DEF SiemTypeOK
<1>10. RowsInv'
  BY <1>1, <1>2, <1>5, <1>6 DEF RowsInv
<1>11. CoveredInv'
  <2>1. \A r \in log : r.action = "block" /\ r.rid <= LastRid(batch) =>
            r.n \in file \cup passed \cup Numbers(batch)
    <3>1. ASSUME NEW r \in log, r.action = "block", r.rid <= LastRid(batch), ~(r.rid <= cursor)
          PROVE  r.n \in Numbers(batch)
      <4>1. r \in Beyond
        BY <1>3, <1>4, <3>1
      <4> QED
        BY <1>2, <1>5, <3>1, <4>1 DEF Numbers
    <3> QED
      BY <3>1 DEF CoveredInv
  <2> QED
    BY <1>1, <1>5, <1>6, <1>7, <1>8, <2>1 DEF CoveredInv, Polling
<1>12. OnceInv'
  <2>1. CASE disturbed'
    BY <2>1 DEF OnceInv
  <2>2. CASE ~disturbed'
    <3>1. Polling = {} /\ ~disturbed /\ Polling' = {p}
      BY <1>1, <1>7, <2>2
    <3>2. twice' = {} /\ \A r \in log : r.n \in file => r.rid <= cursor
      BY <1>1, <3>1 DEF OnceInv
    <3>3. \A r \in batch : r \in log /\ r.rid > cursor
      BY <1>2, <1>3, <1>5
    <3>4. Numbers(batch) \cap file = {}
      BY <1>4, <3>2, <3>3 DEF Numbers
    <3> QED
      BY <1>1, <1>6, <3>1, <3>2, <3>3, <3>4 DEF OnceInv
  <2> QED
    BY <2>1, <2>2
<1> QED
  BY <1>9, <1>10, <1>11, <1>12

\* The rows a poll appends are those the log has under their numbers.
LEMMA AppendStep ==
    ASSUME SiemAssumption, SiemInv, NEW p \in Pollers, AppendToFile(p) PROVE SiemInv'
<1> USE DEF SiemInv
<1>1. /\ p \in Polling /\ ~appended[p]
      /\ file' = file \cup Numbers(poll[p]) /\ twice' = twice \cup (file \cap Numbers(poll[p]))
      /\ appended' = [appended EXCEPT ![p] = TRUE]
      /\ UNCHANGED <<log, logged, include_allowed, cursor, poll, mishaps, passed, disturbed>>
  BY DEF AppendToFile
<1>2. Polling' = Polling /\ appended \in [Pollers -> BOOLEAN]
  BY <1>1 DEF Polling, SiemTypeOK
<1>3. appended'[p] /\ \A q \in Pollers \ {p} : appended'[q] = appended[q]
  BY <1>1, <1>2
<1>4. Numbers(poll[p]) \subseteq 1..logged /\ logged \in 0..MaxRows
  BY DEF Numbers, RowsInv, Row
<1>5. SiemTypeOK'
  <2>1. MaxRows \in Nat /\ file \subseteq 1..MaxRows /\ twice \subseteq file
    BY DEF SiemTypeOK, SiemAssumption
  <2>2. Numbers(poll[p]) \subseteq 1..MaxRows
    BY <1>4, <2>1
  <2>3. file' \subseteq 1..MaxRows /\ twice' \subseteq file'
    BY <1>1, <2>1, <2>2
  <2>4. appended' \in [Pollers -> BOOLEAN]
    BY <1>1, <1>2
  <2> QED
    BY <1>1, <2>3, <2>4 DEF SiemTypeOK
<1>6. RowsInv'
  BY <1>1, <1>4, ZenonT(30) DEF RowsInv
<1>7. CoveredInv'
  BY <1>1, <1>2, <1>3 DEF CoveredInv
<1>8. OnceInv'
  <2>1. CASE disturbed
    BY <1>1, <2>1 DEF OnceInv
  <2>2. CASE ~disturbed
    <3>1. \A r \in log : r.n \in Numbers(poll[p]) => r \in poll[p]
      BY DEF Numbers, RowsInv
    <3>2. /\ twice = {} /\ Numbers(poll[p]) \cap file = {}
          /\ \A q \in Polling : p = q
          /\ \A q \in Polling : \A r \in poll[q] : r.rid > cursor
          /\ \A r \in log : r.n \in file => r.rid <= cursor
      BY <1>1, <2>2 DEF OnceInv
    <3>3. \A r \in log : r.n \in file' =>
              r.rid <= cursor \/ \E q \in Polling : appended'[q] /\ r \in poll[q]
      BY <1>1, <1>3, <3>1, <3>2
    <3> QED
      BY <1>1, <1>2, <1>3, <3>2, <3>3 DEF OnceInv
  <2> QED
    BY <2>1, <2>2
<1> QED
  BY <1>5, <1>6, <1>7, <1>8

\* A poll that ends leaves the others as they are.
LEMMA RestStep ==
    ASSUME SiemTypeOK, RowsInv, NEW p \in Pollers, p \in Polling, Rest(p)
    PROVE  /\ DOMAIN poll' = Pollers /\ appended' \in [Pollers -> BOOLEAN]
           /\ poll'[p] = {} /\ ~appended'[p]
           /\ Polling' = Polling \ {p}
           /\ \A q \in Pollers \ {p} : poll'[q] = poll[q] /\ appended'[q] = appended[q]
<1>1. DOMAIN poll' = Pollers /\ appended' \in [Pollers -> BOOLEAN]
  BY DEF Rest, SiemTypeOK
<1>2. /\ poll'[p] = {} /\ ~appended'[p]
      /\ \A q \in Pollers \ {p} : poll'[q] = poll[q] /\ appended'[q] = appended[q]
  BY DEF Rest, SiemTypeOK
<1> QED
  BY <1>1, <1>2 DEF Polling

\* What a poll has selected, the cursor is past: it is all in the file by then.
LEMMA SaveCursorStep ==
    ASSUME SiemAssumption, SiemInv, NEW p \in Pollers, SaveCursor(p) PROVE SiemInv'
<1> USE DEF SiemInv
<1>1. /\ p \in Polling /\ appended[p] /\ Rest(p) /\ cursor' = LastRid(poll[p])
      /\ UNCHANGED <<log, logged, include_allowed, file, mishaps, twice, passed, disturbed>>
  BY DEF SaveCursor, siemHistory
<1>2. /\ DOMAIN poll' = Pollers /\ appended' \in [Pollers -> BOOLEAN]
      /\ poll'[p] = {} /\ ~appended'[p] /\ Polling' = Polling \ {p}
      /\ \A q \in Pollers \ {p} : poll'[q] = poll[q] /\ appended'[q] = appended[q]
  BY <1>1, RestStep
<1>3. /\ cursor' \in 0..MaxRows /\ \A r \in poll[p] : r.rid <= cursor' /\ r.rid \in Nat
      /\ \E r \in poll[p] : r.rid = cursor'
  <2>1. poll[p] \in SUBSET Row /\ poll[p] # {}
    BY <1>1 DEF RowsInv, Polling
  <2> QED
    BY <1>1, <2>1, LastRow DEF Row
<1>4. SiemTypeOK'
  <2>1. \A q \in Pollers : poll'[q] \subseteq Row /\ Cardinality(poll'[q]) <= batch_max
    <3>1. poll'[p] \subseteq Row /\ Cardinality(poll'[p]) <= batch_max
      BY <1>2, NoRows
    <3> QED
      BY <1>2, <3>1 DEF SiemTypeOK
  <2> QED
    BY <1>1, <1>2, <1>3, <2>1 DEF SiemTypeOK
<1>5. RowsInv'
  BY <1>1, <1>2 DEF RowsInv
<1>6. CoveredInv'
  <2>1. \A r \in log : r.action = "block" /\ r.rid <= cursor' => r.n \in file \cup passed
    BY <1>1 DEF CoveredInv
  <2>2. \A q \in Polling', r \in log : r.action = "block" /\ r.rid <= LastRid(poll'[q]) =>
            r.n \in file \cup passed \cup Numbers(poll'[q])
    BY <1>2 DEF CoveredInv, Polling
  <2>3. \A q \in Pollers : appended'[q] => q \in Polling' /\ Numbers(poll'[q]) \subseteq file
    BY <1>2 DEF CoveredInv
  <2> QED
    BY <1>1, <2>1, <2>2, <2>3 DEF CoveredInv
<1>7. OnceInv'
  <2>1. CASE disturbed
    BY <1>1, <2>1 DEF OnceInv
  <2>2. CASE ~disturbed
    <3>1. /\ twice = {} /\ \A q \in Polling : p = q
          /\ \A r \in poll[p] : r.rid > cursor
          /\ \A r \in log : r.n \in file => r.rid <= cursor \/ r \in poll[p]
      BY <1>1, <2>2 DEF OnceInv
    <3>2. Polling' = {}
      BY <1>2, <3>1
    <3>3. cursor \in Nat /\ cursor' \in Nat /\ cursor < cursor'
      BY <1>3, <3>1 DEF SiemTypeOK
    <3>4. \A r \in log : r.rid \in Nat
      BY DEF RowsInv, Row
    <3>5. \A r \in log : r.n \in file => r.rid <= cursor'
      BY <1>3, <3>1, <3>3, <3>4
    <3> QED
      BY <1>1, <3>1, <3>2, <3>5 DEF OnceInv
  <2> QED
    BY <2>1, <2>2
<1> QED
  BY <1>4, <1>5, <1>6, <1>7

\* A poll that breaks off leaves the cursor where it was.
LEMMA MishapStep ==
    ASSUME SiemAssumption, SiemInv, NEW p \in Pollers, Mishap(p) PROVE SiemInv'
<1> USE DEF SiemInv
<1>1. /\ p \in Polling /\ Rest(p) /\ mishaps < MaxMishaps /\ mishaps' = mishaps + 1
      /\ disturbed' = TRUE
      /\ UNCHANGED <<log, logged, include_allowed, cursor, file, twice, passed>>
  BY DEF Mishap
<1>2. /\ DOMAIN poll' = Pollers /\ appended' \in [Pollers -> BOOLEAN]
      /\ poll'[p] = {} /\ ~appended'[p] /\ Polling' = Polling \ {p}
      /\ \A q \in Pollers \ {p} : poll'[q] = poll[q] /\ appended'[q] = appended[q]
  BY <1>1, RestStep
<1>3. SiemTypeOK'
  <2>1. \A q \in Pollers : poll'[q] \subseteq Row /\ Cardinality(poll'[q]) <= batch_max
    <3>1. poll'[p] \subseteq Row /\ Cardinality(poll'[p]) <= batch_max
      BY <1>2, NoRows
    <3> QED
      BY <1>2, <3>1 DEF SiemTypeOK
  <2>2. mishaps' \in 0..MaxMishaps
    BY <1>1 DEF SiemTypeOK, SiemAssumption
  <2> QED
    BY <1>1, <1>2, <2>1, <2>2 DEF SiemTypeOK
<1>4. RowsInv'
  BY <1>1, <1>2 DEF RowsInv
<1>5. CoveredInv'
  <2>1. \A q \in Polling', r \in log : r.action = "block" /\ r.rid <= LastRid(poll'[q]) =>
            r.n \in file \cup passed \cup Numbers(poll'[q])
    BY <1>2 DEF CoveredInv, Polling
  <2>2. \A q \in Pollers : appended'[q] => q \in Polling' /\ Numbers(poll'[q]) \subseteq file
    BY <1>2 DEF CoveredInv
  <2> QED
    BY <1>1, <2>1, <2>2 DEF CoveredInv
<1>6. OnceInv'
  BY <1>1 DEF OnceInv
<1> QED
  BY <1>3, <1>4, <1>5, <1>6

\* Every step of the stream keeps the invariant.
LEMMA SiemStep ==
    ASSUME SiemAssumption, SiemInv, [SiemNext]_siemVars PROVE SiemInv'
<1>1. ASSUME UNCHANGED siemVars PROVE SiemInv'
  BY <1>1 DEF siemVars, siemHistory, SiemInv, SiemTypeOK, RowsInv, CoveredInv, OnceInv, Polling
<1> QED
  BY <1>1, LogStep, PurgeStep, SelectStep, AppendStep, SaveCursorStep, MishapStep DEF SiemNext

\* The invariant holds of an empty log.
LEMMA SiemStart ==
    ASSUME SiemAssumption, SiemInit PROVE SiemInv
<1>1. IsFiniteSet({}) /\ Cardinality({}) = 0
  BY FS_EmptySet
<1>2. Polling = {}
  BY DEF SiemInit, Polling
<1>3. SiemTypeOK
  <2>1. \A p \in Pollers : poll[p] \subseteq Row /\ Cardinality(poll[p]) <= batch_max
    BY NoRows DEF SiemInit
  <2>2. 0 \in 0..MaxRows /\ 0 \in 0..MaxMishaps
    BY DEF SiemAssumption
  <2> QED
    BY <2>1, <2>2 DEF SiemInit, SiemTypeOK
<1>4. RowsInv
  BY <1>1 DEF SiemInit, RowsInv, SiemAssumption
<1>5. CoveredInv /\ OnceInv
  BY <1>2 DEF SiemInit, CoveredInv, OnceInv
<1> QED
  BY <1>3, <1>4, <1>5 DEF SiemInv

(***************************************************************************)
(* "Events are delivered exactly once in commit order and survive          *)
(* restarts", of siemStream.poll(), for every number of processes, rows    *)
(* and mishaps: a blocked request the cursor is past is in the file, and   *)
(* none is in it twice, with the two exceptions the property names.        *)
(***************************************************************************)
THEOREM StreamedExactlyOnce ==
    ASSUME SiemAssumption
    PROVE  SiemSpec => []ExactlyOnce
<1>1. SiemInit => SiemInv
  BY SiemStart
<1>2. SiemInv /\ [SiemNext]_siemVars => SiemInv'
  BY SiemStep
<1>3. SiemInv => ExactlyOnce
  BY DEF SiemInv, CoveredInv, OnceInv, ExactlyOnce
<1> QED
  BY <1>1, <1>2, <1>3, PTL DEF SiemSpec

-----------------------------------------------------------------------------
(* Alerts: one alert of a kind for each cooldown.                          *)

\* What a map of claims says of a kind is when its last alert may have been heard.
Keeps(map, k) == heard[k] = Gap \/ k \in dropped \/ map[k] = heard[k]

\* The row keeps the claims that may have been heard, and so does what was read of it
\* under the lock, of which there is one holder.
ClaimsInv ==
    /\ \A k \in Kinds : Keeps(claims, k)
    /\ \A p, q \in Claiming : p = q
    /\ \A p \in Claiming, k \in Kinds : Keeps(busy[p].read, k)
    /\ \A p \in Claiming : heard[busy[p].kind] = Gap \/ busy[p].kind \in dropped

AlertsInv == AlertsTypeOK /\ ClaimsInv

\* Every step of the alerts keeps the invariant.
LEMMA AlertsStep ==
    ASSUME AlertsAssumption, AlertsInv, [AlertsNext]_alertVars PROVE AlertsInv'
<1> USE DEF AlertsAssumption, AlertsInv, AlertsTypeOK, ClaimsInv, Keeps, Claiming, Ages, Map, Free
<1>1. ASSUME NEW p \in Senders, NEW k \in Kinds, Claim(p, k) PROVE AlertsInv'
  BY <1>1 DEF Claim
<1>2. ASSUME NEW p \in Senders, NEW k \in Kinds, Send(p, k) PROVE AlertsInv'
  BY <1>2 DEF Send
<1>3. ASSUME NEW p \in Senders, NEW k \in Kinds, Delivered(p, k) PROVE AlertsInv'
  BY <1>3 DEF Delivered
<1>4. ASSUME NEW p \in Senders, NEW k \in Kinds, Failed(p, k) PROVE AlertsInv'
  BY <1>4 DEF Failed
<1>5. ASSUME NEW p \in Senders, NEW k \in Kinds, Refund(p, k) PROVE AlertsInv'
  BY <1>5 DEF Refund, Own
<1>6. ASSUME NEW p \in Senders, End(p) PROVE AlertsInv'
  BY <1>6 DEF End
<1>7. ASSUME Pass PROVE AlertsInv'
  <2>1. \A age \in Ages \cup {Never} :
            /\ Older(age) \in Ages \cup {Never}
            /\ age # Never => Older(age) \in Ages
            /\ age = Gap => Older(age) = Gap
    BY DEF Older
  <2>2. claims' \in Map /\ heard' \in [Kinds -> Ages]
    <3>1. /\ claims' = [k \in Kinds |-> Older(claims[k])]
          /\ heard' = [k \in Kinds |-> Older(heard[k])]
      BY <1>7 DEF Pass
    <3>2. \A k \in Kinds : claims[k] \in Ages \cup {Never} /\ heard[k] \in Ages /\ heard[k] # Never
      OBVIOUS
    <3> QED
      BY <2>1, <3>1, <3>2
  <2>3. \A p \in Senders : sending'[p] = [k \in Kinds |->
            IF sending[p][k] = Never THEN Never ELSE sending[p][k] + 1]
    BY <1>7 DEF Pass
  <2>4. \A p \in Senders, k \in Kinds :
            sending[p][k] # Never => sending[p][k] + 1 \in 0..Longest
    <3>1. \A p \in Senders, k \in Kinds :
              sending[p][k] \in 0..Longest \cup {Never} /\ sending[p][k] # Longest
      BY <1>7 DEF Pass
    <3> QED
      BY <3>1, OneMore
  <2>5. sending' \in [Senders -> [Kinds -> 0..Longest \cup {Never}]]
    BY <1>7, <2>4 DEF Pass
  <2>6. UNCHANGED <<busy, ends, dropped>> /\ Claiming' = {}
    BY <1>7 DEF Pass
  <2>7. \A k \in Kinds : Keeps(claims, k)'
    BY <1>7, <2>1, <2>6 DEF Pass
  <2> QED
    BY <2>2, <2>5, <2>6, <2>7
<1>8. ASSUME UNCHANGED alertVars PROVE AlertsInv'
  BY <1>8 DEF alertVars
<1> QED
  BY <1>1, <1>2, <1>3, <1>4, <1>5, <1>6, <1>7, <1>8 DEF AlertsNext

(***************************************************************************)
(* "An ongoing attack produces one alert, not four thousand", of           *)
(* alertDispatch.fire(), for every number of processes and kinds, every    *)
(* cooldown and every length of delivery: an alert is sent only if the     *)
(* cooldown has passed since the last that may have been heard, with the   *)
(* exception the property names.                                           *)
(***************************************************************************)
THEOREM AlertsKeepTheirCooldown ==
    ASSUME AlertsAssumption
    PROVE  AlertsSpec => OneAlertPerCooldown
<1>1. AlertsInit => AlertsInv
  BY DEF AlertsInit, AlertsInv, AlertsTypeOK, ClaimsInv, Keeps, Claiming, Ages, Map, Free,
         AlertsAssumption
<1>2. AlertsInv /\ [AlertsNext]_alertVars => AlertsInv'
  BY AlertsStep
<1>3. ASSUME AlertsInv, [AlertsNext]_alertVars
      PROVE  [\A k \in Kinds : (\E p \in Senders : sending[p][k] = Never /\ sending'[p][k] = 0)
                  => heard[k] = Gap \/ k \in dropped]_alertVars
  <2> SUFFICES ASSUME AlertsNext, NEW k \in Kinds, NEW p \in Senders,
                      sending[p][k] = Never, sending'[p][k] = 0
               PROVE  heard[k] = Gap \/ k \in dropped
    BY <1>3
  <2>1. Send(p, k)
    BY <1>3 DEF AlertsNext, Claim, Send, Delivered, Failed, Refund, End, Pass, AlertsAssumption,
                AlertsInv, AlertsTypeOK
  <2> QED
    BY <1>3, <2>1 DEF Send, AlertsInv, ClaimsInv, Claiming
<1> QED
  BY <1>1, <1>2, <1>3, PTL DEF AlertsSpec, OneAlertPerCooldown

-----------------------------------------------------------------------------
(* Mirrors: the edge and the kernel are what a refresh says they are.      *)

\* Who is past asking for the lock has it, alone.
LockedInv ==
    \A p, q \in Runners :
        work[p].at \notin {Idle, "asked"} /\ work[q].at \notin {Idle, "asked"} => p = q

\* Who has written the region and not recorded it knows what is in it; and what is recorded
\* is in the region, and loaded unless the record says otherwise.
EdgeInv ==
    /\ \A p \in Runners :
          /\ work[p].at # Idle => work[p].targets \in SUBSET Targets
          /\ work[p].at \in {"written", "reloaded", "failed"} =>
                region = work[p].targets /\ unrecorded = TRUE
          /\ work[p].at = "reloaded" => live = region
    /\ unrecorded = FALSE /\ lastRender # Absent =>
          region = lastRender.hash /\ (lastRender.needsReload = FALSE => live = region)

\* A run that has deleted the table, or failed to, has made the hash in memory worthless; as
\* long as that is what was last applied, the table holds it.
KernelInv ==
    /\ \A p \in Runners : work[p].at = "deleted" =>
          /\ merged = FALSE => table = Absent
          /\ latest = Absent \/ latest # lastApplied
    /\ lastApplied # Absent /\ latest = lastApplied /\ merged = FALSE => table = lastApplied

MirrorsInv ==
    /\ MirrorsTypeOK /\ LockedInv /\ EdgeInv /\ KernelInv
    /\ EdgeIsWhatItSays /\ KernelIsWhatItSays


\* What a runner may be at.
Work == [at : {Idle, "asked", "written", "reloaded", "failed", "deleted"}, targets : Contents]

\* A runner's step leaves the others where they are.
LEMMA WorkStep ==
    ASSUME MirrorsTypeOK, NEW p \in Runners, NEW w \in Work, work' = [work EXCEPT ![p] = w]
    PROVE  /\ work' \in [Runners -> Work]
           /\ work'[p] = w /\ \A q \in Runners \ {p} : work'[q] = work[q]
<1>1. work \in [Runners -> Work]
  BY DEF MirrorsTypeOK, Work
<1> QED
  BY <1>1

\* Every step of the mirrors keeps the invariant.
LEMMA MirrorsStep ==
    ASSUME MirrorsAssumption, MirrorsInv, [MirrorsNext]_mirrorVars PROVE MirrorsInv'
<1>1. Trouble => troubles' \in 0..MaxTroubles
  <2>1. MaxTroubles \in Nat /\ troubles \in 0..MaxTroubles
    BY DEF MirrorsAssumption, MirrorsInv, MirrorsTypeOK
  <2> QED
    BY <2>1 DEF Trouble
<1>2. \A t \in Targets : Change(t) => changed' \in 0..MaxChanges
  <2>1. MaxChanges \in Nat /\ changed \in 0..MaxChanges
    BY DEF MirrorsAssumption, MirrorsInv, MirrorsTypeOK
  <2> QED
    BY <2>1 DEF Change
<1>3. \A p \in Runners : work[p] \in Work
  BY DEF Work, MirrorsInv, MirrorsTypeOK
<1>4. NoWork \in Work /\ NoWork.at = Idle
  BY DEF Work, NoWork, Contents
<1> USE DEF MirrorsAssumption, MirrorsInv, MirrorsTypeOK, LockedInv, EdgeInv, KernelInv, At,
        LockIsFree, NoWork, Contents, edge, kernel, history, EdgeIsWhatItSays,
        KernelIsWhatItSays, Nothing
<1>5. ASSUME NEW t \in Targets, Change(t) PROVE MirrorsInv'
  <2>1. MirrorsTypeOK' /\ LockedInv'
    BY <1>5, <1>2 DEF Change
  <2>2. EdgeInv' /\ KernelInv'
    BY <1>5 DEF Change
  <2>3. EdgeIsWhatItSays' /\ KernelIsWhatItSays'
    BY <1>5 DEF Change
  <2> QED
    BY <2>1, <2>2, <2>3
<1>6. ASSUME NEW p \in Runners, EdgeUnchanged(p) PROVE MirrorsInv'
  <2>1. MirrorsTypeOK' /\ LockedInv'
    BY <1>6 DEF EdgeUnchanged
  <2>2. EdgeInv' /\ KernelInv'
    BY <1>6 DEF EdgeUnchanged
  <2>3. EdgeIsWhatItSays' /\ KernelIsWhatItSays'
    BY <1>6 DEF EdgeUnchanged, Hash
  <2> QED
    BY <2>1, <2>2, <2>3
<1>7. ASSUME NEW p \in Runners, EdgeAsk(p) PROVE MirrorsInv'
  <2> DEFINE w == [at |-> "asked", targets |-> banned]
  <2>1. w \in Work /\ work' = [work EXCEPT ![p] = w]
    BY <1>7, <1>3, <1>4 DEF EdgeAsk, Work
  <2>2. work' \in [Runners -> Work] /\ work'[p] = w /\ \A q \in Runners \ {p} : work'[q] = work[q]
    BY <2>1, WorkStep
  <2>3. MirrorsTypeOK'
    BY <1>7, <1>1, <1>3, <2>2 DEF EdgeAsk, Work
  <2>4. LockedInv'
    BY <1>7, <2>2 DEF EdgeAsk
  <2>5. EdgeInv'
    BY <1>7, <2>2 DEF EdgeAsk
  <2>6. KernelInv'
    BY <1>7, <2>2 DEF EdgeAsk
  <2>7. EdgeIsWhatItSays' /\ KernelIsWhatItSays'
    BY <1>7 DEF EdgeAsk
  <2> QED
    BY <2>3, <2>4, <2>5, <2>6, <2>7
<1>8. ASSUME NEW p \in Runners, EdgeWrite(p) PROVE MirrorsInv'
  <2> DEFINE w == [at |-> "written", targets |-> banned]
  <2>1. w \in Work /\ work' = [work EXCEPT ![p] = w]
    BY <1>8, <1>3, <1>4 DEF EdgeWrite, Work
  <2>2. work' \in [Runners -> Work] /\ work'[p] = w /\ \A q \in Runners \ {p} : work'[q] = work[q]
    BY <2>1, WorkStep
  <2>3. MirrorsTypeOK'
    BY <1>8, <1>1, <1>3, <2>2 DEF EdgeWrite, Work
  <2>4. LockedInv'
    BY <1>8, <2>2 DEF EdgeWrite
  <2>5. EdgeInv'
    BY <1>8, <2>2 DEF EdgeWrite
  <2>6. KernelInv'
    BY <1>8, <2>2 DEF EdgeWrite
  <2>7. EdgeIsWhatItSays' /\ KernelIsWhatItSays'
    BY <1>8 DEF EdgeWrite
  <2> QED
    BY <2>3, <2>4, <2>5, <2>6, <2>7
<1>9. ASSUME NEW p \in Runners, EdgeCannot(p) PROVE MirrorsInv'
  <2> DEFINE w == NoWork
  <2>1. w \in Work /\ work' = [work EXCEPT ![p] = w]
    BY <1>9, <1>3, <1>4 DEF EdgeCannot, Work
  <2>2. work' \in [Runners -> Work] /\ work'[p] = w /\ \A q \in Runners \ {p} : work'[q] = work[q]
    BY <2>1, WorkStep
  <2>3. MirrorsTypeOK'
    BY <1>9, <1>1, <1>3, <2>2 DEF EdgeCannot, Work
  <2>4. LockedInv'
    BY <1>9, <2>2 DEF EdgeCannot
  <2>5. EdgeInv'
    BY <1>9, <2>2 DEF EdgeCannot
  <2>6. KernelInv'
    BY <1>9, <2>2 DEF EdgeCannot
  <2>7. EdgeIsWhatItSays' /\ KernelIsWhatItSays'
    BY <1>9 DEF EdgeCannot
  <2> QED
    BY <2>3, <2>4, <2>5, <2>6, <2>7
<1>10. ASSUME NEW p \in Runners, EdgeReload(p) PROVE MirrorsInv'
  <2>1. PICK at \in {"reloaded", "failed"} :
            work' = [work EXCEPT ![p].at = at] /\ (at = "reloaded" => live' = region)
    BY <1>10 DEF EdgeReload
  <2> DEFINE w == [work[p] EXCEPT !.at = at]
  <2>2. w \in Work /\ w.at = at /\ w.targets = work[p].targets /\ work[p].at = "written"
    BY <1>10, <1>3 DEF EdgeReload, Work
  <2> HIDE DEF w
  <2>3. work' \in [Runners -> Work] /\ work'[p] = w /\ \A q \in Runners \ {p} : work'[q] = work[q]
    BY <2>1, <2>2, WorkStep DEF w
  <2>4. MirrorsTypeOK'
    BY <1>10, <1>1, <1>3, <2>3 DEF EdgeReload, Work
  <2>5. LockedInv'
    BY <1>10, <2>2, <2>3 DEF EdgeReload
  <2>6. EdgeInv'
    <3>1. \A q \in Runners \ {p} : work[q].at \in {Idle, "asked"}
      BY <2>2
    <3> QED
      BY <1>10, <2>1, <2>2, <2>3, <3>1 DEF EdgeReload
  <2>7. KernelInv'
    BY <1>10, <2>2, <2>3 DEF EdgeReload
  <2>8. EdgeIsWhatItSays' /\ KernelIsWhatItSays'
    BY <1>10 DEF EdgeReload
  <2> QED
    BY <2>4, <2>5, <2>6, <2>7, <2>8
<1>11. ASSUME NEW p \in Runners, EdgeRecord(p) PROVE MirrorsInv'
  <2> DEFINE w == NoWork
  <2>1. w \in Work /\ work' = [work EXCEPT ![p] = w]
    BY <1>11, <1>3, <1>4 DEF EdgeRecord, Work
  <2>2. work' \in [Runners -> Work] /\ work'[p] = w /\ \A q \in Runners \ {p} : work'[q] = work[q]
    BY <2>1, WorkStep
  <2>3. MirrorsTypeOK'
    BY <1>11, <1>1, <1>3, <2>2 DEF EdgeRecord, Work
  <2>4. LockedInv'
    BY <1>11, <2>2 DEF EdgeRecord
  <2>5. EdgeInv'
    BY <1>11, <2>2 DEF EdgeRecord
  <2>6. KernelInv'
    BY <1>11, <2>2 DEF EdgeRecord
  <2>7. EdgeIsWhatItSays' /\ KernelIsWhatItSays'
    BY <1>11 DEF EdgeRecord
  <2> QED
    BY <2>3, <2>4, <2>5, <2>6, <2>7
<1>12. ASSUME NEW p \in Runners, KernelUnchanged(p) PROVE MirrorsInv'
  <2>1. MirrorsTypeOK' /\ LockedInv'
    BY <1>12 DEF KernelUnchanged
  <2>2. EdgeInv' /\ KernelInv'
    BY <1>12 DEF KernelUnchanged
  <2>3. EdgeIsWhatItSays' /\ KernelIsWhatItSays'
    BY <1>12 DEF KernelUnchanged, Hash
  <2> QED
    BY <2>1, <2>2, <2>3
<1>13. ASSUME NEW p \in Runners, KernelDelete(p) PROVE MirrorsInv'
  <2> DEFINE w == [at |-> "deleted", targets |-> banned]
  <2>1. w \in Work /\ work' = [work EXCEPT ![p] = w]
    BY <1>13, <1>3, <1>4 DEF KernelDelete, Work
  <2>2. work' \in [Runners -> Work] /\ work'[p] = w /\ \A q \in Runners \ {p} : work'[q] = work[q]
    BY <2>1, WorkStep
  <2>3. MirrorsTypeOK'
    BY <1>13, <1>1, <1>3, <2>2 DEF KernelDelete, Work
  <2>4. LockedInv'
    BY <1>13, <2>2 DEF KernelDelete
  <2>5. EdgeInv'
    BY <1>13, <2>2 DEF KernelDelete
  <2>6. KernelInv'
    BY <1>13, <2>2 DEF KernelDelete, Hash, Runners
  <2>7. EdgeIsWhatItSays' /\ KernelIsWhatItSays'
    BY <1>13 DEF KernelDelete
  <2> QED
    BY <2>3, <2>4, <2>5, <2>6, <2>7
<1>14. ASSUME NEW p \in Runners, KernelApply(p) PROVE MirrorsInv'
  <2> DEFINE w == NoWork
  <2>1. w \in Work /\ work' = [work EXCEPT ![p] = w]
    BY <1>14, <1>3, <1>4 DEF KernelApply, Work
  <2>2. work' \in [Runners -> Work] /\ work'[p] = w /\ \A q \in Runners \ {p} : work'[q] = work[q]
    BY <2>1, WorkStep
  <2>3. MirrorsTypeOK'
    BY <1>14, <1>1, <1>3, <2>2 DEF KernelApply, Work, Keep, Nft
  <2>4. LockedInv'
    BY <1>14, <2>2 DEF KernelApply
  <2>5. EdgeInv'
    BY <1>14, <2>2 DEF KernelApply
  <2>6. KernelInv'
    BY <1>14, <2>2 DEF KernelApply, Keep, Nft, Runners
  <2>7. EdgeIsWhatItSays' /\ KernelIsWhatItSays'
    BY <1>14 DEF KernelApply
  <2> QED
    BY <2>3, <2>4, <2>5, <2>6, <2>7
<1>15. ASSUME NEW p \in Runners, Die(p) PROVE MirrorsInv'
  <2> DEFINE w == NoWork
  <2>1. w \in Work /\ work' = [work EXCEPT ![p] = w]
    BY <1>15, <1>3, <1>4 DEF Die, Work
  <2>2. work' \in [Runners -> Work] /\ work'[p] = w /\ \A q \in Runners \ {p} : work'[q] = work[q]
    BY <2>1, WorkStep
  <2>3. MirrorsTypeOK'
    BY <1>15, <1>1, <1>3, <2>2 DEF Die, Work
  <2>4. LockedInv'
    BY <1>15, <2>2 DEF Die
  <2>5. EdgeInv'
    BY <1>15, <2>2 DEF Die
  <2>6. KernelInv'
    BY <1>15, <2>2 DEF Die
  <2>7. EdgeIsWhatItSays' /\ KernelIsWhatItSays'
    BY <1>15 DEF Die
  <2> QED
    BY <2>3, <2>4, <2>5, <2>6, <2>7
<1>16. ASSUME OtherReload PROVE MirrorsInv'
  BY <1>16, <1>1 DEF OtherReload, Hash
<1>17. ASSUME Backup PROVE MirrorsInv'
  BY <1>17, <1>1 DEF Backup, Hash
<1>18. ASSUME RestoreBackup PROVE MirrorsInv'
  BY <1>18, <1>1 DEF RestoreBackup, Hash
<1>19. ASSUME UNCHANGED mirrorVars PROVE MirrorsInv'
  <2>1. MirrorsTypeOK'
    BY <1>19 DEF mirrorVars
  <2>2. LockedInv'
    BY <1>19 DEF mirrorVars
  <2>3. EdgeInv' /\ KernelInv'
    BY <1>19 DEF mirrorVars
  <2>4. EdgeIsWhatItSays' /\ KernelIsWhatItSays'
    BY <1>19 DEF mirrorVars
  <2> QED
    BY <2>1, <2>3, <2>4, <2>2
<1> QED
  BY <1>5, <1>6, <1>7, <1>8, <1>9, <1>10, <1>11, <1>12, <1>13, <1>14, <1>15, <1>16, <1>17, <1>18,
    <1>19
  DEF MirrorsNext

(***************************************************************************)
(* "A written-but-unreloaded region retries on the next tick even though   *)
(* its content is unchanged", of edgeBans.refresh(), and the early return  *)
(* of kernelBans.refresh(): a refresh that finds nothing to do leaves what *)
(* is enforced equal to the bans, for any set of addresses, however many   *)
(* bans come and go and refreshes fail, with the exceptions the two        *)
(* properties name.                                                        *)
(***************************************************************************)
THEOREM MirrorsAreTrue ==
    ASSUME MirrorsAssumption
    PROVE  MirrorsSpec => [](EdgeIsWhatItSays /\ KernelIsWhatItSays)
<1>1. MirrorsInit => MirrorsInv
  <2> SUFFICES ASSUME MirrorsInit PROVE MirrorsInv
    OBVIOUS
  <2>1. \A p \in Runners : work[p] = NoWork /\ work[p].at = Idle
    BY DEF MirrorsInit, NoWork
  <2>2. MirrorsTypeOK
    <3>1. 0 \in 0..MaxChanges /\ 0 \in 0..MaxTroubles
      BY DEF MirrorsAssumption
    <3>2. NoWork \in Work /\ work \in [Runners -> Work]
      BY DEF MirrorsInit, NoWork, Contents, Work
    <3> QED
      BY <3>1, <3>2 DEF MirrorsInit, MirrorsTypeOK, Contents, Nothing, Work
  <2>3. LockedInv /\ EdgeInv /\ KernelInv
    BY <2>1 DEF MirrorsInit, MirrorsAssumption, LockedInv, EdgeInv, KernelInv
  <2>4. EdgeIsWhatItSays /\ KernelIsWhatItSays
    BY DEF MirrorsInit, Nothing, EdgeIsWhatItSays, KernelIsWhatItSays
  <2> QED
    BY <2>2, <2>3, <2>4 DEF MirrorsInv
<1>2. MirrorsInv /\ [MirrorsNext]_mirrorVars => MirrorsInv'
  BY MirrorsStep
<1>3. MirrorsInv => EdgeIsWhatItSays /\ KernelIsWhatItSays
  BY DEF MirrorsInv
<1> QED
  BY <1>1, <1>2, <1>3, PTL DEF MirrorsSpec

-----------------------------------------------------------------------------
(* The reader of the audit log.                                            *)

\* All pieces of a row's line are in a part of a file.
Has(f, r, first, last) == \A i \in 1..Pieces[r] : \E k \in first..last : f[k] = <<r, i>>

\* No line goes on beyond this place of a file.
Boundary(f, at) == at = 0 \/ EndsLine(f[at])

\* Of two pieces the second one is `d` further in the same line, or of a later row.
Further(u, v, d) == v[1] = u[1] /\ v[2] = u[2] + d
Ended(f, first, last) == \E k \in first..last : EndsLine(f[k])

\* Lines are written one after the other and piece by piece; the first one in the file may
\* have lost its beginning.
FileInv ==
    /\ audit_log \in Seq(Rows \X Nat)
    /\ \A i \in 1..Len(audit_log) : audit_log[i][2] \in 1..Pieces[audit_log[i][1]]
    /\ \A i, j \in 1..Len(audit_log) : i < j =>
          \/ Further(audit_log[i], audit_log[j], j - i)
          \/ audit_log[i][1] < audit_log[j][1] /\ Ended(audit_log, i, j - 1)

NextInv ==
    /\ next \in Nat \X Nat /\ next[2] >= 1
    /\ next[1] \in Rows => next[2] <= Pieces[next[1]]
    /\ \A i \in 1..Len(audit_log) :
          \/ Further(audit_log[i], next, Len(audit_log) + 1 - i)
          \/ audit_log[i][1] < next[1] /\ Ended(audit_log, i, Len(audit_log))

\* An offset of a file in its present life is between two lines, and the rows before it are
\* in the table.
Stored(o, f, life, known) ==
    /\ o \in Offsets /\ o.of <= life
    /\ o.of = life =>
          /\ o.at <= Len(f) /\ Boundary(f, o.at)
          /\ \A r \in Rows : Has(f, r, 1, o.at) => r \in known

OffsetsInv ==
    /\ Stored(saved, audit_log, truncations, request_log)
    /\ \A p \in Readers :
          /\ lastReadOffset[p] # Unread =>
                Stored(lastReadOffset[p], audit_log, truncations, request_log)
          /\ reading[p] # NotReading =>
                Stored(reading[p], audit_log, truncations, request_log)

ReaderInv ==
    /\ FileInv /\ NextInv /\ OffsetsInv
    /\ truncations \in 0..MaxTruncations /\ starts \in 0..MaxStarts
    /\ request_log \subseteq Rows
    /\ lastReadOffset \in [Readers -> Offsets \cup {Unread}]
    /\ reading \in [Readers -> Offsets \cup {NotReading}]

ReaderSpec == ReaderInit /\ [][ReaderNext]_readerVars

\* The rows in a part of a file.
LEMMA RowsBetween ==
    ASSUME NEW f \in Seq(Rows \X Nat), NEW m \in Nat, NEW n \in 0..Len(f), m >= 1
    PROVE  RowsIn(SubSeq(f, m, n)) = {r \in Rows : Has(f, r, m, n)}
<1> DEFINE t == SubSeq(f, m, n)
<1>1. t \in Seq(Rows \X Nat) /\ Len(t) = IF m <= n THEN n - m + 1 ELSE 0
  OBVIOUS
<1>2. \A k \in 1..Len(t) : t[k] = f[k + m - 1] /\ k + m - 1 \in m..n
  BY <1>1
<1>3. \A k \in m..n : k - m + 1 \in 1..Len(t) /\ t[k - m + 1] = f[k]
  <2> SUFFICES ASSUME NEW k \in m..n PROVE k - m + 1 \in 1..Len(t) /\ t[k - m + 1] = f[k]
    OBVIOUS
  <2>1. k - m + 1 \in 1..Len(t) /\ (k - m + 1) + m - 1 = k
    BY <1>1
  <2> QED
    BY <1>2, <2>1
<1>4. DOMAIN t = 1..Len(t)
  BY <1>1
<1> HIDE DEF t
<1>5. \A x : (\E k \in DOMAIN t : t[k] = x) <=> \E k \in m..n : f[k] = x
  BY <1>2, <1>3, <1>4
<1>6. RowsIn(t) = {r \in Rows : Has(f, r, m, n)}
  BY <1>5 DEF RowsIn, Has
<1> QED
  BY <1>6 DEF t

\* How far a chunk is consumed: to its last newline, or nowhere.
LEMMA ConsumedFacts ==
    ASSUME ReaderAssumption, FileInv, NEW from \in Nat
    PROVE  /\ ConsumedTo(from) \in Nat
           /\ \/ ConsumedTo(from) = from
              \/ /\ from < ConsumedTo(from) /\ ConsumedTo(from) <= Len(audit_log)
                 /\ EndsLine(audit_log[ConsumedTo(from)])
           /\ \A i \in from + 1..Len(audit_log) :
                 i <= from + MAX_READ /\ EndsLine(audit_log[i]) => i <= ConsumedTo(from)
<1> DEFINE n == MinOf(from + MAX_READ, Len(audit_log))
           S == {from} \cup {i \in from + 1..n : EndsLine(audit_log[i])}
<1>1. MAX_READ \in Nat /\ Len(audit_log) \in Nat
  BY DEF ReaderAssumption, FileInv
<1>2. n \in Nat /\ n <= from + MAX_READ /\ n <= Len(audit_log)
      /\ \A i \in Nat : i <= from + MAX_READ /\ i <= Len(audit_log) => i <= n
  BY <1>1 DEF MinOf
<1>3. ConsumedTo(from) = Max(S)
  BY DEF ConsumedTo
<1> HIDE DEF n
<1>4. S \in SUBSET (0..from + MAX_READ) /\ S # {}
  BY <1>1, <1>2
<1>5. Max(S) \in S /\ \A y \in S : y <= Max(S)
  <2>1. from + MAX_READ \in Nat
    BY <1>1
  <2> QED
    BY <1>4, <2>1, LargestNumber
<1>6. ASSUME NEW i \in from + 1..Len(audit_log), i <= from + MAX_READ, EndsLine(audit_log[i])
      PROVE  i <= ConsumedTo(from)
  <2>1. i \in S
    BY <1>1, <1>2, <1>6
  <2> QED
    BY <1>3, <1>5, <2>1
<1>7. \/ ConsumedTo(from) = from
      \/ /\ from < ConsumedTo(from) /\ ConsumedTo(from) <= Len(audit_log)
         /\ EndsLine(audit_log[ConsumedTo(from)])
  <2> HIDE DEF S
  <2>1. ASSUME NEW x \in S PROVE x = from \/ (from < x /\ x <= Len(audit_log)
                                              /\ EndsLine(audit_log[x]))
    BY <1>1, <1>2 DEF S
  <2> QED
    BY <1>3, <1>5, <2>1
<1>8. ConsumedTo(from) \in Nat
  BY <1>1, <1>3, <1>4, <1>5
<1> QED
  BY <1>6, <1>7, <1>8

\* The last piece of a row comes after its others.
LEMMA PiecesBefore ==
    ASSUME FileInv, ReaderAssumption, NEW r \in Rows, NEW last \in 1..Len(audit_log),
           audit_log[last] = <<r, Pieces[r]>>,
           NEW k \in 1..Len(audit_log), NEW i \in 1..Pieces[r], audit_log[k] = <<r, i>>
    PROVE  k <= last
<1> SUFFICES ASSUME last < k PROVE FALSE
  OBVIOUS
<1>1. r \in Nat /\ Pieces[r] \in Nat
  BY DEF ReaderAssumption
<1>2. \/ Further(audit_log[last], audit_log[k], k - last)
      \/ audit_log[last][1] < audit_log[k][1]
  BY DEF FileInv
<1> QED
  BY <1>1, <1>2 DEF Further

\* No line is cut by a place between two lines: what is before another place is before
\* this one, or between the two.
LEMMA BoundariesDivide ==
    ASSUME FileInv, ReaderAssumption, NEW r \in Rows,
           NEW to \in 0..Len(audit_log), NEW from \in 0..to, Boundary(audit_log, from),
           Has(audit_log, r, 1, to)
    PROVE  Has(audit_log, r, 1, from) \/ Has(audit_log, r, from + 1, to)
<1>1. r \in Nat /\ Pieces[r] \in Nat \ {0} /\ Len(audit_log) \in Nat
  BY DEF ReaderAssumption, FileInv
<1>2. Pieces[r] \in 1..Pieces[r]
  BY <1>1
<1>3. PICK last \in 1..to : audit_log[last] = <<r, Pieces[r]>>
  BY <1>2 DEF Has
<1>4. last \in 1..Len(audit_log)
  BY <1>1, <1>3
<1>5. CASE last <= from
  <2>1. ASSUME NEW i \in 1..Pieces[r] PROVE \E k \in 1..from : audit_log[k] = <<r, i>>
    <3>1. PICK k \in 1..to : audit_log[k] = <<r, i>>
      BY DEF Has
    <3>2. k \in 1..Len(audit_log)
      BY <1>1, <3>1
    <3>3. k <= last
      BY <1>3, <1>4, <3>1, <3>2, PiecesBefore
    <3>4. k \in 1..from
      BY <1>1, <1>5, <3>2, <3>3
    <3> QED
      BY <3>1, <3>4
  <2> QED
    BY <2>1 DEF Has
<1>6. CASE from < last
  <2>1. ASSUME NEW i \in 1..Pieces[r] PROVE \E k \in from + 1..to : audit_log[k] = <<r, i>>
    <3>1. PICK k \in 1..to : audit_log[k] = <<r, i>>
      BY DEF Has
    <3>2. k \in 1..Len(audit_log)
      BY <1>1, <3>1
    <3>3. ASSUME k <= from PROVE FALSE
      <4>1. from \in 1..Len(audit_log) /\ EndsLine(audit_log[from])
        BY <1>1, <3>2, <3>3 DEF Boundary
      <4>2. /\ audit_log[from] \in Rows \X Nat /\ audit_log[from][1] \in Nat
            /\ audit_log[from][2] \in Nat
        <5>1. audit_log \in Seq(Rows \X Nat)
          BY DEF FileInv
        <5>2. audit_log[from] \in Rows \X Nat
          BY <4>1, <5>1
        <5> QED
          BY <5>2 DEF ReaderAssumption
      <4>3. \/ Further(audit_log[from], audit_log[last], last - from)
            \/ audit_log[from][1] < audit_log[last][1]
        BY <1>4, <1>6, <4>1 DEF FileInv
      <4>4. \/ k = from
            \/ Further(audit_log[k], audit_log[from], from - k)
            \/ audit_log[k][1] < audit_log[from][1]
        BY <3>2, <3>3, <4>1 DEF FileInv
      <4>5. audit_log[last][1] = r /\ audit_log[last][2] = Pieces[r] /\ audit_log[k][1] = r
        BY <1>3, <3>1
      <4>6. audit_log[from][1] = r
        BY <1>1, <4>2, <4>3, <4>4, <4>5 DEF Further
      <4>7. audit_log[from][2] = Pieces[r]
        BY <4>1, <4>6 DEF EndsLine
      <4>8. from \in Nat /\ last \in Nat
        BY <1>4, <4>1
      <4> QED
        BY <1>1, <1>6, <4>3, <4>5, <4>6, <4>7, <4>8 DEF Further
    <3>4. k \in from + 1..to
      BY <1>1, <3>1, <3>2, <3>3
    <3> QED
      BY <3>1, <3>4
  <2> QED
    BY <2>1 DEF Has
<1> QED
  BY <1>1, <1>4, <1>5, <1>6

\* Nothing is consumed only in front of a line that is too long, or where no line ends.
LEMMA StopsAtLongLines ==
    ASSUME FileInv, ReaderAssumption, NEW from \in Nat, ConsumedTo(from) = from,
           NEW i \in from + 1..Len(audit_log), EndsLine(audit_log[i])
    PROVE  LongLine(from)
<1> DEFINE a == from + 1
           b == from + MAX_READ + 1
<1>1. MAX_READ \in Nat \ {0} /\ Len(audit_log) \in Nat /\ i \in Nat
  BY DEF ReaderAssumption, FileInv
<1>2. \A j \in from + 1..Len(audit_log) : EndsLine(audit_log[j]) => from + MAX_READ < j
  <2> SUFFICES ASSUME NEW j \in from + 1..Len(audit_log), EndsLine(audit_log[j]),
                      ~(from + MAX_READ < j)
               PROVE  FALSE
    OBVIOUS
  <2>1. j \in Nat /\ j > from /\ j <= from + MAX_READ
    BY <1>1
  <2>2. j <= ConsumedTo(from)
    BY <2>1, ConsumedFacts
  <2> QED
    BY <2>1, <2>2
<1>3. from + MAX_READ < i
  BY <1>2
<1>4. a \in 1..Len(audit_log) /\ b \in 1..Len(audit_log) /\ a < b
  BY <1>1, <1>3
<1>5. ~Ended(audit_log, a, b - 1)
  <2> SUFFICES ASSUME NEW k \in a..b - 1, EndsLine(audit_log[k]) PROVE FALSE
    BY DEF Ended
  <2>1. k \in from + 1..Len(audit_log) /\ k <= from + MAX_READ
    BY <1>1, <1>4
  <2> QED
    BY <1>1, <1>2, <2>1
<1>6. Further(audit_log[a], audit_log[b], b - a)
  BY <1>4, <1>5 DEF FileInv
<1>7. audit_log[a][2] >= 1 /\ audit_log[a][2] \in Nat /\ audit_log[b][2] \in Nat
  BY <1>4 DEF FileInv
<1>8. audit_log[b][2] > MAX_READ
  BY <1>1, <1>6, <1>7 DEF Further
<1>9. audit_log[b][2] <= Pieces[audit_log[b][1]] /\ Pieces[audit_log[b][1]] \in Nat
  <2>1. audit_log \in Seq(Rows \X Nat) /\ audit_log[b][2] \in 1..Pieces[audit_log[b][1]]
    BY <1>4 DEF FileInv
  <2>2. audit_log[b] \in Rows \X Nat
    BY <1>4, <2>1
  <2>3. Pieces[audit_log[b][1]] \in Nat
    BY <2>2 DEF ReaderAssumption
  <2> QED
    BY <2>1, <2>3
<1>10. Pieces[audit_log[b][1]] > MAX_READ
  BY <1>1, <1>7, <1>8, <1>9
<1>11. b \in from + 1..Len(audit_log)
  BY <1>1, <1>4
<1> QED
  BY <1>10, <1>11 DEF LongLine

-----------------------------------------------------------------------------
(* The steps of the reader.                                                *)

\* A table with more rows, a file with more pieces.
LEMMA StoredStays ==
    ASSUME NEW o, NEW f, NEW life, NEW few, NEW many, Stored(o, f, life, few), few \subseteq many
    PROVE  Stored(o, f, life, many)
  BY DEF Stored

LEMMA AppendKeepsStored ==
    ASSUME NEW f \in Seq(Rows \X Nat), NEW piece \in Rows \X Nat, NEW life, NEW known, NEW o,
           Stored(o, f, life, known)
    PROVE  Stored(o, Append(f, piece), life, known)
<1> SUFFICES ASSUME o.of = life
             PROVE  /\ o.at <= Len(Append(f, piece)) /\ Boundary(Append(f, piece), o.at)
                    /\ \A r \in Rows : Has(Append(f, piece), r, 1, o.at) => r \in known
  BY DEF Stored
<1>1. o.at \in Nat /\ o.at <= Len(f) /\ Len(f) \in Nat
  BY DEF Stored, Offsets
<1>2. \A k \in 1..o.at : Append(f, piece)[k] = f[k]
  BY <1>1
<1>3. Len(Append(f, piece)) = Len(f) + 1
  OBVIOUS
<1>4. Boundary(Append(f, piece), o.at)
  <2>1. o.at = 0 \/ o.at \in 1..o.at
    BY <1>1
  <2> QED
    BY <1>2, <2>1 DEF Stored, Boundary
<1>5. \A r \in Rows : Has(Append(f, piece), r, 1, o.at) => Has(f, r, 1, o.at)
  BY <1>2 DEF Has
<1>6. o.at <= Len(Append(f, piece))
  BY <1>1, <1>3
<1> QED
  BY <1>4, <1>5, <1>6 DEF Stored

LEMMA ReaderAppends ==
    ASSUME ReaderAssumption, ReaderInv, Append1 PROVE ReaderInv'
<1> DEFINE L == Len(audit_log)
           f == Append(audit_log, next)
<1>1. /\ audit_log \in Seq(Rows \X Nat) /\ L \in Nat /\ next \in Rows \X Nat
      /\ next[1] \in Nat /\ next[2] \in Nat /\ next[2] >= 1 /\ next[2] <= Pieces[next[1]]
      /\ Pieces[next[1]] \in Nat
  BY DEF ReaderInv, FileInv, NextInv, Append1, ReaderAssumption
<1>2. f \in Seq(Rows \X Nat) /\ Len(f) = L + 1 /\ f[L + 1] = next
      /\ \A i \in 1..L : f[i] = audit_log[i]
  BY <1>1
<1>3. audit_log' = f
  BY DEF Append1
<1>4. OffsetsInv'
  <2>1. \A o : Stored(o, audit_log, truncations, request_log)
                  => Stored(o, f, truncations, request_log)
    BY <1>1, AppendKeepsStored
  <2>2. UNCHANGED <<truncations, request_log, saved, lastReadOffset, reading>>
    BY DEF Append1
  <2> QED
    BY <1>3, <2>1, <2>2 DEF ReaderInv, OffsetsInv
<1> HIDE DEF f
<1>5. FileInv'
  <2>1. ASSUME NEW i \in 1..L + 1 PROVE f[i][2] \in 1..Pieces[f[i][1]]
    <3>1. CASE i \in 1..L
      BY <1>2, <3>1 DEF ReaderInv, FileInv
    <3>2. CASE i = L + 1
      BY <1>1, <1>2, <3>2
    <3> QED
      BY <1>1, <3>1, <3>2
  <2>2. ASSUME NEW i \in 1..L + 1, NEW j \in 1..L + 1, i < j
        PROVE  \/ Further(f[i], f[j], j - i)
               \/ f[i][1] < f[j][1] /\ Ended(f, i, j - 1)
    <3>1. i \in 1..L /\ f[i] = audit_log[i]
      BY <1>1, <1>2, <2>2
    <3>2. \A last \in 1..L : Ended(audit_log, i, last) => Ended(f, i, last)
      <4> SUFFICES ASSUME NEW last \in 1..L, NEW k \in i..last, EndsLine(audit_log[k])
                   PROVE  EndsLine(f[k])
        BY DEF Ended
      <4>1. k \in 1..L
        BY <1>1, <3>1
      <4> QED
        BY <1>2, <4>1
    <3>3. CASE j \in 1..L
      <4>1. j - 1 \in 1..L /\ f[j] = audit_log[j]
        <5>1. i \in Nat /\ j \in Nat /\ 1 <= i /\ j <= L
          BY <3>1, <3>3
        <5>2. j - 1 \in 1..L
          BY <1>1, <2>2, <5>1
        <5> QED
          BY <1>2, <3>3, <5>2
      <4> QED
        BY <2>2, <3>1, <3>2, <3>3, <4>1 DEF ReaderInv, FileInv
    <3>4. CASE j = L + 1
      <4>1. j - 1 = L /\ L \in 1..L /\ f[j] = next
        BY <1>1, <1>2, <3>1, <3>4
      <4> QED
        BY <3>1, <3>2, <3>4, <4>1 DEF ReaderInv, NextInv
    <3> QED
      BY <1>1, <3>3, <3>4
  <2> QED
    BY <1>2, <1>3, <2>1, <2>2 DEF FileInv
<1>6. NextInv'
  <2>1. next' = IF next[2] = Pieces[next[1]] THEN <<next[1] + 1, 1>>
                ELSE <<next[1], next[2] + 1>>
    BY DEF Append1
  <2>2. next' \in Nat \X Nat /\ next'[2] >= 1
    BY <1>1, <2>1
  <2>3. next'[1] \in Rows => next'[2] <= Pieces[next'[1]]
    <3>1. \A r \in Rows : Pieces[r] >= 1
      BY DEF ReaderAssumption
    <3> QED
      BY <1>1, <2>1, <3>1
  <2>4. ASSUME NEW i \in 1..L + 1
        PROVE  \/ Further(f[i], next', L + 2 - i)
               \/ f[i][1] < next'[1] /\ Ended(f, i, L + 1)
    <3>1. CASE next[2] = Pieces[next[1]]
      <4>1. next' = <<next[1] + 1, 1>> /\ EndsLine(f[L + 1])
        BY <1>2, <2>1, <3>1 DEF EndsLine
      <4>2. L + 1 \in i..L + 1
        BY <1>1
      <4>3. Ended(f, i, L + 1)
        BY <4>1, <4>2 DEF Ended
      <4>4. f[i][1] \in Nat /\ f[i][1] <= next[1]
        <5>1. CASE i \in 1..L
          <6>1. audit_log[i] \in Rows \X Nat
            BY <1>1, <5>1
          <6>2. audit_log[i][1] \in Nat
            BY <6>1 DEF ReaderAssumption
          <6>3. audit_log[i][1] <= next[1]
            BY <1>1, <5>1, <6>2 DEF ReaderInv, NextInv, Further
          <6>4. f[i] = audit_log[i]
            BY <1>2, <5>1
          <6> QED
            BY <6>2, <6>3, <6>4
        <5>2. CASE i = L + 1
          BY <1>1, <1>2, <5>2
        <5>3. i \in 1..L \/ i = L + 1
          BY <1>1
        <5> QED
          BY <5>1, <5>2, <5>3
      <4> QED
        BY <1>1, <4>1, <4>3, <4>4
    <3>2. CASE next[2] # Pieces[next[1]]
      <4>1. next' = <<next[1], next[2] + 1>>
        BY <2>1, <3>2
      <4>2. CASE i = L + 1
        BY <1>1, <1>2, <4>1, <4>2 DEF Further
      <4>3. CASE i \in 1..L
        <5>1. f[i] = audit_log[i] /\ audit_log[i] \in Rows \X Nat
          BY <1>1, <1>2, <4>3
        <5>2. CASE Further(audit_log[i], next, L + 1 - i)
          <6>1. /\ audit_log[i][2] \in Nat /\ i \in Nat
                /\ next[1] = audit_log[i][1] /\ next[2] = audit_log[i][2] + (L + 1 - i)
            BY <4>3, <5>1, <5>2 DEF Further
          <6>2. next[2] + 1 = audit_log[i][2] + (L + 2 - i)
            BY <1>1, <6>1
          <6> QED
            BY <4>1, <5>1, <6>1, <6>2 DEF Further
        <5>3. CASE audit_log[i][1] < next[1] /\ Ended(audit_log, i, L)
          <6>1. \A k \in i..L : k \in 1..L /\ k \in i..L + 1
            BY <1>1, <4>3
          <6>2. Ended(f, i, L + 1)
            BY <1>2, <5>3, <6>1 DEF Ended
          <6> QED
            BY <4>1, <5>1, <5>3, <6>2
        <5> QED
          BY <4>3, <5>2, <5>3 DEF ReaderInv, NextInv
      <4> QED
        BY <1>1, <4>2, <4>3
    <3> QED
      BY <3>1, <3>2
  <2>5. Len(audit_log') = L + 1 /\ \A i \in Nat : Len(audit_log') + 1 - i = L + 2 - i
    BY <1>1, <1>2, <1>3
  <2> QED
    BY <1>3, <2>2, <2>3, <2>4, <2>5 DEF NextInv
<1> QED
  BY <1>4, <1>5, <1>6 DEF ReaderInv, Append1

\* loadOffset() returns an offset as good as those it is made from.
LEMMA OffsetsLoaded ==
    ASSUME ReaderAssumption, ReaderInv, NEW p \in Readers
    PROVE  Stored(loadOffset(p), audit_log, truncations, request_log)
<1>1. CASE lastReadOffset[p] # Unread
  BY <1>1 DEF loadOffset, ReaderInv, OffsetsInv
<1>2. CASE lastReadOffset[p] = Unread
  <2> DEFINE at == MinOf(saved.at, Len(audit_log))
             o == [saved EXCEPT !.at = at]
  <2>1. loadOffset(p) = o
    BY <1>2 DEF loadOffset
  <2>2. Stored(saved, audit_log, truncations, request_log) /\ Len(audit_log) \in Nat
    BY DEF ReaderInv, OffsetsInv, FileInv
  <2>3. saved \in Offsets /\ saved.at \in Nat
    BY <2>2 DEF Stored, Offsets
  <2>4. at \in Nat /\ (saved.at <= Len(audit_log) => at = saved.at)
    BY <2>2, <2>3 DEF MinOf
  <2> HIDE DEF at
  <2>5. o \in Offsets /\ o.at = at /\ o.of = saved.of
    BY <2>3, <2>4 DEF Offsets
  <2> HIDE DEF o
  <2> QED
    BY <2>1, <2>2, <2>4, <2>5 DEF Stored
<1> QED
  BY <1>1, <1>2

\* So does starting over, and from there the file goes on.
LEMMA OffsetsStartOver ==
    ASSUME ReaderAssumption, ReaderInv, NEW o, Stored(o, audit_log, truncations, request_log)
    PROVE  /\ Stored(StartOver(o), audit_log, truncations, request_log)
           /\ StartOver(o).at <= Len(audit_log)
           /\ StartOver(o) = o \/ (StartOver(o).at = 0 /\ Len(audit_log) < o.at)
<1>1. Len(audit_log) \in Nat /\ o.at \in Nat /\ truncations \in 0..MaxTruncations
  BY DEF ReaderInv, FileInv, Stored, Offsets
<1>2. CASE Len(audit_log) < o.at
  <2> DEFINE z == [at |-> 0, of |-> truncations]
  <2>1. StartOver(o) = z
    BY <1>2 DEF StartOver
  <2>2. z \in Offsets /\ z.at = 0 /\ z.of = truncations
    BY <1>1 DEF Offsets
  <2>3. ASSUME NEW r \in Rows, Has(audit_log, r, 1, 0) PROVE FALSE
    <3>1. 1 \in 1..Pieces[r]
      BY DEF ReaderAssumption
    <3> QED
      BY <2>3, <3>1 DEF Has
  <2> HIDE DEF z
  <2> QED
    BY <1>1, <1>2, <2>1, <2>2, <2>3 DEF Stored, Boundary
<1>3. CASE ~(Len(audit_log) < o.at)
  BY <1>1, <1>3 DEF StartOver
<1> QED
  BY <1>2, <1>3

\* What a chunk adds to the table makes the offset behind it as good as the one before it.
LEMMA ChunkIsStored ==
    ASSUME ReaderAssumption, ReaderInv, NEW from, from.at <= Len(audit_log),
           Stored(from, audit_log, truncations, request_log)
    PROVE  Stored([from EXCEPT !.at = ConsumedTo(from.at)], audit_log, truncations,
                  request_log \cup
                      RowsIn(SubSeq(audit_log, from.at + 1, ConsumedTo(from.at))))
<1> DEFINE c == ConsumedTo(from.at)
           to == [from EXCEPT !.at = c]
           added == RowsIn(SubSeq(audit_log, from.at + 1, c))
<1>1. from \in Offsets /\ from.at \in Nat /\ FileInv /\ audit_log \in Seq(Rows \X Nat)
  BY DEF Stored, Offsets, ReaderInv, FileInv
<1>2. /\ c \in Nat
      /\ c = from.at \/ (from.at < c /\ c <= Len(audit_log) /\ EndsLine(audit_log[c]))
  BY <1>1, ConsumedFacts
<1> HIDE DEF c
<1>3. to \in Offsets /\ to.at = c /\ to.of = from.of
  BY <1>1, <1>2 DEF Offsets
<1>4. c \in 0..Len(audit_log) /\ from.at \in 0..c /\ from.at + 1 \in Nat /\ from.at + 1 >= 1
  <2>1. Len(audit_log) \in Nat
    BY <1>1
  <2> QED
    BY <1>1, <1>2, <2>1
<1>5. added = {r \in Rows : Has(audit_log, r, from.at + 1, c)}
  BY <1>1, <1>4, RowsBetween
<1> HIDE DEF to, added
<1>6. ASSUME from.of = truncations
      PROVE  /\ c <= Len(audit_log) /\ Boundary(audit_log, c)
             /\ \A r \in Rows : Has(audit_log, r, 1, c) => r \in request_log \cup added
  <2>1. Boundary(audit_log, from.at)
        /\ \A r \in Rows : Has(audit_log, r, 1, from.at) => r \in request_log
    BY <1>6 DEF Stored
  <2>2. Boundary(audit_log, c)
    BY <1>2, <2>1 DEF Boundary
  <2>3. ASSUME NEW r \in Rows, Has(audit_log, r, 1, c) PROVE r \in request_log \cup added
    <3>1. Has(audit_log, r, 1, from.at) \/ Has(audit_log, r, from.at + 1, c)
      BY <1>1, <1>4, <2>1, <2>3, BoundariesDivide
    <3> QED
      BY <1>5, <2>1, <3>1
  <2> QED
    BY <1>4, <2>2, <2>3
<1>7. Stored(to, audit_log, truncations, request_log \cup added)
  BY <1>3, <1>6 DEF Stored
<1> QED
  BY <1>7 DEF to, added, c

LEMMA ReaderIngests ==
    ASSUME ReaderAssumption, ReaderInv, NEW p \in Readers, Ingest(p) PROVE ReaderInv'
<1> DEFINE o == loadOffset(p)
           from == StartOver(o)
           to == [from EXCEPT !.at = ConsumedTo(from.at)]
           more == request_log \cup RowsIn(SubSeq(audit_log, from.at + 1, to.at))
<1>1. /\ request_log' = more
      /\ lastReadOffset' = [lastReadOffset EXCEPT ![p] = o]
      /\ reading' = [reading EXCEPT ![p] = IF to.at # o.at THEN to ELSE NotReading]
      /\ UNCHANGED <<audit_log, truncations, next, saved, starts>>
  BY DEF Ingest
<1>2. Stored(o, audit_log, truncations, request_log)
  BY OffsetsLoaded
<1> HIDE DEF o
<1>3. Stored(from, audit_log, truncations, request_log) /\ from.at <= Len(audit_log)
  BY <1>2, OffsetsStartOver
<1> HIDE DEF from
<1>4. from \in Offsets
  BY <1>3 DEF Stored
<1>5. to.at = ConsumedTo(from.at)
  BY <1>4 DEF Offsets
<1>6. Stored(to, audit_log, truncations, more)
  BY <1>3, <1>5, ChunkIsStored
<1>7. request_log \subseteq more /\ more \subseteq Rows
  BY DEF ReaderInv, RowsIn
<1> HIDE DEF to, more
<1>8. \A x : Stored(x, audit_log, truncations, request_log)
                => Stored(x, audit_log, truncations, more)
  BY <1>7, StoredStays
<1>9. o \in Offsets /\ to \in Offsets
  BY <1>2, <1>6 DEF Stored
<1>10. /\ lastReadOffset' \in [Readers -> Offsets \cup {Unread}]
       /\ reading' \in [Readers -> Offsets \cup {NotReading}]
  BY <1>1, <1>9 DEF ReaderInv
<1>11. OffsetsInv'
  <2>1. Stored(saved', audit_log', truncations', request_log')
    BY <1>1, <1>8 DEF ReaderInv, OffsetsInv
  <2>2. ASSUME NEW q \in Readers, lastReadOffset'[q] # Unread
        PROVE  Stored(lastReadOffset'[q], audit_log', truncations', request_log')
    <3>1. CASE q = p
      <4>1. lastReadOffset'[q] = o
        BY <1>1, <3>1 DEF ReaderInv
      <4> QED
        BY <1>1, <1>2, <1>8, <4>1
    <3>2. CASE q # p
      <4>1. lastReadOffset'[q] = lastReadOffset[q]
        BY <1>1, <3>2 DEF ReaderInv
      <4> QED
        BY <1>1, <1>8, <2>2, <4>1 DEF ReaderInv, OffsetsInv
    <3> QED
      BY <3>1, <3>2
  <2>3. ASSUME NEW q \in Readers, reading'[q] # NotReading
        PROVE  Stored(reading'[q], audit_log', truncations', request_log')
    <3>1. CASE q = p
      <4>1. reading'[q] = to
        BY <1>1, <2>3, <3>1 DEF ReaderInv
      <4> QED
        BY <1>1, <1>6, <4>1
    <3>2. CASE q # p
      <4>1. reading'[q] = reading[q]
        BY <1>1, <3>2 DEF ReaderInv
      <4> QED
        BY <1>1, <1>8, <2>3, <4>1 DEF ReaderInv, OffsetsInv
    <3> QED
      BY <3>1, <3>2
  <2> QED
    BY <2>1, <2>2, <2>3 DEF OffsetsInv
<1>12. FileInv' /\ NextInv'
  BY <1>1 DEF ReaderInv, FileInv, NextInv, Ended, EndsLine
<1> QED
  BY <1>1, <1>7, <1>10, <1>11, <1>12 DEF ReaderInv

LEMMA ReaderSaves ==
    ASSUME ReaderAssumption, ReaderInv, NEW p \in Readers, SaveOffset(p) PROVE ReaderInv'
<1>1. /\ reading[p] # NotReading
      /\ lastReadOffset' = [lastReadOffset EXCEPT ![p] = reading[p]]
      /\ saved' \in {saved, reading[p]}
      /\ reading' = [reading EXCEPT ![p] = NotReading]
      /\ UNCHANGED <<audit_log, truncations, next, request_log, starts>>
  BY DEF SaveOffset
<1>2. Stored(reading[p], audit_log, truncations, request_log) /\ reading[p] \in Offsets
  BY <1>1 DEF ReaderInv, OffsetsInv, Stored
<1>3. /\ lastReadOffset' \in [Readers -> Offsets \cup {Unread}]
      /\ reading' \in [Readers -> Offsets \cup {NotReading}]
  BY <1>1, <1>2 DEF ReaderInv
<1>4. \A q \in Readers : /\ lastReadOffset'[q] \in {lastReadOffset[q], reading[p]}
                         /\ reading'[q] \in {reading[q], NotReading}
  BY <1>1 DEF ReaderInv
<1>5. OffsetsInv'
  BY <1>1, <1>2, <1>4 DEF ReaderInv, OffsetsInv
<1>6. FileInv' /\ NextInv'
  BY <1>1 DEF ReaderInv, FileInv, NextInv, Ended, EndsLine
<1> QED
  BY <1>1, <1>3, <1>5, <1>6 DEF ReaderInv

LEMMA ReaderStarts ==
    ASSUME ReaderAssumption, ReaderInv, NEW p \in Readers, Start(p) PROVE ReaderInv'
<1>1. /\ starts < MaxStarts /\ starts' = starts + 1
      /\ lastReadOffset' = [lastReadOffset EXCEPT ![p] = Unread]
      /\ reading' = [reading EXCEPT ![p] = NotReading]
      /\ UNCHANGED <<audit_log, truncations, next, request_log, saved>>
  BY DEF Start
<1>2. /\ lastReadOffset' \in [Readers -> Offsets \cup {Unread}]
      /\ reading' \in [Readers -> Offsets \cup {NotReading}]
  BY <1>1 DEF ReaderInv
<1>3. \A q \in Readers : /\ lastReadOffset'[q] \in {lastReadOffset[q], Unread}
                         /\ reading'[q] \in {reading[q], NotReading}
  BY <1>1 DEF ReaderInv
<1>4. OffsetsInv'
  BY <1>1, <1>3 DEF ReaderInv, OffsetsInv
<1>5. FileInv' /\ NextInv'
  BY <1>1 DEF ReaderInv, FileInv, NextInv, Ended, EndsLine
<1>6. starts' \in 0..MaxStarts
  BY <1>1 DEF ReaderInv, ReaderAssumption
<1> QED
  BY <1>1, <1>2, <1>4, <1>5, <1>6 DEF ReaderInv

LEMMA ReaderTruncates ==
    ASSUME ReaderAssumption, ReaderInv, Truncate PROVE ReaderInv'
<1>1. /\ truncations < MaxTruncations /\ truncations' = truncations + 1 /\ audit_log' = <<>>
      /\ UNCHANGED <<next, request_log, saved, lastReadOffset, reading, starts>>
  BY DEF Truncate
<1>2. truncations \in Nat /\ truncations' \in 0..MaxTruncations
  BY <1>1 DEF ReaderInv, ReaderAssumption
<1>3. \A o : Stored(o, audit_log, truncations, request_log)
                => Stored(o, <<>>, truncations', request_log)
  <2> SUFFICES ASSUME NEW o, Stored(o, audit_log, truncations, request_log)
               PROVE  Stored(o, <<>>, truncations', request_log)
    OBVIOUS
  <2>1. o \in Offsets /\ o.of <= truncations /\ o.of \in Nat
    BY DEF Stored, Offsets
  <2>2. o.of <= truncations' /\ o.of # truncations'
    BY <1>1, <1>2, <2>1
  <2> QED
    BY <2>1, <2>2 DEF Stored
<1>4. OffsetsInv'
  BY <1>1, <1>3 DEF ReaderInv, OffsetsInv
<1>5. FileInv' /\ NextInv'
  <2>1. audit_log' \in Seq(Rows \X Nat) /\ Len(audit_log') = 0
    BY <1>1
  <2> QED
    BY <1>1, <2>1 DEF ReaderInv, FileInv, NextInv
<1> QED
  BY <1>1, <1>2, <1>4, <1>5 DEF ReaderInv

-----------------------------------------------------------------------------
(* drainFile(): chunk after chunk.                                         *)

\* How far the first n chunks go.
Chunks ==
    CHOOSE to : to = [n \in 0..Len(audit_log) |-> IF n = 0 THEN 0 ELSE ConsumedTo(to[n - 1])]

LEMMA DrainReads ==
    ASSUME NEW p, Drain(p)
    PROVE  /\ request_log' =
                  request_log \cup RowsIn(SubSeq(audit_log, 1, Chunks[Len(audit_log)]))
           /\ UNCHANGED <<audit_log, truncations, next, saved, lastReadOffset, reading, starts>>
  BY DEF Drain, Chunks

\* There is such a function: one for n chunks is extended to n + 1.
LEMMA ChunksExist ==
    ASSUME NEW n \in Nat
    PROVE  \E to : to = [k \in 0..n |-> IF k = 0 THEN 0 ELSE ConsumedTo(to[k - 1])]
<1> DEFINE Are(f, m) == f = [k \in 0..m |-> IF k = 0 THEN 0 ELSE ConsumedTo(f[k - 1])]
           Bad == {m \in Nat : ~\E f : Are(f, m)}
<1>1. CASE Bad = {}
  BY <1>1
<1>2. CASE Bad # {}
  <2>1. PICK m \in Bad : \A k \in Bad : m <= k
    BY <1>2, LeastNumber
  <2>2. CASE m = 0
    <3> DEFINE f == [k \in 0..0 |-> 0]
    <3>1. Are(f, 0)
      OBVIOUS
    <3> QED
      BY <2>2, <3>1
  <2>3. CASE m # 0
    <3>1. m \in Nat /\ m - 1 \in Nat /\ m - 1 < m
      BY <2>3
    <3>2. m - 1 \notin Bad
      BY <2>1, <3>1
    <3>3. PICK f : Are(f, m - 1)
      BY <3>1, <3>2
    <3> DEFINE g == [k \in 0..m |-> IF k = m THEN ConsumedTo(f[m - 1]) ELSE f[k]]
    <3>4. \A k \in 0..m - 1 : f[k] = IF k = 0 THEN 0 ELSE ConsumedTo(f[k - 1])
      BY <3>3
    <3>5. ASSUME NEW k \in 0..m PROVE g[k] = IF k = 0 THEN 0 ELSE ConsumedTo(g[k - 1])
      <4>1. CASE k = 0
        <5>1. 0 \in 0..m - 1 /\ f[0] = 0
          BY <3>1, <3>4
        <5> QED
          BY <2>3, <4>1, <5>1
      <4>2. CASE k # 0
        <5>1. k - 1 \in 0..m /\ k - 1 # m /\ g[k - 1] = f[k - 1]
          BY <3>1, <4>2
        <5>2. CASE k = m
          BY <4>2, <5>1, <5>2
        <5>3. CASE k # m
          <6>1. k \in 0..m - 1
            BY <3>1, <5>3
          <6>2. f[k] = ConsumedTo(f[k - 1])
            BY <3>4, <4>2, <6>1
          <6> QED
            BY <4>2, <5>1, <5>3, <6>2
        <5> QED
          BY <5>2, <5>3
      <4> QED
        BY <4>1, <4>2
    <3> HIDE DEF g
    <3>6. g = [k \in 0..m |-> g[k]]
      BY DEF g
    <3>7. Are(g, m)
      BY <3>5, <3>6
    <3> QED
      BY <2>1, <3>7
  <2> QED
    BY <2>2, <2>3
<1> QED
  BY <1>1, <1>2

LEMMA ChunkByChunk ==
    ASSUME FileInv
    PROVE  \A n \in 0..Len(audit_log) :
              Chunks[n] = IF n = 0 THEN 0 ELSE ConsumedTo(Chunks[n - 1])
<1>1. Len(audit_log) \in Nat
  BY DEF FileInv
<1>2. Chunks = [n \in 0..Len(audit_log) |-> IF n = 0 THEN 0 ELSE ConsumedTo(Chunks[n - 1])]
  BY <1>1, ChunksExist DEF Chunks
<1> HIDE DEF Chunks
<1> QED
  BY <1>2

\* A line that is too long for a chunk is so from any place before it.
LEMMA LongFromTheStart ==
    ASSUME FileInv, NEW from \in Nat, LongLine(from) PROVE LongLine(0)
<1>1. Len(audit_log) \in Nat
  BY DEF FileInv
<1>2. \A i \in from + 1..Len(audit_log) : i \in 0 + 1..Len(audit_log)
  BY <1>1
<1> QED
  BY <1>2 DEF LongLine

\* Each chunk gets on, unless no line ends any more.
LEMMA ChunksGetOn ==
    ASSUME ReaderAssumption, FileInv, ~LongLine(0)
    PROVE  LET c == Chunks[Len(audit_log)]
           IN  /\ c \in 0..Len(audit_log)
               /\ \A i \in 1..Len(audit_log) : EndsLine(audit_log[i]) => i <= c
<1> DEFINE L == Len(audit_log)
           Past(c) == \A i \in 1..L : EndsLine(audit_log[i]) => i <= c
           Fine(n) == /\ Chunks[n] \in 0..L
                      /\ n <= Chunks[n] \/ Past(Chunks[n])
           Bad == {n \in 0..L : ~Fine(n)}
<1>1. L \in Nat
  BY DEF FileInv
<1>2. ASSUME NEW n \in 1..L, Fine(n - 1) PROVE Fine(n)
  <2> DEFINE b == Chunks[n - 1]
             c == Chunks[n]
  <2>1. b \in 0..L /\ b \in Nat /\ (n - 1 <= b \/ Past(b))
    BY <1>1, <1>2
  <2>2. c = ConsumedTo(b)
    BY <1>1, ChunkByChunk
  <2> HIDE DEF b, c
  <2>3. c \in Nat /\ (c = b \/ (b < c /\ c <= L))
    BY <2>1, <2>2, ConsumedFacts
  <2>4. CASE c = b
    <3>1. ASSUME NEW i \in b + 1..L, EndsLine(audit_log[i]) PROVE FALSE
      BY <2>1, <2>2, <2>4, <3>1, StopsAtLongLines, LongFromTheStart
    <3>2. ASSUME NEW i \in 1..L, EndsLine(audit_log[i]) PROVE i <= b
      BY <1>1, <2>1, <3>1, <3>2
    <3>3. Past(c)
      BY <2>4, <3>2
    <3> QED
      BY <2>1, <2>4, <3>3 DEF c
  <2>5. CASE b < c /\ c <= L
    <3>1. c \in 0..L
      BY <1>1, <2>3, <2>5
    <3>2. n - 1 <= b => n <= c
      BY <1>1, <2>1, <2>3, <2>5
    <3>3. Past(b) => Past(c)
      BY <1>1, <2>1, <2>3, <2>5
    <3> QED
      BY <2>1, <3>1, <3>2, <3>3 DEF c
  <2> QED
    BY <2>3, <2>4, <2>5
<1>3. Fine(0)
  <2>1. Chunks[0] = 0
    BY <1>1, ChunkByChunk
  <2> QED
    BY <1>1, <2>1
<1> HIDE DEF Fine
<1>4. Bad = {}
  <2> SUFFICES ASSUME Bad # {} PROVE FALSE
    OBVIOUS
  <2>1. Bad \in SUBSET Nat
    BY <1>1
  <2>2. PICK n \in Bad : \A k \in Bad : n <= k
    BY <2>1, LeastNumber
  <2>3. n \in 0..L /\ ~Fine(n) /\ n # 0
    BY <1>3, <2>2
  <2>4. n \in 1..L /\ n - 1 \in 0..L /\ ~(n <= n - 1)
    BY <1>1, <2>3
  <2>5. n - 1 \notin Bad
    BY <2>2, <2>4
  <2> QED
    BY <1>2, <2>3, <2>4, <2>5
<1>5. Fine(L)
  BY <1>1, <1>4
<1>6. Past(L)
  BY <1>1
<1>7. Chunks[L] \in 0..L /\ (L <= Chunks[L] \/ Past(Chunks[L]))
  BY <1>5 DEF Fine
<1>8. L <= Chunks[L] => Chunks[L] = L
  BY <1>1, <1>7
<1> QED
  BY <1>6, <1>7, <1>8

LEMMA ReaderDrains ==
    ASSUME ReaderAssumption, ReaderInv, NEW p \in Readers, Drain(p) PROVE ReaderInv'
<1>1. /\ request_log \subseteq request_log' /\ request_log' \subseteq Rows
      /\ UNCHANGED <<audit_log, truncations, next, saved, lastReadOffset, reading, starts>>
  BY DrainReads DEF ReaderInv, RowsIn
<1>2. \A o : Stored(o, audit_log, truncations, request_log)
                => Stored(o, audit_log, truncations, request_log')
  BY <1>1, StoredStays
<1>3. OffsetsInv'
  BY <1>1, <1>2 DEF ReaderInv, OffsetsInv
<1>4. FileInv' /\ NextInv'
  BY <1>1 DEF ReaderInv, FileInv, NextInv, Ended, EndsLine
<1> QED
  BY <1>1, <1>3, <1>4 DEF ReaderInv

\* A drained file has nothing left but lines without an end.
LEMMA DrainedIsEmpty ==
    ASSUME ReaderAssumption, ReaderInv, NEW p, Drain(p), ~LongLine(0)
    PROVE  RowsIn(audit_log) \subseteq request_log'
<1> DEFINE c == Chunks[Len(audit_log)]
<1>1. /\ c \in 0..Len(audit_log) /\ Len(audit_log) \in Nat
      /\ \A i \in 1..Len(audit_log) : EndsLine(audit_log[i]) => i <= c
  BY ChunksGetOn DEF ReaderInv, FileInv
<1>2. request_log' = request_log \cup RowsIn(SubSeq(audit_log, 1, c))
  BY DrainReads
<1> HIDE DEF c
<1>3. FileInv /\ audit_log \in Seq(Rows \X Nat) /\ DOMAIN audit_log = 1..Len(audit_log)
  BY DEF ReaderInv, FileInv
<1>4. RowsIn(SubSeq(audit_log, 1, c)) = {r \in Rows : Has(audit_log, r, 1, c)}
  BY <1>1, <1>3, RowsBetween
<1>5. ASSUME NEW r \in RowsIn(audit_log) PROVE Has(audit_log, r, 1, c)
  <2>1. r \in Rows /\ \A i \in 1..Pieces[r] : \E k \in 1..Len(audit_log) :
                          audit_log[k] = <<r, i>>
    BY <1>3 DEF RowsIn
  <2>2. Pieces[r] \in 1..Pieces[r]
    BY <2>1 DEF ReaderAssumption
  <2>3. PICK last \in 1..Len(audit_log) : audit_log[last] = <<r, Pieces[r]>>
    BY <2>1, <2>2
  <2>4. last <= c
    BY <1>1, <2>3 DEF EndsLine
  <2>5. ASSUME NEW i \in 1..Pieces[r] PROVE \E k \in 1..c : audit_log[k] = <<r, i>>
    <3>1. PICK k \in 1..Len(audit_log) : audit_log[k] = <<r, i>>
      BY <2>1
    <3>2. k <= last
      BY <1>3, <2>1, <2>3, <3>1, PiecesBefore
    <3>3. k \in 1..c
      BY <1>1, <2>4, <3>2
    <3> QED
      BY <3>1, <3>3
  <2> QED
    BY <2>5 DEF Has
<1> QED
  BY <1>2, <1>4, <1>5 DEF RowsIn

LEMMA ReaderInvStep == ReaderAssumption /\ ReaderInv /\ [ReaderNext]_readerVars => ReaderInv'
<1>1. ASSUME ReaderInv, UNCHANGED readerVars PROVE ReaderInv'
  BY <1>1 DEF ReaderInv, FileInv, NextInv, OffsetsInv, Ended, EndsLine, readerVars
<1> QED
  BY <1>1, ReaderAppends, ReaderTruncates, ReaderIngests, ReaderSaves, ReaderDrains, ReaderStarts
     DEF ReaderNext

LEMMA ReaderInitially == ReaderAssumption /\ ReaderInit => ReaderInv
<1> SUFFICES ASSUME ReaderAssumption, ReaderInit PROVE ReaderInv
  OBVIOUS
<1>1. audit_log \in Seq(Rows \X Nat) /\ Len(audit_log) = 0
  BY DEF ReaderInit
<1>2. Pieces \in [Rows -> Nat \ {0}] /\ 0 \in 0..MaxTruncations /\ 0 \in 0..MaxStarts
  BY DEF ReaderAssumption
<1>3. FileInv
  BY <1>1 DEF FileInv
<1>4. NextInv
  <2>1. next = <<1, 1>>
    BY DEF ReaderInit
  <2>2. next[1] \in Rows => 1 <= Pieces[next[1]]
    BY <1>2
  <2> QED
    BY <1>1, <2>1, <2>2 DEF NextInv
<1>5. OffsetsInv
  <2> DEFINE o == [at |-> 0, of |-> 0]
  <2>1. o \in Offsets /\ o.at = 0 /\ o.of = 0
    BY <1>2 DEF Offsets
  <2>2. ASSUME NEW r \in Rows, Has(audit_log, r, 1, 0) PROVE FALSE
    <3>1. 1 \in 1..Pieces[r]
      BY <1>2
    <3> QED
      BY <2>2, <3>1 DEF Has
  <2>3. saved = o
    BY DEF ReaderInit
  <2> HIDE DEF o
  <2>4. Stored(o, audit_log, 0, {})
    BY <1>1, <2>1, <2>2 DEF Stored, Boundary
  <2> QED
    BY <2>3, <2>4 DEF ReaderInit, OffsetsInv
<1> QED
  BY <1>2, <1>3, <1>4, <1>5 DEF ReaderInit, ReaderInv

LEMMA ReaderTypes == ReaderInv => ReaderTypeOK
<1> SUFFICES ASSUME ReaderInv PROVE ReaderTypeOK
  OBVIOUS
<1>1. audit_log \in Seq(Rows \X Nat) /\ DOMAIN audit_log = 1..Len(audit_log)
  BY DEF ReaderInv, FileInv
<1>2. \A i \in DOMAIN audit_log :
         audit_log[i][1] \in Rows /\ audit_log[i][2] \in 1..Pieces[audit_log[i][1]]
  BY <1>1 DEF ReaderInv, FileInv
<1> QED
  BY <1>2 DEF ReaderInv, ReaderTypeOK, OffsetsInv, Stored

LEMMA ReaderSkipsNothing == ReaderInv => NothingSkipped
<1> SUFFICES ASSUME ReaderInv, NEW o \in OffsetsInUse \ {Unread, NotReading}, o.of = truncations
             PROVE  RowsIn(SubSeq(audit_log, 1, o.at)) \subseteq request_log
  BY DEF NothingSkipped
<1>1. Stored(o, audit_log, truncations, request_log)
  BY DEF OffsetsInUse, ReaderInv, OffsetsInv
<1>2. audit_log \in Seq(Rows \X Nat) /\ Len(audit_log) \in Nat
  BY DEF ReaderInv, FileInv
<1>3. o.at \in 0..Len(audit_log) /\ \A r \in Rows : Has(audit_log, r, 1, o.at) => r \in request_log
  BY <1>1, <1>2 DEF Stored, Offsets
<1>4. RowsIn(SubSeq(audit_log, 1, o.at)) = {r \in Rows : Has(audit_log, r, 1, o.at)}
  BY <1>2, <1>3, RowsBetween
<1> QED
  BY <1>3, <1>4

\* A reader that consumes nothing has stopped where it may.
LEMMA ReaderStops ==
    ASSUME ReaderAssumption, ReaderInv, NEW p \in Readers, Ingest(p), reading'[p] = NotReading,
           ~LongLine(loadOffset(p).at), NEW i \in loadOffset(p).at + 1..Len(audit_log)
    PROVE  ~EndsLine(audit_log[i])
<1> DEFINE o == loadOffset(p)
           from == StartOver(o)
           to == [from EXCEPT !.at = ConsumedTo(from.at)]
<1>1. reading' = [reading EXCEPT ![p] = IF to.at # o.at THEN to ELSE NotReading]
  BY DEF Ingest
<1>2. Stored(o, audit_log, truncations, request_log)
  BY OffsetsLoaded
<1>3. o \in Offsets /\ o.at \in Nat /\ Len(audit_log) \in Nat /\ FileInv
  <2>1. FileInv
    BY DEF ReaderInv
  <2>2. Len(audit_log) \in Nat
    BY <2>1 DEF FileInv
  <2> QED
    BY <1>2, <2>1, <2>2 DEF Stored, Offsets
<1> HIDE DEF o
<1>4. /\ Stored(from, audit_log, truncations, request_log)
      /\ from = o \/ (from.at = 0 /\ Len(audit_log) < o.at)
  BY <1>2, OffsetsStartOver
<1>5. from \in Offsets /\ from.at \in Nat
  BY <1>4 DEF Stored, Offsets
<1> HIDE DEF from
<1>6. ConsumedTo(from.at) \in Nat
  BY <1>3, <1>5, ConsumedFacts
<1>7. to \in Offsets /\ to.at = ConsumedTo(from.at)
  BY <1>5, <1>6 DEF Offsets
<1> HIDE DEF to
<1>8. to.at = o.at
  BY <1>1, <1>7 DEF ReaderInv, ReaderAssumption
<1>9. from = o
  <2> SUFFICES ASSUME from.at = 0, Len(audit_log) < o.at PROVE FALSE
    BY <1>4
  <2>1. ConsumedTo(0) = 0 \/ ConsumedTo(0) <= Len(audit_log)
    BY <1>3, ConsumedFacts
  <2> QED
    BY <1>3, <1>7, <1>8, <2>1
<1>10. ConsumedTo(o.at) = o.at
  BY <1>7, <1>8, <1>9
<1>11. ~LongLine(o.at) /\ i \in o.at + 1..Len(audit_log)
  BY DEF o
<1> QED
  BY <1>3, <1>10, <1>11, StopsAtLongLines

(***************************************************************************)
(* ingestNewEntries() and drainFile(), for every number of processes, rows,*)
(* pieces, restarts and truncations: no row in front of an offset is       *)
(* missing in the table unless the offset is of a life of the file that a  *)
(* truncation has ended, and a reader stops in front of a whole line only  *)
(* if one is longer than what is read at a time.                           *)
(***************************************************************************)
THEOREM ReadersMissNothing ==
    ASSUME ReaderAssumption
    PROVE  ReaderSpec => [](ReaderTypeOK /\ NothingSkipped) /\ ReadersGetOn
<1>1. ReaderInit => ReaderInv
  BY ReaderInitially
<1>2. ReaderInv /\ [ReaderNext]_readerVars => ReaderInv'
  BY ReaderInvStep
<1>3. ReaderInv => ReaderTypeOK /\ NothingSkipped
  BY ReaderTypes, ReaderSkipsNothing
<1>4. ReaderInv =>
        [\A p \in Readers :
           /\ Ingest(p) /\ reading'[p] = NotReading =>
                 LET o == loadOffset(p) IN
                 LongLine(o.at) \/ \A i \in o.at + 1..Len(audit_log) : ~EndsLine(audit_log[i])
           /\ Drain(p) => LongLine(0) \/ RowsIn(audit_log) \subseteq request_log']_readerVars
  BY ReaderStops, DrainedIsEmpty
<1> QED
  BY <1>1, <1>2, <1>3, <1>4, PTL DEF ReaderSpec, ReadersGetOn

-----------------------------------------------------------------------------
(* The challenge gate.                                                     *)

\* One element after another: the elements of s that are in S.
Selects(f, s, S, n) ==
    f = [m \in 0..n |-> IF m = 0 THEN <<>>
                        ELSE IF s[m] \in S THEN Append(f[m - 1], s[m]) ELSE f[m - 1]]

\* They can be collected: what is for m elements is extended to one more.
LEMMA SelectionExists ==
    ASSUME NEW s, NEW S, NEW n \in Nat PROVE \E f : Selects(f, s, S, n)
<1> DEFINE Bad == {m \in Nat : ~\E f : Selects(f, s, S, m)}
<1>1. CASE Bad = {}
  BY <1>1
<1>2. CASE Bad # {}
  <2>1. PICK m \in Bad : \A k \in Bad : m <= k
    BY <1>2, LeastNumber
  <2>2. CASE m = 0
    <3> DEFINE f == [k \in 0..0 |-> <<>>]
    <3>1. Selects(f, s, S, 0)
      BY DEF Selects
    <3> QED
      BY <2>2, <3>1
  <2>3. CASE m # 0
    <3>1. m \in Nat /\ m - 1 \in Nat /\ m - 1 < m
      BY <2>3
    <3>2. m - 1 \notin Bad
      BY <2>1, <3>1
    <3>3. PICK f : Selects(f, s, S, m - 1)
      BY <3>1, <3>2
    <3> DEFINE more == IF s[m] \in S THEN Append(f[m - 1], s[m]) ELSE f[m - 1]
               g == [k \in 0..m |-> IF k = m THEN more ELSE f[k]]
               One(h, k) == IF k = 0 THEN <<>>
                            ELSE IF s[k] \in S THEN Append(h[k - 1], s[k]) ELSE h[k - 1]
    <3>4. \A k \in 0..m - 1 : f[k] = One(f, k)
      BY <3>3 DEF Selects
    <3>5. ASSUME NEW k \in 0..m PROVE g[k] = One(g, k)
      <4>1. CASE k = 0
        <5>1. 0 \in 0..m - 1 /\ f[0] = <<>>
          BY <3>1, <3>4
        <5> QED
          BY <2>3, <4>1, <5>1
      <4>2. CASE k # 0
        <5>1. k - 1 \in 0..m /\ k - 1 # m /\ g[k - 1] = f[k - 1]
          BY <3>1, <4>2
        <5>2. CASE k = m
          BY <4>2, <5>1, <5>2
        <5>3. CASE k # m
          <6>1. k \in 0..m - 1
            BY <3>1, <5>3
          <6>2. f[k] = One(f, k)
            BY <3>4, <6>1
          <6> HIDE DEF more
          <6> QED
            BY <4>2, <5>1, <5>3, <6>2
        <5> QED
          BY <5>2, <5>3
      <4> QED
        BY <4>1, <4>2
    <3> HIDE DEF g
    <3>6. g = [k \in 0..m |-> g[k]]
      BY DEF g
    <3>7. Selects(g, s, S, m)
      BY <3>5, <3>6 DEF Selects
    <3> QED
      BY <2>1, <3>7
  <2> QED
    BY <2>2, <2>3
<1> QED
  BY <1>1, <1>2

LEMMA KeptIsSelected ==
    ASSUME NEW s, NEW S, Len(s) \in Nat
    PROVE  \E f : Selects(f, s, S, Len(s)) /\ Kept(s, S) = f[Len(s)]
<1> DEFINE f == CHOOSE f : Selects(f, s, S, Len(s))
<1>1. Selects(f, s, S, Len(s))
  BY SelectionExists
<1>2. Kept(s, S) = f[Len(s)]
  BY DEF Kept, Selects
<1> QED
  BY <1>1, <1>2

\* What is collected are elements of s that are in S, and no more than there were.
LEMMA SelectedTypes ==
    ASSUME NEW X, NEW s \in Seq(X), NEW S, NEW f, Selects(f, s, S, Len(s))
    PROVE  \A m \in 0..Len(s) :
              /\ f[m] \in Seq(X) /\ Len(f[m]) <= m
              /\ \A i \in DOMAIN f[m] : f[m][i] \in S
              /\ \A i \in DOMAIN f[m] : \E j \in DOMAIN s : f[m][i] = s[j]
<1> DEFINE Good(t, m) == /\ t \in Seq(X) /\ Len(t) <= m
                         /\ \A i \in DOMAIN t : t[i] \in S
                         /\ \A i \in DOMAIN t : \E j \in DOMAIN s : t[i] = s[j]
           Bad == {m \in 0..Len(s) : ~Good(f[m], m)}
<1>2. \A m \in 0..Len(s) :
         f[m] = IF m = 0 THEN <<>> ELSE IF s[m] \in S THEN Append(f[m - 1], s[m]) ELSE f[m - 1]
  BY DEF Selects
<1>3. CASE Bad = {}
  BY <1>3
<1>4. CASE Bad # {}
  <2>0. Bad \in SUBSET Nat
    OBVIOUS
  <2>1. PICK m \in Bad : \A k \in Bad : m <= k
    BY <1>4, <2>0, LeastNumber
  <2>2. CASE m = 0
    <3>1. f[0] = <<>>
      BY <1>2, <2>2
    <3>2. Good(<<>>, 0)
      OBVIOUS
    <3> HIDE DEF Good
    <3> QED
      BY <2>1, <2>2, <3>1, <3>2
  <2>3. CASE m # 0
    <3>1. m - 1 \in 0..Len(s) /\ m \in 1..Len(s) /\ m - 1 \notin Bad
      BY <2>1, <2>3
    <3>2. Good(f[m - 1], m - 1)
      BY <3>1
    <3>3. m \in DOMAIN s /\ s[m] \in X
      BY <3>1
    <3>4. CASE s[m] \in S
      <4> DEFINE t == f[m - 1]
      <4>1. f[m] = Append(t, s[m])
        BY <1>2, <2>3, <3>1, <3>4
      <4>2. t \in Seq(X) /\ Len(t) <= m - 1
        BY <3>2
      <4> HIDE DEF t
      <4>3. /\ Append(t, s[m]) \in Seq(X) /\ Len(Append(t, s[m])) = Len(t) + 1
            /\ \A i \in DOMAIN Append(t, s[m]) :
                  Append(t, s[m])[i] = IF i \in DOMAIN t THEN t[i] ELSE s[m]
        BY <3>3, <4>2
      <4>4. /\ \A i \in DOMAIN t : t[i] \in S
            /\ \A i \in DOMAIN t : \E j \in DOMAIN s : t[i] = s[j]
        BY <3>2 DEF t
      <4>5. Good(f[m], m)
        BY <3>1, <3>3, <3>4, <4>1, <4>2, <4>3, <4>4
      <4> QED
        BY <2>1, <4>5
    <3>5. CASE s[m] \notin S
      <4>1. f[m] = f[m - 1]
        BY <1>2, <2>3, <3>1, <3>5
      <4>2. Good(f[m], m)
        BY <3>1, <3>2, <4>1
      <4> QED
        BY <2>1, <4>2
    <3> QED
      BY <3>4, <3>5
  <2> QED
    BY <2>2, <2>3
<1> QED
  BY <1>3, <1>4

\* So is what is kept.
LEMMA KeptFacts ==
    ASSUME NEW X, NEW s \in Seq(X), NEW S
    PROVE  /\ Kept(s, S) \in Seq(X) /\ Len(Kept(s, S)) <= Len(s)
           /\ \A i \in DOMAIN Kept(s, S) : Kept(s, S)[i] \in S
           /\ \A i \in DOMAIN Kept(s, S) : \E j \in DOMAIN s : Kept(s, S)[i] = s[j]
<1>1. PICK f : Selects(f, s, S, Len(s)) /\ Kept(s, S) = f[Len(s)]
  BY KeptIsSelected
<1>3. Len(s) \in 0..Len(s)
  OBVIOUS
<1>4. \A m \in 0..Len(s) :
         /\ f[m] \in Seq(X) /\ Len(f[m]) <= m
         /\ \A i \in DOMAIN f[m] : f[m][i] \in S
         /\ \A i \in DOMAIN f[m] : \E j \in DOMAIN s : f[m][i] = s[j]
  BY <1>1, SelectedTypes
<1> QED
  BY <1>1, <1>3, <1>4

\* If the last elements are all in S, they are the last ones that are kept.
LEMMA KeptAtTheEnd ==
    ASSUME NEW X, NEW s \in Seq(X), NEW S, NEW n \in 0..Len(s),
           \A j \in Len(s) - n + 1..Len(s) : s[j] \in S
    PROVE  /\ n <= Len(Kept(s, S))
           /\ \A k \in 0..n - 1 : Kept(s, S)[Len(Kept(s, S)) - k] = s[Len(s) - k]
<1>1. PICK f : Selects(f, s, S, Len(s)) /\ Kept(s, S) = f[Len(s)]
  BY KeptIsSelected
<1> DEFINE q == Len(s) - n
           Good(m) == /\ m - q <= Len(f[m])
                      /\ \A k \in 0..m - q - 1 : f[m][Len(f[m]) - k] = s[m - k]
           Bad == {m \in q..Len(s) : ~Good(m)}
<1>2. \A m \in 0..Len(s) :
         f[m] = IF m = 0 THEN <<>> ELSE IF s[m] \in S THEN Append(f[m - 1], s[m]) ELSE f[m - 1]
  BY <1>1 DEF Selects
<1>3. Len(s) \in Nat /\ n \in Nat /\ q \in 0..Len(s)
  OBVIOUS
<1>4. \A m \in 0..Len(s) : f[m] \in Seq(X)
  BY <1>1, SelectedTypes
<1> HIDE DEF q
<1>5. CASE Bad = {}
  <2>1. Good(Len(s))
    BY <1>3, <1>5
  <2>2. Len(s) - q = n
    BY DEF q
  <2> QED
    BY <1>1, <2>1, <2>2
<1>6. CASE Bad # {}
  <2>0. Bad \in SUBSET Nat
    BY <1>3
  <2>1. PICK m \in Bad : \A k \in Bad : m <= k
    BY <1>6, <2>0, LeastNumber
  <2>2. CASE m = q
    <3>1. m - q = 0 /\ f[m] \in Seq(X)
      BY <1>3, <1>4, <2>2
    <3>2. Len(f[m]) \in Nat
      BY <3>1
    <3>3. Good(m)
      BY <3>1, <3>2
    <3> QED
      BY <2>1, <3>3
  <2>3. CASE m # q
    <3>0. m \in q..Len(s) /\ \A k \in Bad : m <= k
      BY <2>1
    <3> HIDE DEF Bad
    <3>1. /\ m - 1 \in q..Len(s) /\ m \in q + 1..Len(s) /\ m \in 1..Len(s) /\ m \in 0..Len(s)
          /\ m - 1 \in 0..Len(s) /\ m # 0 /\ m - 1 \notin Bad
      BY <1>3, <2>3, <3>0
    <3> USE DEF Bad
    <3>2. Good(m - 1)
      BY <3>1
    <3> DEFINE t == f[m - 1]
    <3>3. s[m] \in S /\ s[m] \in X
      BY <3>1 DEF q
    <3> HIDE DEF Bad, Good
    <3>4. f[m] = Append(t, s[m])
      BY <1>2, <3>1, <3>3
    <3> USE DEF Bad, Good
    <3>5. t \in Seq(X)
      BY <1>4, <3>1
    <3>6. /\ m - 1 - q <= Len(t) /\ Len(t) \in Nat
          /\ \A k \in 0..m - 1 - q - 1 : t[Len(t) - k] = s[m - 1 - k]
      BY <3>2, <3>5
    <3> HIDE DEF t
    <3>7. /\ Len(f[m]) = Len(t) + 1 /\ f[m][Len(t) + 1] = s[m]
          /\ \A i \in 1..Len(t) : f[m][i] = t[i]
      BY <3>3, <3>4, <3>5
    <3>8. ASSUME NEW k \in 0..m - q - 1 PROVE f[m][Len(f[m]) - k] = s[m - k]
      <4>1. CASE k = 0
        BY <1>3, <3>1, <3>6, <3>7, <4>1
      <4>2. CASE k # 0
        <5>1. /\ k - 1 \in 0..m - 1 - q - 1 /\ Len(t) - (k - 1) \in 1..Len(t)
              /\ Len(f[m]) - k = Len(t) - (k - 1) /\ m - 1 - (k - 1) = m - k
          BY <1>3, <3>1, <3>6, <3>7, <4>2
        <5>2. t[Len(t) - (k - 1)] = s[m - 1 - (k - 1)]
          BY <3>6, <5>1
        <5> QED
          BY <3>7, <5>1, <5>2
      <4> QED
        BY <4>1, <4>2
    <3>9. m - q <= Len(f[m])
      BY <1>3, <3>1, <3>6, <3>7
    <3> QED
      BY <2>1, <3>8, <3>9
  <2> QED
    BY <2>2, <2>3
<1> QED
  BY <1>5, <1>6

\* The range of what is kept.
LEMMA KeptRange ==
    ASSUME NEW X, NEW s \in Seq(X), NEW S PROVE Range(Kept(s, S)) \subseteq Range(s) \cap S
  BY KeptFacts DEF Range

\* A sequence that is bounded.
LEMMA Bounded ==
    ASSUME NEW X, NEW n \in Nat
    PROVE  \A s : s \in BoundedSeq(X, n) <=> s \in Seq(X) /\ Len(s) <= n
<1>1. ASSUME NEW s \in BoundedSeq(X, n) PROVE s \in Seq(X) /\ Len(s) <= n
  BY DEF BoundedSeq, SeqOf
<1>2. ASSUME NEW s \in Seq(X), Len(s) <= n PROVE s \in BoundedSeq(X, n)
  <2>1. Len(s) \in 0..n /\ s \in [1..Len(s) -> X]
    BY <1>2
  <2> QED
    BY <2>1 DEF BoundedSeq, SeqOf
<1> QED
  BY <1>1, <1>2

\* The last n elements.
LEMMA LastOfFacts ==
    ASSUME NEW X, NEW s \in Seq(X), NEW n \in Nat
    PROVE  /\ LastOf(n, s) \in Seq(X)
           /\ Len(LastOf(n, s)) = IF Len(s) > n THEN n ELSE Len(s)
           /\ \A k \in 0..n - 1 : k < Len(s) => LastOf(n, s)[Len(LastOf(n, s)) - k] = s[Len(s) - k]
           /\ Range(LastOf(n, s)) \subseteq Range(s)
<1>1. CASE Len(s) > n
  <2> DEFINE t == SubSeq(s, Len(s) - n + 1, Len(s))
  <2>1. Len(s) \in Nat /\ Len(s) - n + 1 \in 1..Len(s) + 1
    BY <1>1
  <2>2. t \in Seq(X) /\ Len(t) = n /\ \A i \in 1..n : t[i] = s[Len(s) - n + i]
    BY <2>1
  <2>3. LastOf(n, s) = t
    BY <1>1 DEF LastOf
  <2> HIDE DEF t
  <2>4. \A k \in 0..n - 1 : n - k \in 1..n /\ Len(s) - n + (n - k) = Len(s) - k
    BY <2>1
  <2>5. \A i \in 1..n : Len(s) - n + i \in DOMAIN s
    BY <1>1, <2>1
  <2>6. DOMAIN t = 1..n
    BY <2>2
  <2> QED
    BY <1>1, <2>2, <2>3, <2>4, <2>5, <2>6 DEF Range
<1>2. CASE ~(Len(s) > n)
  BY <1>2 DEF LastOf
<1> QED
  BY <1>1, <1>2

-----------------------------------------------------------------------------
(* The inductive invariant.                                                *)

Page == [id : Id, ip : Addresses, mode : Modes, left : 0..resolve_seconds]
Entry == [ip : Addresses, count : 1..max_attempts + 1, left : 0..Window]
TriesOf == [Addresses -> Seq(0..Window)]

\* The last n tries fall into the time that has passed of a window.
Recent(ages, n, left) ==
    n <= Len(ages) /\ \A k \in 0..n - 1 : ages[Len(ages) - k] + left <= Window

\* Whatever is counted has been tried, within the window of the count.
CountsInv ==
    /\ attempts \in Seq(Entry) /\ Len(attempts) <= MAX_ATTEMPTS_ENTRIES
    /\ tries \in TriesOf /\ \A a \in Addresses : Len(tries[a]) <= max_attempts + 1
    /\ \A e \in Range(attempts) : e.left > 0 => Recent(tries[e.ip], e.count, e.left)

PagesInv ==
    /\ pending \in Seq(Page) /\ Len(pending) <= MAX_PENDING
    /\ verifying \subseteq [id : Id, ip : Addresses]
    /\ issued \in 0..MaxIds /\ expelled \subseteq Addresses

ChallengeInv == PagesInv /\ CountsInv

\* What is not expired of the pages and of the counts.
LEMMA SweptPages ==
    ASSUME ChallengeAssumption, PagesInv
    PROVE  /\ Swept(pending) \in Seq(Page) /\ Len(Swept(pending)) <= MAX_PENDING
           /\ Range(Swept(pending)) \subseteq Range(pending)
           /\ \A e \in Range(pending) : e \in Page
<1>1. pending \in Seq(Page) /\ Len(pending) <= MAX_PENDING
  BY DEF PagesInv
<1>2. \A e \in Range(pending) : e \in Page
  BY <1>1 DEF Range
<1> DEFINE S == {e \in Range(pending) : e.left > 0}
<1>3. Swept(pending) = Kept(pending, S)
  BY DEF Swept, Unexpired
<1> HIDE DEF S
<1>4. /\ Kept(pending, S) \in Seq(Page) /\ Len(Kept(pending, S)) <= Len(pending)
      /\ Range(Kept(pending, S)) \subseteq Range(pending)
  BY <1>1, KeptFacts, KeptRange
<1>5. Len(Kept(pending, S)) \in Nat /\ Len(pending) \in Nat /\ MAX_PENDING \in Nat
  BY <1>1, <1>4 DEF ChallengeAssumption
<1> QED
  BY <1>1, <1>2, <1>3, <1>4, <1>5

LEMMA SweptCounts ==
    ASSUME ChallengeAssumption, CountsInv
    PROVE  /\ Swept(attempts) \in Seq(Entry) /\ Len(Swept(attempts)) <= MAX_ATTEMPTS_ENTRIES
           /\ \A e \in Range(Swept(attempts)) :
                 e \in Entry /\ e \in Range(attempts) /\ e.left > 0
<1>1. attempts \in Seq(Entry) /\ Len(attempts) <= MAX_ATTEMPTS_ENTRIES
  BY DEF CountsInv
<1>2. \A e \in Range(attempts) : e \in Entry
  BY <1>1 DEF Range
<1> DEFINE S == {e \in Range(attempts) : e.left > 0}
<1>3. Swept(attempts) = Kept(attempts, S)
  BY DEF Swept, Unexpired
<1>4. \A e \in S : e \in Range(attempts) /\ e.left > 0
  OBVIOUS
<1> HIDE DEF S
<1>5. /\ Kept(attempts, S) \in Seq(Entry) /\ Len(Kept(attempts, S)) <= Len(attempts)
      /\ Range(Kept(attempts, S)) \subseteq Range(attempts) \cap S
  BY <1>1, KeptFacts, KeptRange
<1>6. Len(Kept(attempts, S)) \in Nat /\ Len(attempts) \in Nat /\ MAX_ATTEMPTS_ENTRIES \in Nat
  BY <1>1, <1>5 DEF ChallengeAssumption
<1> QED
  BY <1>1, <1>2, <1>3, <1>4, <1>5, <1>6

\* The pending challenges with one more.
LEMMA IssuedPages ==
    ASSUME ChallengeAssumption, NEW s \in Seq(Page), NEW a \in Addresses, NEW mode \in Modes,
           issued \in Nat, issued < MaxIds
    PROVE  Issued(s, a, mode) \in Seq(Page) /\ Len(Issued(s, a, mode)) <= MAX_PENDING
<1> DEFINE t == LastOf(MAX_PENDING - 1, Unexpired(s))
           one == [id |-> issued + 1, ip |-> a, mode |-> mode, left |-> resolve_seconds]
<1>1. MAX_PENDING - 1 \in Nat /\ MAX_PENDING \in Nat /\ one \in Page
  BY DEF ChallengeAssumption, Page, Id
<1>2. Unexpired(s) \in Seq(Page)
  BY KeptFacts DEF Unexpired
<1>3. t \in Seq(Page) /\ Len(t) <= MAX_PENDING - 1
  BY <1>1, <1>2, LastOfFacts
<1>4. Issued(s, a, mode) = t \o <<one>>
  BY DEF Issued
<1> HIDE DEF t, one
<1> QED
  BY <1>1, <1>3, <1>4

\* What a count is after another attempt: one more, unless it is over, or the first.
After(d, a) ==
    /\ d \in Entry
    /\ \/ d \in Range(Swept(attempts)) /\ d.ip # a
       \/ d.ip = a /\ d.count = 1 /\ d.left = Window
       \/ \E e \in Range(Swept(attempts)) :
             /\ d.ip = a /\ e.ip = a /\ d.left = e.left
             /\ d.count = IF e.count > max_attempts THEN e.count ELSE e.count + 1

LEMMA CountedFacts ==
    ASSUME ChallengeAssumption, CountsInv, NEW a \in Addresses
    PROVE  /\ Counted(Swept(attempts), a) \in Seq(Entry)
           /\ Len(Counted(Swept(attempts), a)) <= MAX_ATTEMPTS_ENTRIES
           /\ \A d \in Range(Counted(Swept(attempts), a)) : After(d, a)
<1> DEFINE s == Swept(attempts)
           raised(n) == IF n > max_attempts THEN n ELSE n + 1
           one == [ip |-> a, count |-> 1, left |-> Window]
           more == IF \E e \in Range(s) : e.ip = a
                   THEN [i \in DOMAIN s |->
                           IF s[i].ip = a THEN [s[i] EXCEPT !.count = raised(@)] ELSE s[i]]
                   ELSE Append(s, one)
<1>1. /\ s \in Seq(Entry) /\ \A e \in Range(s) : e \in Entry
      /\ \A i \in DOMAIN s : s[i] \in Range(s)
  BY SweptCounts DEF Range
<1>2. /\ max_attempts \in Nat /\ Window \in Nat /\ MAX_ATTEMPTS_ENTRIES \in Nat
      /\ \A n \in 1..max_attempts + 1 : raised(n) \in 1..max_attempts + 1
  BY DEF ChallengeAssumption, Window
<1>3. one \in Entry /\ After(one, a)
  BY <1>2 DEF Entry, After, ChallengeAssumption
<1>4. Counted(s, a) = LastOf(MAX_ATTEMPTS_ENTRIES, more)
  BY DEF Counted
<1> HIDE DEF s
<1>5. ASSUME NEW e \in Range(s), e.ip = a
      PROVE  After([e EXCEPT !.count = raised(@)], a)
  <2>1. e \in Entry
    BY <1>1
  <2> QED
    BY <1>2, <1>5, <2>1 DEF Entry, After, s
<1>6. ASSUME NEW e \in Range(s), e.ip # a PROVE After(e, a)
  BY <1>1, <1>6 DEF After, s
<1>7. more \in Seq(Entry) /\ \A d \in Range(more) : After(d, a)
  <2>1. CASE \E e \in Range(s) : e.ip = a
    <3> DEFINE t == [i \in DOMAIN s |->
                       IF s[i].ip = a THEN [s[i] EXCEPT !.count = raised(@)] ELSE s[i]]
    <3>1. \A i \in DOMAIN s : After(t[i], a)
      BY <1>1, <1>5, <1>6
    <3>2. \A i \in DOMAIN s : t[i] \in Entry
      BY <3>1 DEF After
    <3>3. Len(s) \in Nat /\ DOMAIN s = 1..Len(s)
      BY <1>1
    <3>4. t \in [1..Len(s) -> Entry]
      BY <3>2, <3>3
    <3>5. t \in Seq(Entry)
      BY <3>3, <3>4
    <3>6. more = t
      BY <2>1
    <3> QED
      BY <3>1, <3>5, <3>6 DEF Range
  <2>2. CASE ~\E e \in Range(s) : e.ip = a
    <3> HIDE DEF one
    <3>1. more = Append(s, one)
      BY <2>2
    <3>2. Append(s, one) \in Seq(Entry)
      BY <1>1, <1>3
    <3>3. \A i \in DOMAIN Append(s, one) :
             Append(s, one)[i] = IF i \in DOMAIN s THEN s[i] ELSE one
      BY <1>1, <1>3
    <3>4. \A i \in DOMAIN Append(s, one) : After(Append(s, one)[i], a)
      BY <1>1, <1>3, <1>6, <2>2, <3>3
    <3> QED
      BY <3>1, <3>2, <3>4 DEF Range
  <2> QED
    BY <2>1, <2>2
<1> HIDE DEF more
<1>8. /\ LastOf(MAX_ATTEMPTS_ENTRIES, more) \in Seq(Entry)
      /\ Len(LastOf(MAX_ATTEMPTS_ENTRIES, more)) <= MAX_ATTEMPTS_ENTRIES
      /\ Range(LastOf(MAX_ATTEMPTS_ENTRIES, more)) \subseteq Range(more)
  BY <1>2, <1>7, LastOfFacts
<1> QED
  BY <1>4, <1>7, <1>8 DEF s

\* One more try, now: what was recent still is.
LEMMA TriesFacts ==
    ASSUME ChallengeAssumption, NEW ages \in Seq(0..Window), NEW n \in 1..max_attempts + 1,
           NEW left \in 0..Window, Recent(ages, n, left)
    PROVE  LET more == LastOf(max_attempts + 1, Append(ages, 0))
           IN  Recent(more, IF n > max_attempts THEN n ELSE n + 1, left)
<1> DEFINE longer == Append(ages, 0)
           top == max_attempts + 1
           more == LastOf(top, longer)
           m == IF n > max_attempts THEN n ELSE n + 1
<1>1. /\ max_attempts \in Nat /\ Window \in Nat /\ top \in Nat /\ 0 \in 0..Window
      /\ top = max_attempts + 1
      /\ m \in 1..max_attempts + 1 /\ m <= n + 1
  BY DEF ChallengeAssumption, Window
<1>2. /\ longer \in Seq(0..Window) /\ Len(longer) = Len(ages) + 1 /\ longer[Len(ages) + 1] = 0
      /\ \A i \in 1..Len(ages) : longer[i] = ages[i]
      /\ Len(ages) \in Nat
  BY <1>1
<1> HIDE DEF longer, m, top
<1>3. n <= Len(ages)
  BY DEF Recent
<1>4. Len(more) = IF Len(longer) > top THEN top ELSE Len(longer)
  BY <1>1, <1>2, LastOfFacts
<1>5. m <= Len(more)
  BY <1>1, <1>2, <1>3, <1>4
<1>6. \A k \in 0..top - 1 : k < Len(longer) =>
         more[Len(more) - k] = longer[Len(longer) - k]
  BY <1>1, <1>2, LastOfFacts
<1> HIDE DEF more
<1>7. ASSUME NEW k \in 0..m - 1 PROVE more[Len(more) - k] + left <= Window
  <2>1. more[Len(more) - k] = longer[Len(longer) - k]
    BY <1>1, <1>2, <1>3, <1>6
  <2>2. CASE k = 0
    BY <1>1, <1>2, <2>1, <2>2
  <2>3. CASE k # 0
    <3>1. /\ k - 1 \in 0..n - 1 /\ Len(longer) - k = Len(ages) - (k - 1)
          /\ Len(ages) - (k - 1) \in 1..Len(ages)
      BY <1>1, <1>2, <1>3, <2>3
    <3>2. ages[Len(ages) - (k - 1)] + left <= Window
      BY <3>1 DEF Recent
    <3> QED
      BY <1>2, <2>1, <3>1, <3>2
  <2> QED
    BY <2>2, <2>3
<1> QED
  BY <1>5, <1>7 DEF Recent, m, more, longer, top

\* A first try is recent for a whole window.
LEMMA FirstTry ==
    ASSUME ChallengeAssumption, NEW ages \in Seq(0..Window)
    PROVE  Recent(LastOf(max_attempts + 1, Append(ages, 0)), 1, Window)
<1> DEFINE longer == Append(ages, 0)
           top == max_attempts + 1
           more == LastOf(top, longer)
<1>1. Window \in Nat /\ top \in Nat /\ top > 1 /\ 0 \in 0..Window
  BY DEF ChallengeAssumption, Window
<1>2. /\ longer \in Seq(0..Window) /\ Len(longer) = Len(ages) + 1 /\ longer[Len(ages) + 1] = 0
      /\ Len(ages) \in Nat
  BY <1>1
<1> HIDE DEF longer, top
<1>3. Len(more) = IF Len(longer) > top THEN top ELSE Len(longer)
  BY <1>1, <1>2, LastOfFacts
<1>4. \A k \in 0..top - 1 : k < Len(longer) => more[Len(more) - k] = longer[Len(longer) - k]
  BY <1>1, <1>2, LastOfFacts
<1> HIDE DEF more
<1>5. 0 \in 0..top - 1 /\ 0 < Len(longer) /\ Len(longer) - 0 = Len(ages) + 1
  BY <1>1, <1>2
<1>6. more[Len(more) - 0] = 0 /\ 1 <= Len(more)
  BY <1>1, <1>2, <1>3, <1>4, <1>5
<1>7. \A k \in 0..1 - 1 : k = 0
  OBVIOUS
<1> QED
  BY <1>1, <1>6, <1>7 DEF Recent, more, longer, top

\* An attempt: the count is kept in step with the tries, and is over only after as many.
LEMMA AttemptStep ==
    ASSUME ChallengeAssumption, CountsInv, NEW a \in Addresses,
           NEW counts, counts = Counted(Swept(attempts), a),
           NEW newer, newer = [tries EXCEPT ![a] = LastOf(max_attempts + 1, Append(@, 0))]
    PROVE  /\ counts \in Seq(Entry) /\ Len(counts) <= MAX_ATTEMPTS_ENTRIES
           /\ newer \in TriesOf /\ \A b \in Addresses : Len(newer[b]) <= max_attempts + 1
           /\ \A d \in Range(counts) : Recent(newer[d.ip], d.count, d.left)
           /\ Attempted(Swept(attempts), a) > max_attempts => Len(newer[a]) > max_attempts
<1> DEFINE more == LastOf(max_attempts + 1, Append(tries[a], 0))
<1>1. /\ max_attempts \in Nat \ {0} /\ max_attempts + 1 \in Nat /\ Window \in Nat
      /\ 0 \in 0..Window
  BY DEF ChallengeAssumption, Window
<1>2. /\ tries \in TriesOf /\ tries[a] \in Seq(0..Window) /\ Len(tries[a]) \in Nat
      /\ \A b \in Addresses : Len(tries[b]) <= max_attempts + 1
  BY DEF CountsInv, TriesOf
<1>3. Append(tries[a], 0) \in Seq(0..Window) /\ Len(Append(tries[a], 0)) = Len(tries[a]) + 1
  BY <1>1, <1>2
<1>4. /\ more \in Seq(0..Window)
      /\ Len(more) = IF Len(tries[a]) + 1 > max_attempts + 1
                     THEN max_attempts + 1 ELSE Len(tries[a]) + 1
  <2> DEFINE longer == Append(tries[a], 0)
             top == max_attempts + 1
  <2>1. longer \in Seq(0..Window) /\ Len(longer) = Len(tries[a]) + 1 /\ top \in Nat
    BY <1>1, <1>3
  <2> HIDE DEF longer, top
  <2>2. /\ LastOf(top, longer) \in Seq(0..Window)
        /\ Len(LastOf(top, longer)) = IF Len(longer) > top THEN top ELSE Len(longer)
    BY <2>1, LastOfFacts
  <2> QED
    BY <2>1, <2>2 DEF longer, top
<1>5. ASSUME NEW e \in Range(Swept(attempts))
      PROVE  e \in Entry /\ Recent(tries[e.ip], e.count, e.left)
  BY <1>5, SweptCounts DEF CountsInv
<1>6. Recent(more, 1, Window)
  BY <1>2, FirstTry
<1>7. ASSUME NEW e \in Range(Swept(attempts)), e.ip = a
      PROVE  Recent(more, IF e.count > max_attempts THEN e.count ELSE e.count + 1, e.left)
  <2>1. e.count \in 1..max_attempts + 1 /\ e.left \in 0..Window /\ Recent(tries[a], e.count, e.left)
    BY <1>5, <1>7 DEF Entry
  <2> QED
    BY <1>2, <2>1, TriesFacts
<1>8. newer[a] = more /\ \A b \in Addresses : b # a => newer[b] = tries[b]
  BY <1>2 DEF TriesOf
<1>9. newer \in TriesOf
  <2> HIDE DEF more
  <2>1. newer = [tries EXCEPT ![a] = more]
    BY DEF more
  <2> QED
    BY <1>2, <1>4, <2>1 DEF TriesOf
<1> HIDE DEF more
<1>10. \A d \in Range(counts) : After(d, a)
  BY CountedFacts
<1>11. ASSUME NEW d \in Range(counts) PROVE Recent(newer[d.ip], d.count, d.left)
  <2>1. After(d, a)
    BY <1>10
  <2>2. CASE d \in Range(Swept(attempts)) /\ d.ip # a
    <3>1. d.ip \in Addresses
      BY <1>5, <2>2 DEF Entry
    <3> QED
      BY <1>5, <1>8, <2>2, <3>1
  <2>3. CASE d.ip = a /\ d.count = 1 /\ d.left = Window
    BY <1>6, <1>8, <2>3
  <2>4. CASE \E e \in Range(Swept(attempts)) :
                /\ d.ip = a /\ e.ip = a /\ d.left = e.left
                /\ d.count = IF e.count > max_attempts THEN e.count ELSE e.count + 1
    BY <1>7, <1>8, <2>4
  <2> QED
    BY <2>1, <2>2, <2>3, <2>4 DEF After
<1>12. ASSUME Attempted(Swept(attempts), a) > max_attempts PROVE Len(newer[a]) > max_attempts
  <2>1. CASE \E e \in Range(Swept(attempts)) : e.ip = a
    <3> DEFINE e == CHOOSE e \in Range(Swept(attempts)) : e.ip = a
    <3>1. e \in Range(Swept(attempts)) /\ e.ip = a
      BY <2>1
    <3>2. Attempted(Swept(attempts), a) = 1 + e.count
      BY <2>1 DEF Attempted
    <3> HIDE DEF e
    <3>3. e.count \in Nat /\ e.count <= Len(tries[a])
      BY <1>1, <1>5, <3>1 DEF Entry, Recent
    <3> QED
      BY <1>1, <1>2, <1>4, <1>8, <1>12, <3>2, <3>3
  <2>2. CASE ~\E e \in Range(Swept(attempts)) : e.ip = a
    BY <1>1, <1>12, <2>2 DEF Attempted
  <2> QED
    BY <2>1, <2>2
<1>13. \A b \in Addresses : Len(newer[b]) <= max_attempts + 1
  BY <1>1, <1>2, <1>4, <1>8
<1> QED
  BY <1>9, <1>11, <1>12, <1>13, CountedFacts

\* Counts that are left as they are, or forgotten.
LEMMA CountsRemain ==
    ASSUME ChallengeAssumption, CountsInv, UNCHANGED tries,
           attempts' \in Seq(Entry), Len(attempts') <= MAX_ATTEMPTS_ENTRIES,
           Range(attempts') \subseteq Range(attempts)
    PROVE  CountsInv'
  BY DEF CountsInv, TriesOf, Entry, Recent, Window, Range

\* An address that has succeeded: neither counts nor tries of it.
LEMMA CountsForgotten ==
    ASSUME ChallengeAssumption, CountsInv, NEW a \in Addresses,
           NEW counts \in Seq(Entry), Len(counts) <= MAX_ATTEMPTS_ENTRIES,
           \A d \in Range(counts) : d.ip # a /\ d.left > 0 => Recent(tries[d.ip], d.count, d.left),
           attempts' = Forget(counts, a), tries' = [tries EXCEPT ![a] = <<>>]
    PROVE  CountsInv'
<1>1. MAX_ATTEMPTS_ENTRIES \in Nat /\ max_attempts \in Nat /\ Len(counts) \in Nat
  BY DEF ChallengeAssumption
<1> DEFINE S == {e \in Range(counts) : e.ip # a}
<1>2. /\ attempts' = Kept(counts, S) /\ \A e \in S : e.ip # a /\ e \in Range(counts)
  BY DEF Forget
<1> HIDE DEF S
<1>3. /\ attempts' \in Seq(Entry) /\ Len(attempts') <= Len(counts)
      /\ Range(attempts') \subseteq Range(counts) \cap S
  BY <1>2, KeptFacts, KeptRange
<1>4. tries' \in TriesOf /\ \A b \in Addresses : Len(tries'[b]) <= max_attempts + 1
  BY <1>1 DEF CountsInv, TriesOf
<1>5. ASSUME NEW e \in Range(attempts'), e.left > 0
      PROVE  Recent(tries'[e.ip], e.count, e.left)
  <2>1. e \in Range(counts) /\ e.ip # a /\ e \in Entry
    BY <1>2, <1>3 DEF Range
  <2>2. tries'[e.ip] = tries[e.ip]
    BY <2>1 DEF CountsInv, TriesOf, Entry
  <2> QED
    BY <1>5, <2>1, <2>2
<1>6. Len(attempts') \in Nat
  BY <1>3
<1>7. Len(attempts') <= MAX_ATTEMPTS_ENTRIES
  BY <1>1, <1>3, <1>6
<1> QED
  BY <1>3, <1>4, <1>5, <1>7 DEF CountsInv, TriesOf, Entry, Recent, Window, Range

\* A function on 1..n is a sequence.
LEMMA AsSequence ==
    ASSUME NEW X, NEW n \in Nat, NEW f \in [1..n -> X] PROVE f \in Seq(X) /\ Len(f) = n
  OBVIOUS

\* Time passes: what was recent still is, as far as its count lives.
LEMMA TriesAge ==
    ASSUME ChallengeAssumption, NEW ages \in Seq(0..Window), NEW n \in Nat, NEW left \in Nat,
           left > 0, Recent(ages, n, left + 1),
           NEW newer, newer = Kept([i \in DOMAIN ages |-> ages[i] + 1], 0..Window - 1)
    PROVE  Recent(newer, n, left)
<1> DEFINE older == [i \in DOMAIN ages |-> ages[i] + 1]
           S == 0..Window - 1
<1>1. Window \in Nat /\ Len(ages) \in Nat /\ \A i \in 1..Len(ages) : ages[i] \in 0..Window
  BY DEF ChallengeAssumption, Window
<1>2. /\ older \in Seq(Nat) /\ Len(older) = Len(ages)
      /\ \A i \in 1..Len(ages) : older[i] = ages[i] + 1
  <2>1. DOMAIN ages = 1..Len(ages) /\ older \in [1..Len(ages) -> Nat]
    BY <1>1
  <2> QED
    BY <1>1, <2>1
<1>3. /\ n <= Len(ages)
      /\ \A k \in 0..n - 1 : ages[Len(ages) - k] + (left + 1) <= Window
  BY DEF Recent
<1>4. ASSUME NEW j \in Len(older) - n + 1..Len(older) PROVE older[j] \in S
  <2>1. /\ Len(ages) - j \in 0..n - 1 /\ Len(ages) - (Len(ages) - j) = j /\ j \in 1..Len(ages)
    BY <1>1, <1>2, <1>3
  <2>2. ages[j] + (left + 1) <= Window
    BY <1>3, <2>1
  <2> QED
    BY <1>1, <1>2, <2>1, <2>2
<1>5. newer = Kept(older, S)
  OBVIOUS
<1> HIDE DEF older, S
<1>6. /\ n <= Len(newer)
      /\ \A k \in 0..n - 1 : newer[Len(newer) - k] = older[Len(older) - k]
  <2>1. n \in 0..Len(older) /\ \A j \in Len(older) - n + 1..Len(older) : older[j] \in S
    BY <1>1, <1>2, <1>3, <1>4
  <2> QED
    BY <1>2, <1>5, <2>1, KeptAtTheEnd
<1>7. ASSUME NEW k \in 0..n - 1 PROVE newer[Len(newer) - k] + left <= Window
  <2>1. Len(ages) - k \in 1..Len(ages)
    BY <1>1, <1>3
  <2>2. newer[Len(newer) - k] = ages[Len(ages) - k] + 1
    BY <1>2, <1>6, <2>1
  <2> QED
    BY <1>1, <1>3, <2>1, <2>2
<1> QED
  BY <1>6, <1>7 DEF Recent

LEMMA TickStep == ChallengeAssumption /\ ChallengeInv /\ Tick => ChallengeInv'
<1> SUFFICES ASSUME ChallengeAssumption, ChallengeInv, Tick PROVE ChallengeInv'
  OBVIOUS
<1>1. /\ pending \in Seq(Page) /\ Len(pending) <= MAX_PENDING
      /\ attempts \in Seq(Entry) /\ Len(attempts) <= MAX_ATTEMPTS_ENTRIES
      /\ Window \in Nat /\ resolve_seconds \in Nat /\ tries \in TriesOf
      /\ \A a \in Addresses : Len(tries[a]) <= max_attempts + 1
  BY DEF ChallengeInv, PagesInv, CountsInv, ChallengeAssumption, Window
<1>2. pending' = Less(pending) /\ attempts' = Less(attempts)
  BY DEF Tick
<1>3. pending' \in Seq(Page) /\ Len(pending') = Len(pending)
  <2>1. \A i \in DOMAIN pending : pending[i] \in Page
    BY <1>1
  <2>2. ASSUME NEW i \in DOMAIN pending PROVE pending'[i] \in Page
    <3>1. pending'[i] = [pending[i] EXCEPT !.left = IF @ = 0 THEN 0 ELSE @ - 1]
      BY <1>2 DEF Less
    <3>2. pending[i] \in Page
      BY <2>1
    <3> QED
      BY <1>1, <3>1, <3>2 DEF Page
  <2>3. Len(pending) \in Nat /\ DOMAIN pending = 1..Len(pending)
    BY <1>1
  <2>4. pending' \in [1..Len(pending) -> Page]
    BY <1>2, <2>2, <2>3 DEF Less
  <2> QED
    BY <2>3, <2>4, AsSequence
<1>4. /\ attempts' \in Seq(Entry) /\ Len(attempts') = Len(attempts)
      /\ \A i \in DOMAIN attempts : attempts'[i].left > 0 =>
            /\ attempts[i].left = attempts'[i].left + 1 /\ attempts[i].ip = attempts'[i].ip
            /\ attempts[i].count = attempts'[i].count
      /\ DOMAIN attempts' = DOMAIN attempts
  <2>1. \A i \in DOMAIN attempts : attempts[i] \in Entry
    BY <1>1
  <2>2. ASSUME NEW i \in DOMAIN attempts
        PROVE  /\ attempts'[i] \in Entry
               /\ attempts'[i].left > 0 =>
                     /\ attempts[i].left = attempts'[i].left + 1
                     /\ attempts[i].ip = attempts'[i].ip /\ attempts[i].count = attempts'[i].count
    <3>1. attempts'[i] = [attempts[i] EXCEPT !.left = IF @ = 0 THEN 0 ELSE @ - 1]
      BY <1>2 DEF Less
    <3>2. /\ attempts[i].ip \in Addresses /\ attempts[i].count \in 1..max_attempts + 1
          /\ attempts[i].left \in 0..Window
      BY <2>1 DEF Entry
    <3>3. /\ attempts'[i].ip = attempts[i].ip /\ attempts'[i].count = attempts[i].count
          /\ attempts'[i].left = IF attempts[i].left = 0 THEN 0 ELSE attempts[i].left - 1
      BY <2>1, <3>1 DEF Entry
    <3>4. attempts'[i].left \in 0..Window
      BY <1>1, <3>2, <3>3
    <3>5. attempts'[i] \in Entry
      BY <2>1, <3>1, <3>2, <3>3, <3>4 DEF Entry
    <3> QED
      BY <1>1, <3>2, <3>3, <3>5
  <2>3. Len(attempts) \in Nat /\ DOMAIN attempts = 1..Len(attempts)
    BY <1>1
  <2>4. attempts' \in [1..Len(attempts) -> Entry]
    BY <1>2, <2>2, <2>3 DEF Less
  <2> QED
    BY <2>2, <2>3, <2>4, AsSequence
<1>5. ASSUME NEW a \in Addresses
      PROVE  /\ tries[a] \in Seq(0..Window) /\ tries'[a] \in Seq(0..Window)
             /\ Len(tries'[a]) <= max_attempts + 1
             /\ tries'[a] = Kept([i \in DOMAIN tries[a] |-> tries[a][i] + 1], 0..Window - 1)
  <2> DEFINE older == [i \in DOMAIN tries[a] |-> tries[a][i] + 1]
             S == 0..Window - 1
  <2>1. tries[a] \in Seq(0..Window) /\ Len(tries[a]) \in Nat /\ DOMAIN tries[a] = 1..Len(tries[a])
    BY <1>1 DEF TriesOf
  <2>2. older \in Seq(Nat) /\ Len(older) = Len(tries[a])
    <3>1. older \in [1..Len(tries[a]) -> Nat]
      BY <1>1, <2>1
    <3> QED
      BY <2>1, <3>1
  <2>3. tries'[a] = Kept(older, S)
    BY DEF Tick
  <2> HIDE DEF older, S
  <2>4. /\ tries'[a] \in Seq(Nat) /\ Len(tries'[a]) <= Len(tries[a])
        /\ \A i \in DOMAIN tries'[a] : tries'[a][i] \in S
    BY <2>2, <2>3, KeptFacts
  <2>5. tries'[a] \in Seq(0..Window)
    <3>1. Len(tries'[a]) \in Nat /\ DOMAIN tries'[a] = 1..Len(tries'[a])
      BY <2>4
    <3>2. tries'[a] \in [1..Len(tries'[a]) -> 0..Window]
      BY <1>1, <2>4, <3>1 DEF S
    <3> QED
      BY <3>1, <3>2, AsSequence
  <2>6. Len(tries'[a]) <= max_attempts + 1
    BY <1>1, <2>1, <2>4 DEF ChallengeAssumption
  <2> QED
    BY <2>1, <2>3, <2>5, <2>6 DEF older, S
<1>6. tries' \in TriesOf
  BY <1>5 DEF Tick, TriesOf
<1>7. ASSUME NEW i \in DOMAIN attempts', attempts'[i].left > 0
      PROVE  Recent(tries'[attempts'[i].ip], attempts'[i].count, attempts'[i].left)
  <2>1. /\ attempts[i] \in Entry /\ attempts'[i] \in Entry /\ attempts[i] \in Range(attempts)
    BY <1>1, <1>4 DEF Range
  <2>2. /\ attempts[i].left = attempts'[i].left + 1 /\ attempts[i].ip = attempts'[i].ip
        /\ attempts[i].count = attempts'[i].count
    BY <1>4, <1>7
  <2>3. attempts'[i].left \in Nat /\ attempts'[i].count \in Nat /\ attempts'[i].ip \in Addresses
    BY <2>1 DEF Entry
  <2>4. Recent(tries[attempts'[i].ip], attempts'[i].count, attempts'[i].left + 1)
    BY <1>7, <2>1, <2>2, <2>3 DEF ChallengeInv, CountsInv
  <2> QED
    BY <1>5, <1>7, <2>3, <2>4, TriesAge
<1>8. PagesInv'
  BY <1>1, <1>3 DEF PagesInv, ChallengeInv, Tick, Page, Id, Modes
<1>9. CountsInv'
  BY <1>1, <1>4, <1>5, <1>6, <1>7 DEF CountsInv, TriesOf, Entry, Recent, Window, Range
<1> QED
  BY <1>8, <1>9 DEF ChallengeInv

LEMMA ChallengeInitially == ChallengeAssumption /\ ChallengeInit => ChallengeInv
  BY DEF ChallengeInit, ChallengeInv, PagesInv, CountsInv, ChallengeAssumption, TriesOf,
      Window, Range

\* What a try does to the counts.
LEMMA TryStep ==
    ASSUME ChallengeAssumption, ChallengeInv, NEW e \in Page, Try(e)
    PROVE  CountsInv' /\ (TooMany(e) => Len(tries'[e.ip]) > max_attempts)
<1>1. e.ip \in Addresses /\ CountsInv
  BY DEF Page, ChallengeInv
<1>2. /\ attempts' = Counted(Swept(attempts), e.ip)
      /\ tries' = [tries EXCEPT ![e.ip] = LastOf(max_attempts + 1, Append(@, 0))]
  BY DEF Try
<1>3. /\ attempts' \in Seq(Entry) /\ Len(attempts') <= MAX_ATTEMPTS_ENTRIES
      /\ tries' \in TriesOf /\ \A b \in Addresses : Len(tries'[b]) <= max_attempts + 1
      /\ \A d \in Range(attempts') : Recent(tries'[d.ip], d.count, d.left)
      /\ Attempted(Swept(attempts), e.ip) > max_attempts => Len(tries'[e.ip]) > max_attempts
  BY <1>1, <1>2, AttemptStep
<1> QED
  BY <1>3 DEF CountsInv, TooMany, TriesOf, Entry, Recent, Window, Range

\* Every step.
LEMMA ChallengeStep ==
    ASSUME ChallengeAssumption, ChallengeInv, ChallengeNext
    PROVE  ChallengeInv' /\ \A a \in Addresses : a \in expelled' \ expelled
                                                    => Len(tries'[a]) > max_attempts
<1>1. /\ pending \in Seq(Page) /\ Len(pending) <= MAX_PENDING
      /\ \A e \in Range(pending) : e \in Page
      /\ verifying \subseteq [id : Id, ip : Addresses] /\ expelled \subseteq Addresses
      /\ issued \in 0..MaxIds /\ issued \in Nat /\ MaxIds \in Nat /\ MAX_PENDING \in Nat
      /\ attempts \in Seq(Entry) /\ Len(attempts) <= MAX_ATTEMPTS_ENTRIES
      /\ MAX_ATTEMPTS_ENTRIES \in Nat /\ Len(attempts) \in Nat /\ Len(pending) \in Nat
      /\ PagesInv /\ CountsInv
  BY SweptPages DEF ChallengeInv, PagesInv, CountsInv, ChallengeAssumption
<1>2. /\ Swept(pending) \in Seq(Page) /\ Len(Swept(pending)) <= MAX_PENDING
      /\ \A e \in Range(Swept(pending)) : e \in Page
  BY <1>1, SweptPages
<1>3. /\ Swept(attempts) \in Seq(Entry) /\ Len(Swept(attempts)) <= MAX_ATTEMPTS_ENTRIES
      /\ Range(Swept(attempts)) \subseteq Range(attempts) /\ Unexpired(attempts) = Swept(attempts)
  BY <1>1, SweptCounts DEF Swept
<1>4. \A s \in Seq(Page) : \A id :
         Without(s, id) \in Seq(Page) /\ Len(Without(s, id)) <= Len(s)
  BY KeptFacts DEF Without
<1>5. ASSUME NEW s \in Seq(Page), NEW a \in Addresses, NEW mode \in Modes, Reissue(s, a, mode)
      PROVE  pending' \in Seq(Page) /\ Len(pending') <= MAX_PENDING /\ issued' \in 0..MaxIds
  <2>1. issued < MaxIds /\ issued' = issued + 1 /\ pending' = Issued(s, a, mode)
    BY <1>5 DEF Reissue
  <2> QED
    BY <1>1, <2>1, IssuedPages
<1> DEFINE Earned == \A a \in Addresses :
                        a \in expelled' \ expelled => Len(tries'[a]) > max_attempts
<1>6. ASSUME UNCHANGED expelled PROVE Earned
  BY <1>6
<1> HIDE DEF Earned
<1>7. ASSUME NEW mode \in Modes, NEW a \in Addresses, Issue(a, mode) PROVE ChallengeInv' /\ Earned
  <2>1. Reissue(pending, a, mode)
    BY <1>7 DEF Issue, Reissue
  <2>2. PagesInv'
    BY <1>1, <1>5, <1>7, <2>1 DEF Issue, PagesInv, Page, Id, Modes
  <2>3. CountsInv'
    BY <1>1, <1>3, <1>7, CountsRemain DEF Issue
  <2> QED
    BY <1>6, <1>7, <2>2, <2>3 DEF Issue, ChallengeInv
<1>8. ASSUME NEW mode \in Modes, NEW a \in Addresses, NEW id, Lost(a, id, mode)
      PROVE  ChallengeInv' /\ Earned
  <2>1. PagesInv'
    BY <1>1, <1>2, <1>5, <1>8 DEF Lost, PagesInv, Page, Id, Modes
  <2>2. CountsInv'
    BY <1>1, <1>3, <1>8, CountsRemain DEF Lost
  <2> QED
    BY <1>6, <1>8, <2>1, <2>2 DEF Lost, ChallengeInv
<1>9. ASSUME NEW mode \in Modes, NEW e \in Range(pending), Fail(e, mode)
      PROVE  ChallengeInv' /\ Earned
  <2>1. e \in Page /\ e.ip \in Addresses
    BY <1>1 DEF Page
  <2>2. PagesInv'
    BY <1>1, <1>2, <1>5, <1>9, <2>1 DEF Fail, PagesInv, Page, Id, Modes
  <2>3. CountsInv'
    BY <1>9, <2>1, TryStep DEF Fail
  <2> QED
    BY <1>6, <1>9, <2>2, <2>3 DEF Fail, ChallengeInv
<1>10. ASSUME NEW mode \in Modes, NEW v \in verifying, ProviderRefuses(v, mode)
       PROVE  ChallengeInv' /\ Earned
  <2>1. v.ip \in Addresses
    BY <1>1
  <2>2. PagesInv'
    BY <1>1, <1>5, <1>10, <2>1 DEF ProviderRefuses, PagesInv, Page, Id, Modes
  <2>3. CountsInv'
    BY <1>1, <1>3, <1>10, CountsRemain DEF ProviderRefuses
  <2> QED
    BY <1>6, <1>10, <2>2, <2>3 DEF ProviderRefuses, ChallengeInv
<1>11. ASSUME NEW e \in Range(pending), Expel(e) PROVE ChallengeInv' /\ Earned
  <2>1. e \in Page /\ e.ip \in Addresses
    BY <1>1 DEF Page
  <2>2. pending' \in Seq(Page) /\ Len(pending') <= Len(Swept(pending))
    BY <1>2, <1>4, <1>11 DEF Expel
  <2>3. Len(pending') <= MAX_PENDING
    <3>1. Len(pending') \in Nat /\ Len(Swept(pending)) \in Nat
      BY <1>2, <2>2
    <3> QED
      BY <1>1, <1>2, <2>2, <3>1
  <2>4. PagesInv'
    BY <1>1, <1>11, <2>1, <2>2, <2>3 DEF Expel, PagesInv, Page, Id, Modes
  <2>5. CountsInv' /\ Len(tries'[e.ip]) > max_attempts
    BY <1>11, <2>1, TryStep DEF Expel
  <2>6. Earned
    BY <1>11, <2>5 DEF Expel, Earned
  <2> QED
    BY <2>4, <2>5, <2>6 DEF ChallengeInv
<1>12. ASSUME NEW e \in Range(pending), Solve(e) PROVE ChallengeInv' /\ Earned
  <2>1. e \in Page /\ e.ip \in Addresses
    BY <1>1 DEF Page
  <2>2. pending' \in Seq(Page) /\ Len(pending') <= Len(Swept(pending))
    BY <1>2, <1>4, <1>12 DEF Solve
  <2>3. Len(pending') <= MAX_PENDING
    <3>1. Len(pending') \in Nat /\ Len(Swept(pending)) \in Nat
      BY <1>2, <2>2
    <3> QED
      BY <1>1, <1>2, <2>2, <3>1
  <2>4. PagesInv'
    BY <1>1, <1>12, <2>2, <2>3 DEF Solve, PagesInv, Page, Id, Modes
  <2> DEFINE counts == Counted(Swept(attempts), e.ip)
  <2>5. /\ counts \in Seq(Entry) /\ Len(counts) <= MAX_ATTEMPTS_ENTRIES
        /\ \A d \in Range(counts) : After(d, e.ip)
    BY <1>1, <2>1, CountedFacts
  <2>6. attempts' = Forget(counts, e.ip) /\ tries' = [tries EXCEPT ![e.ip] = <<>>]
    BY <1>12 DEF Solve, ClearAttempts
  <2> HIDE DEF counts
  <2>7. ASSUME NEW d \in Range(counts), d.ip # e.ip, d.left > 0
        PROVE  Recent(tries[d.ip], d.count, d.left)
    <3>1. d \in Range(attempts)
      BY <1>3, <2>5, <2>7 DEF After
    <3> QED
      BY <1>1, <2>7, <3>1 DEF CountsInv
  <2>8. CountsInv'
    BY <1>1, <2>1, <2>5, <2>6, <2>7, CountsForgotten
  <2> QED
    BY <1>6, <1>12, <2>4, <2>8 DEF Solve, ChallengeInv
<1>13. ASSUME NEW e \in Range(pending), AskProvider(e) PROVE ChallengeInv' /\ Earned
  <2>1. e \in Page /\ e.ip \in Addresses /\ e.id \in Id
    BY <1>1 DEF Page
  <2>2. PagesInv'
    BY <1>1, <1>2, <1>13, <2>1 DEF AskProvider, PagesInv, Page, Id, Modes
  <2>3. CountsInv'
    BY <1>13, <2>1, TryStep DEF AskProvider
  <2> QED
    BY <1>6, <1>13, <2>2, <2>3 DEF AskProvider, ChallengeInv
<1>14. ASSUME NEW v \in verifying, ProviderAccepts(v) PROVE ChallengeInv' /\ Earned
  <2>1. v.ip \in Addresses
    BY <1>1
  <2>2. pending' \in Seq(Page) /\ Len(pending') <= Len(pending)
    BY <1>1, <1>4, <1>14 DEF ProviderAccepts
  <2>3. Len(pending') <= MAX_PENDING
    <3>1. Len(pending') \in Nat
      BY <2>2
    <3> QED
      BY <1>1, <2>2, <3>1
  <2>4. PagesInv'
    BY <1>1, <1>14, <2>2, <2>3 DEF ProviderAccepts, PagesInv, Page, Id, Modes
  <2>5. attempts' = Forget(attempts, v.ip) /\ tries' = [tries EXCEPT ![v.ip] = <<>>]
    BY <1>14 DEF ProviderAccepts, ClearAttempts
  <2>6. \A d \in Range(attempts) :
           d.ip # v.ip /\ d.left > 0 => Recent(tries[d.ip], d.count, d.left)
    BY <1>1 DEF CountsInv
  <2>7. CountsInv'
    BY <1>1, <2>1, <2>5, <2>6, CountsForgotten
  <2> QED
    BY <1>6, <1>14, <2>4, <2>7 DEF ProviderAccepts, ChallengeInv
<1>15. ASSUME NEW a \in Addresses, Readmit(a) PROVE ChallengeInv' /\ Earned
  <2>1. PagesInv'
    BY <1>1, <1>15 DEF Readmit, PagesInv, Page, Id, Modes
  <2>2. CountsInv'
    BY <1>1, <1>15, CountsRemain DEF Readmit
  <2>3. Earned
    BY <1>15 DEF Readmit, Earned
  <2> QED
    BY <2>1, <2>2, <2>3 DEF ChallengeInv
<1>16. ASSUME Tick PROVE ChallengeInv' /\ Earned
  BY <1>6, <1>16, TickStep DEF Tick
<1>17. ASSUME Restart PROVE ChallengeInv' /\ Earned
  <2>1. /\ attempts' = <<>> /\ pending' = <<>> /\ verifying' = {}
        /\ UNCHANGED <<issued, expelled, tries>>
    BY <1>17 DEF Restart
  <2>2. PagesInv'
    BY <1>1, <2>1 DEF PagesInv, Page, Id, Modes
  <2>3. attempts' \in Seq(Entry) /\ Len(attempts') = 0 /\ Range(attempts') = {}
    BY <2>1 DEF Range
  <2>4. CountsInv'
    BY <1>1, <2>1, <2>3, CountsRemain
  <2> QED
    BY <1>6, <2>1, <2>2, <2>4 DEF ChallengeInv
<1> QED
  BY <1>7, <1>8, <1>9, <1>10, <1>11, <1>12, <1>13, <1>14, <1>15, <1>16, <1>17
     DEF ChallengeNext, Earned

(***************************************************************************)
(* The gate bans only who has tried more often than allowed within a window*)
(* and has not succeeded since (services/challenge, recordAttempt() and    *)
(* clearAttempts()): whatever a count says has been tried as often, while  *)
(* the count lived.                                                        *)
(***************************************************************************)
THEOREM BansNeedTries ==
    ASSUME ChallengeAssumption
    PROVE  ChallengeSpec => []ChallengeTypeOK /\ BansAreEarned
<1>1. ChallengeInv /\ [ChallengeNext]_challengeVars => ChallengeInv'
  <2>1. ChallengeInv /\ ChallengeNext => ChallengeInv'
    BY ChallengeStep
  <2>2. ChallengeInv /\ UNCHANGED challengeVars => ChallengeInv'
    BY DEF challengeVars, ChallengeInv, PagesInv, CountsInv, Page, Entry, TriesOf, Recent, Id,
        Modes, Window, Range
  <2> QED
    BY <2>1, <2>2
<1>2. ChallengeInv => ChallengeTypeOK
  <2>1. Window \in Nat /\ max_attempts + 1 \in Nat /\ MAX_PENDING \in Nat
        /\ MAX_ATTEMPTS_ENTRIES \in Nat
    BY DEF ChallengeAssumption, Window
  <2> QED
    BY <2>1, Bounded DEF ChallengeInv, PagesInv, CountsInv, ChallengeTypeOK, Page, Entry, TriesOf
<1>3. ChallengeInv /\ [ChallengeNext]_challengeVars =>
        [\A a \in Addresses : a \in expelled' \ expelled
                                 => Len(tries'[a]) > max_attempts]_challengeVars
  BY ChallengeStep
<1>5. ChallengeInv' => expelled' \subseteq Addresses
  BY DEF ChallengeInv, PagesInv
<1>6. ChallengeInv /\ ChallengeInv' /\ [ChallengeNext]_challengeVars =>
        [\A a \in expelled' \ expelled : Len(tries'[a]) > max_attempts]_challengeVars
  BY <1>3, <1>5
<1> QED
  BY <1>1, <1>2, <1>6, ChallengeInitially, PTL DEF ChallengeSpec, BansAreEarned

=============================================================================
