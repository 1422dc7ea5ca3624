--------------------------- MODULE WafConfigProofs ---------------------------
(***************************************************************************)
(* What the pipeline guarantees, proved for any number of updates and of   *)
(* crashes: when every writer of any number of processes goes through      *)
(* updateWAF, and when one process does whatever it does.  Then no         *)
(* acknowledged update is lost, its answers are true, a failed transaction *)
(* leaves nothing behind and the pipeline is the atomic store of           *)
(* ConfigStore.  Type correctness is proved for every kind of operation.   *)
(***************************************************************************)
EXTENDS WafConfig, TLAPS

-----------------------------------------------------------------------------
(* Type correctness.                                                       *)

\* An operation that is under way carries an update, unless it re-renders.
Carries ==
    \A p \in Procs :
        \/ pc[p] \in {"down", "bootBlob", "bootCheck", "idle"}
        \/ op[p].u \in Updates
        \/ op[p].kind = "rerender" /\ pc[p] \in {"lock", "patch", "reload", "return"}

TypeInv == TypeOK /\ Carries

(***************************************************************************)
(* A process that only moves on within an operation carrying an update     *)
(* keeps the labels typed and everybody's update in place.                 *)
(***************************************************************************)
LEMMA Moves ==
    ASSUME TypeOK, Carries, NEW p \in Procs, NEW label \in Labels,
           op[p].u \in Updates, op' = op, Goto(p, label)
    PROVE  pc' \in [Procs -> Labels] /\ Carries'
<1>1. pc' \in [Procs -> Labels] /\ \A q \in Procs \ {p} : pc'[q] = pc[q]
    BY DEF Goto, TypeOK
<1> QED
    BY <1>1 DEF Carries

\* Every step keeps the types, whatever the operation.
LEMMA TypeStep == TypeInv /\ [Next]_vars => TypeInv'
<1> SUFFICES ASSUME TypeInv, [Next]_vars PROVE TypeInv'
    OBVIOUS
<1> USE DEF TypeInv, TypeOK, Carries, Configs, edge, row, copy
<1> USE BadAssumption, OpsOfAssumption, MaxCrashesAssumption
<1>1. ASSUME NEW p \in Procs, NEW reply \in {"ok", "applied", "failed"},
             Answer(p, reply), inside' \in SUBSET Procs,
             UNCHANGED <<row, copy, edge, crashes>>
      PROVE TypeInv'
    BY <1>1 DEF Answer, Goto, Labels, NoOp, NoSnap
<1>2. ASSUME NEW p \in Procs, BootRev(p) PROVE TypeInv'
    BY <1>2 DEF BootRev, Goto, Labels
<1>3. ASSUME NEW p \in Procs, BootBlob(p) PROVE TypeInv'
    BY <1>3 DEF BootBlob, Goto, Labels
<1>4. ASSUME NEW p \in Procs, BootCheck(p) PROVE TypeInv'
    BY <1>4 DEF BootCheck, Goto, Labels
<1>5. ASSUME NEW p \in Procs, Begin(p) PROVE TypeInv'
    BY <1>5 DEF Begin, Goto, Labels, Kinds
<1>6. ASSUME NEW p \in Procs, BeginRerender(p) PROVE TypeInv'
    BY <1>6 DEF BeginRerender, Goto, Labels, Kinds
<1>7. ASSUME NEW p \in Procs, Acquire(p) PROVE TypeInv'
    BY <1>7 DEF Acquire, Goto, Labels, FirstStep, Lock!Enter
<1>8. ASSUME NEW p \in Procs, Mutate(p) PROVE TypeInv'
    BY <1>8 DEF Mutate, Goto, Labels
<1>9. ASSUME NEW p \in Procs, WriteBlob(p) PROVE TypeInv'
    BY <1>9 DEF WriteBlob, Goto, Labels
<1>10. ASSUME NEW p \in Procs, WriteRev(p) PROVE TypeInv'
    BY <1>10 DEF WriteRev, Goto, Labels
<1>11. ASSUME NEW p \in Procs, Patch(p) PROVE TypeInv'
  <2>1. pc' \in [Procs -> Labels] /\ pc[p] = "patch" /\ op' = op
        /\ \A q \in Procs : pc'[q] = IF q = p THEN pc'[p] ELSE pc[q]
    BY <1>11 DEF Patch, Goto, Labels
  <2>2. pc'[p] \in {"reload", "return"}
    BY <1>11 DEF Patch, Goto
  <2>3. Carries'
    BY <2>1, <2>2
  <2>4. /\ caddyfile' \in Configs
        /\ UNCHANGED <<live, caddyUp, binary, unrestored>>
    BY <1>11 DEF Patch, Render
  <2>5. inside' \in SUBSET Procs
    BY <1>11 DEF Patch, Lock!Leave
  <2> QED
    BY <1>11, <2>1, <2>3, <2>4, <2>5 DEF Patch
<1>12. ASSUME NEW p \in Procs, Reload(p) PROVE TypeInv'
    BY <1>12 DEF Reload, Goto, Labels, ReloadOk
<1>13. ASSUME NEW p \in Procs, TxBegin(p) PROVE TypeInv'
  <2>1. op[p].u \in Updates
    BY <1>13 DEF TxBegin
  <2>2. mem' \in [Procs -> Configs]
    BY <1>13, <2>1 DEF TxBegin
  <2>3. snap' \in [Procs -> [mem : Configs, file : Configs, refused : BOOLEAN]]
    <3>1. [mem |-> mem[p], file |-> caddyfile, refused |-> FALSE] \in
             [mem : Configs, file : Configs, refused : BOOLEAN]
      OBVIOUS
    <3> QED BY <1>13, <3>1 DEF TxBegin
  <2>4. pc' \in [Procs -> Labels] /\ Carries'
    BY <1>13, <2>1, Moves DEF TxBegin, Labels
  <2> QED
    BY <1>13, <2>2, <2>3, <2>4 DEF TxBegin
<1>14. ASSUME NEW p \in Procs, TxBlob(p) PROVE TypeInv'
    BY <1>14, Moves DEF TxBlob, Labels
<1>15. ASSUME NEW p \in Procs, TxPatch(p) PROVE TypeInv'
    BY <1>15 DEF TxPatch, Goto, Labels, Render
<1>16. ASSUME NEW p \in Procs, TxValidate(p) PROVE TypeInv'
    BY <1>16 DEF TxValidate, Goto, Labels
<1>17. ASSUME NEW p \in Procs, TxReload(p) PROVE TypeInv'
  <2>1. op[p].u \in Updates
    BY <1>17 DEF TxReload
  <2>2. pc' \in [Procs -> Labels]
    BY <1>17, <2>1 DEF TxReload, Goto, Labels
  <2>3. Carries'
    BY <1>17, <2>1 DEF TxReload, Goto
  <2>4. outcome' \in [Updates -> {"new", "open", "ok", "applied", "failed", "unknown"}]
    BY <1>17, <2>1 DEF TxReload
  <2> QED
    BY <1>17, <2>2, <2>3, <2>4 DEF TxReload, ReloadOk
<1>18. ASSUME NEW p \in Procs, TxRunning(p) PROVE TypeInv'
  <2>1. op[p].u \in Updates
    BY <1>18 DEF TxRunning
  <2>2. pc' \in [Procs -> Labels] /\ Carries'
    BY <1>18, <2>1 DEF TxRunning, Goto, Labels
  <2>3. snap' \in [Procs -> [mem : Configs, file : Configs, refused : BOOLEAN]]
    <3>1. [snap[p] EXCEPT !.refused = TRUE] \in
             [mem : Configs, file : Configs, refused : BOOLEAN]
      OBVIOUS
    <3> QED BY <1>18, <3>1 DEF TxRunning
  <2> QED
    BY <1>18, <2>2, <2>3 DEF TxRunning
<1>19. ASSUME NEW p \in Procs, TxRestore(p) PROVE TypeInv'
    BY <1>19 DEF TxRestore, Goto, Labels
<1>20. ASSUME NEW p \in Procs, TxRestoreFile(p) PROVE TypeInv'
    BY <1>20 DEF TxRestoreFile, Goto, Labels
<1>21. ASSUME NEW p \in Procs, TxRepatch(p) PROVE TypeInv'
    BY <1>21 DEF TxRepatch, Goto, Labels, Render
<1>22. ASSUME NEW p \in Procs, TxReloadAgain(p) PROVE TypeInv'
    BY <1>22 DEF TxReloadAgain, Goto, Labels, ReloadOk
<1>23. ASSUME NEW p \in Procs, Preview(p) PROVE TypeInv'
    BY <1>23 DEF Preview, Goto, Labels
<1>24. ASSUME NEW p \in Procs, Crash(p) PROVE TypeInv'
    BY <1>24 DEF Crash, Goto, Labels, NoOp, NoSnap
<1>25. ASSUME NEW p \in Procs, LockTimeout(p) PROVE TypeInv'
    BY <1>1, <1>25 DEF LockTimeout
<1>26. ASSUME NEW p \in Procs, Return(p) PROVE TypeInv'
    BY <1>1, <1>26 DEF Return, LeaveIfInside, Lock!Leave
<1>27. ASSUME NEW p \in Procs, TxFail(p) PROVE TypeInv'
    BY <1>1, <1>27 DEF TxFail, Lock!Leave
<1>28. ASSUME CaddyStop \/ CaddyStart PROVE TypeInv'
    BY <1>28 DEF CaddyStop, CaddyStart
<1>29. ASSUME UNCHANGED vars PROVE TypeInv'
    BY <1>29 DEF vars
<1> QED
    BY <1>2, <1>3, <1>4, <1>5, <1>6, <1>7, <1>8, <1>9, <1>10, <1>11, <1>12, <1>13, <1>14,
       <1>15, <1>16, <1>17, <1>18, <1>19, <1>20, <1>21, <1>22,
       <1>23, <1>24, <1>25, <1>26, <1>27, <1>28, <1>29
       DEF Next, Continue

(***************************************************************************)
(* Every variable keeps its type, whatever operations the processes mix:   *)
(* the revision never leaves the naturals, and what a roll-back restores   *)
(* is a configuration.                                                     *)
(***************************************************************************)
THEOREM TypeCorrect == Spec => []TypeOK
<1>1. Init => TypeInv
  BY BinaryAssumption, MaxCrashesAssumption
     DEF Init, TypeInv, TypeOK, Carries, Configs, Labels, NoOp, NoSnap
<1>2. TypeInv => TypeOK
  BY DEF TypeInv
<1> QED
  BY <1>1, <1>2, TypeStep, PTL DEF Spec

-----------------------------------------------------------------------------
(* updateWAF alone: the inductive invariant.                               *)

\* Nobody runs configTx, a CatAI action, a preview or a scheduled re-render.
UpdatersOnly == \A p \in Procs : OpsOf[p] \subseteq {"update", "store"}

Section == {"mutate", "blob", "rev", "patch", "reload", "return"}

Working(p) == pc[p] \in {"lock"} \cup Section

\* A working process carries an open update; an idle or starting one, nothing.
OneUpdateEach ==
    \A p \in Procs :
        IF Working(p)
        THEN /\ op[p].kind \in {"update", "store"} /\ op[p].u \in Updates
             /\ \/ outcome[op[p].u] = "open"
                \/ pc[p] = "return" /\ outcome[op[p].u] = "applied"
        ELSE pc[p] \in {"down", "bootBlob", "bootCheck", "idle"} /\ op[p] = NoOp

\* No two processes carry the same update.
NoSharedUpdate ==
    \A p, q \in Procs : Working(p) /\ Working(q) /\ op[p].u = op[q].u => p = q

Exclusive ==
    /\ \A p \in Procs : pc[p] \in Section <=> p \in inside
    /\ \A p, q \in inside : p = q

\* The updates whose revision is written: the row must hold them.
Secured(u) ==
    \/ outcome[u] \in {"ok", "applied"}
    \/ \E p \in Procs : pc[p] \in {"patch", "reload", "return"} /\ op[p].u = u

\* The updates a row or a copy may hold.
Known(u) ==
    \/ Secured(u)
    \/ outcome[u] = "unknown"
    \/ \E p \in Procs : pc[p] \in {"blob", "rev"} /\ op[p].u = u

RevisionsBehind == \A p \in Procs : loadedRev[p] <= dbRev

SecuredStored == \A u \in Updates : Secured(u) => u \in dbWaf

\* A copy whose revision is the current one holds everything that is secured.
CurrentCopies ==
    \A p \in Procs :
        pc[p] \notin {"down", "bootBlob"} /\ loadedRev[p] = dbRev =>
            \A u \in Updates : Secured(u) => u \in mem[p]

\* Between the mutator and the revision a process holds the row's successor.
CommitsCurrent ==
    \A p \in Procs :
        /\ pc[p] \in {"blob", "rev"} => loadedRev[p] = dbRev /\ op[p].u \in mem[p]
        /\ pc[p] = "rev" => dbWaf = mem[p]

NothingUnknown ==
    \A u \in Updates :
        u \in dbWaf \/ (\E p \in Procs : u \in mem[p]) => Known(u)

StoreInv ==
    /\ TypeOK /\ OneUpdateEach /\ NoSharedUpdate /\ Exclusive
    /\ RevisionsBehind /\ SecuredStored /\ CurrentCopies /\ CommitsCurrent
    /\ NothingUnknown

TxStep(p) ==
    \/ TxBegin(p) \/ TxBlob(p) \/ TxPatch(p) \/ TxValidate(p) \/ TxReload(p)
    \/ TxRunning(p) \/ TxRestore(p) \/ TxRestoreFile(p) \/ TxRepatch(p)
    \/ TxReloadAgain(p) \/ TxFail(p)

\* With updaters only, nobody renders outside an update.
LEMMA NoRerenders ==
    ASSUME UpdatersOnly, NEW p \in Procs PROVE ~BeginRerender(p) /\ ~Preview(p)
  BY DEF UpdatersOnly, BeginRerender, Preview

\* With updaters only, no step of a transaction is ever under way.
LEMMA NoTransactions == ASSUME OneUpdateEach, NEW p \in Procs PROVE ~TxStep(p)
  BY DEF OneUpdateEach, Working, Section, TxStep, TxBegin, TxBlob, TxPatch,
     TxValidate,
         TxReload, TxRunning, TxRestore, TxRestoreFile, TxRepatch, TxReloadAgain,
            TxFail

\* Every step of an updater keeps the invariant.
LEMMA StoreStep ==
    ASSUME UpdatersOnly, StoreInv, TypeOK', [Next]_vars
    PROVE  StoreInv'
<1> USE DEF StoreInv, TypeOK, Configs, edge, row, copy
<1> USE NoUpdateAssumption
<1>1. ASSUME NEW p \in Procs, BootRev(p) PROVE StoreInv'
  <2>1. OneUpdateEach'
    BY <1>1 DEF BootRev, Goto, OneUpdateEach, Working, Section
  <2>2. NoSharedUpdate'
    BY <1>1 DEF BootRev, Goto, NoSharedUpdate, OneUpdateEach, Working, Section
  <2>3. Exclusive'
    BY <1>1 DEF BootRev, Goto, Exclusive, Section, OneUpdateEach, Working
  <2>4. RevisionsBehind'
    BY <1>1 DEF BootRev, Goto, RevisionsBehind
  <2>5. SecuredStored'
    BY <1>1 DEF BootRev, Goto, SecuredStored, Secured, OneUpdateEach, Working,
       Section
  <2>6. CurrentCopies'
    BY <1>1 DEF BootRev, Goto, CurrentCopies, Secured, OneUpdateEach, Working,
       Section, RevisionsBehind, Exclusive
  <2>7. CommitsCurrent'
    BY <1>1 DEF BootRev, Goto, CommitsCurrent, CurrentCopies, Exclusive, Section,
       RevisionsBehind, OneUpdateEach, Working
  <2>8. NothingUnknown'
    BY <1>1 DEF BootRev, Goto, NothingUnknown, Known, Secured, OneUpdateEach,
       Working, Section
  <2> QED
    BY <2>1, <2>2, <2>3, <2>4, <2>5, <2>6, <2>7, <2>8
<1>2. ASSUME NEW p \in Procs, BootBlob(p) PROVE StoreInv'
  <2>1. OneUpdateEach'
    BY <1>2 DEF BootBlob, Goto, OneUpdateEach, Working, Section
  <2>2. NoSharedUpdate'
    BY <1>2 DEF BootBlob, Goto, NoSharedUpdate, OneUpdateEach, Working, Section
  <2>3. Exclusive'
    BY <1>2 DEF BootBlob, Goto, Exclusive, Section, OneUpdateEach, Working
  <2>4. RevisionsBehind'
    BY <1>2 DEF BootBlob, Goto, RevisionsBehind
  <2>5. SecuredStored'
    BY <1>2 DEF BootBlob, Goto, SecuredStored, Secured, OneUpdateEach, Working,
       Section
  <2>6. CurrentCopies'
    BY <1>2 DEF BootBlob, Goto, CurrentCopies, SecuredStored, Secured,
       OneUpdateEach, Working, Section, RevisionsBehind, Exclusive
  <2>7. CommitsCurrent'
    BY <1>2 DEF BootBlob, Goto, CommitsCurrent, CurrentCopies, Exclusive, Section,
       RevisionsBehind, OneUpdateEach, Working
  <2>8. NothingUnknown'
    BY <1>2 DEF BootBlob, Goto, NothingUnknown, Known, Secured, OneUpdateEach,
       Working, Section
  <2> QED
    BY <2>1, <2>2, <2>3, <2>4, <2>5, <2>6, <2>7, <2>8
<1>3. ASSUME NEW p \in Procs, BootCheck(p) PROVE StoreInv'
  <2>1. OneUpdateEach'
    BY <1>3 DEF BootCheck, Goto, OneUpdateEach, Working, Section
  <2>2. NoSharedUpdate'
    BY <1>3 DEF BootCheck, Goto, NoSharedUpdate, OneUpdateEach, Working, Section
  <2>3. Exclusive'
    BY <1>3 DEF BootCheck, Goto, Exclusive, Section, OneUpdateEach, Working
  <2>4. RevisionsBehind'
    BY <1>3 DEF BootCheck, Goto, RevisionsBehind
  <2>5. SecuredStored'
    BY <1>3 DEF BootCheck, Goto, SecuredStored, Secured, OneUpdateEach, Working,
       Section
  <2>6. CurrentCopies'
    BY <1>3 DEF BootCheck, Goto, CurrentCopies, Secured, OneUpdateEach, Working,
       Section, RevisionsBehind, Exclusive
  <2>7. CommitsCurrent'
    BY <1>3 DEF BootCheck, Goto, CommitsCurrent, CurrentCopies, Exclusive, Section,
       RevisionsBehind, OneUpdateEach, Working
  <2>8. NothingUnknown'
    BY <1>3 DEF BootCheck, Goto, NothingUnknown, Known, Secured, OneUpdateEach,
       Working, Section
  <2> QED
    BY <2>1, <2>2, <2>3, <2>4, <2>5, <2>6, <2>7, <2>8
<1>4. ASSUME NEW p \in Procs, Begin(p) PROVE StoreInv'
  <2>1. OneUpdateEach'
    BY <1>4 DEF Begin, Goto, OneUpdateEach, Working, Section, UpdatersOnly
  <2>2. NoSharedUpdate'
    BY <1>4 DEF Begin, Goto, NoSharedUpdate, OneUpdateEach, Working, Section,
       UpdatersOnly
  <2>3. Exclusive'
    BY <1>4 DEF Begin, Goto, Exclusive, Section, OneUpdateEach, Working,
       UpdatersOnly
  <2>4. RevisionsBehind'
    BY <1>4 DEF Begin, Goto, RevisionsBehind, UpdatersOnly
  <2>5. SecuredStored'
    BY <1>4 DEF Begin, Goto, SecuredStored, Secured, OneUpdateEach, Working,
       Section, UpdatersOnly
  <2>6. CurrentCopies'
    BY <1>4 DEF Begin, Goto, CurrentCopies, Secured, OneUpdateEach, Working,
       Section, RevisionsBehind, Exclusive, UpdatersOnly
  <2>7. CommitsCurrent'
    BY <1>4 DEF Begin, Goto, CommitsCurrent, CurrentCopies, Exclusive, Section,
       RevisionsBehind, OneUpdateEach, Working, UpdatersOnly
  <2>8. NothingUnknown'
    <3>1. mem' = mem
      BY <1>4 DEF Begin, UpdatersOnly
    <3>2. ASSUME NEW u \in Updates, Known(u) PROVE Known(u)'
      <4>1. outcome[u] # "new"
        BY <3>2 DEF Known, Secured, OneUpdateEach, Working, Section
      <4> QED
        BY <1>4, <3>2, <4>1 DEF Begin, Goto, Known, Secured
    <3> QED
      BY <1>4, <3>1, <3>2 DEF Begin, NothingUnknown
  <2> QED
    BY <2>1, <2>2, <2>3, <2>4, <2>5, <2>6, <2>7, <2>8
<1>5. ASSUME NEW p \in Procs, Acquire(p) PROVE StoreInv'
  <2>1. OneUpdateEach'
    BY <1>5 DEF Acquire, Goto, FirstStep, Lock!Enter, OneUpdateEach, Working,
       Section
  <2>2. NoSharedUpdate'
    BY <1>5 DEF Acquire, Goto, FirstStep, Lock!Enter, NoSharedUpdate,
       OneUpdateEach, Working, Section
  <2>3. Exclusive'
    BY <1>5 DEF Acquire, Goto, FirstStep, Lock!Enter, Exclusive, Section,
       OneUpdateEach, Working
  <2>4. RevisionsBehind'
    BY <1>5 DEF Acquire, Goto, FirstStep, Lock!Enter, RevisionsBehind
  <2>5. SecuredStored'
    BY <1>5 DEF Acquire, Goto, FirstStep, Lock!Enter, SecuredStored, Secured,
       OneUpdateEach, Working, Section
  <2>6. CurrentCopies'
    BY <1>5 DEF Acquire, Goto, FirstStep, Lock!Enter, CurrentCopies, Secured,
       OneUpdateEach, Working, Section, RevisionsBehind, Exclusive
  <2>7. CommitsCurrent'
    BY <1>5 DEF Acquire, Goto, FirstStep, Lock!Enter, CommitsCurrent,
       CurrentCopies, Exclusive, Section, RevisionsBehind, OneUpdateEach, Working
  <2>8. NothingUnknown'
    BY <1>5 DEF Acquire, Goto, FirstStep, Lock!Enter, NothingUnknown, Known,
       Secured, OneUpdateEach, Working, Section
  <2> QED
    BY <2>1, <2>2, <2>3, <2>4, <2>5, <2>6, <2>7, <2>8
<1>6. ASSUME NEW p \in Procs, LockTimeout(p) PROVE StoreInv'
  <2>1. OneUpdateEach'
    BY <1>6 DEF LockTimeout, Goto, Answer, NoOp, NoSharedUpdate, OneUpdateEach,
       Working, Section
  <2>2. NoSharedUpdate'
    BY <1>6 DEF LockTimeout, Goto, Answer, NoOp, NoSharedUpdate, OneUpdateEach,
       Working, Section
  <2>3. Exclusive'
    BY <1>6 DEF LockTimeout, Goto, Answer, NoOp, Exclusive, Section, OneUpdateEach,
       Working
  <2>4. RevisionsBehind'
    BY <1>6 DEF LockTimeout, Goto, Answer, NoOp, RevisionsBehind
  <2>5. SecuredStored'
    BY <1>6 DEF LockTimeout, Goto, Answer, NoOp, SecuredStored, Secured,
       OneUpdateEach, Working, Section
  <2>6. CurrentCopies'
    BY <1>6 DEF LockTimeout, Goto, Answer, NoOp, CurrentCopies, Secured,
       OneUpdateEach, Working, Section, RevisionsBehind, Exclusive
  <2>7. CommitsCurrent'
    BY <1>6 DEF LockTimeout, Goto, Answer, NoOp, CommitsCurrent, CurrentCopies,
       Exclusive, Section, RevisionsBehind, OneUpdateEach, Working
  <2>8. NothingUnknown'
    BY <1>6 DEF LockTimeout, Goto, Answer, NoOp, NothingUnknown, Known, Secured,
       OneUpdateEach, Working, Section
  <2> QED
    BY <2>1, <2>2, <2>3, <2>4, <2>5, <2>6, <2>7, <2>8
<1>7. ASSUME NEW p \in Procs, Mutate(p) PROVE StoreInv'
  <2>1. OneUpdateEach'
    BY <1>7 DEF Mutate, Goto, OneUpdateEach, Working, Section
  <2>2. NoSharedUpdate'
    BY <1>7 DEF Mutate, Goto, NoSharedUpdate, OneUpdateEach, Working, Section
  <2>3. Exclusive'
    BY <1>7 DEF Mutate, Goto, Exclusive, Section, OneUpdateEach, Working
  <2>4. RevisionsBehind'
    BY <1>7 DEF Mutate, Goto, RevisionsBehind
  <2>5. SecuredStored'
    BY <1>7 DEF Mutate, Goto, SecuredStored, Secured, OneUpdateEach, Working,
       Section
  <2>6. CurrentCopies'
    BY <1>7 DEF Mutate, Goto, CurrentCopies, SecuredStored, Secured, OneUpdateEach,
       Working, Section, RevisionsBehind, Exclusive
  <2>7. CommitsCurrent'
    BY <1>7 DEF Mutate, Goto, CommitsCurrent, CurrentCopies, Exclusive, Section,
       RevisionsBehind, OneUpdateEach, Working
  <2>8. NothingUnknown'
    BY <1>7 DEF Mutate, Goto, NothingUnknown, Known, Secured, OneUpdateEach,
       Working, Section
  <2> QED
    BY <2>1, <2>2, <2>3, <2>4, <2>5, <2>6, <2>7, <2>8
<1>8. ASSUME NEW p \in Procs, WriteBlob(p) PROVE StoreInv'
  <2>1. OneUpdateEach'
    BY <1>8 DEF WriteBlob, Goto, OneUpdateEach, Working, Section
  <2>2. NoSharedUpdate'
    BY <1>8 DEF WriteBlob, Goto, NoSharedUpdate, OneUpdateEach, Working, Section
  <2>3. Exclusive'
    BY <1>8 DEF WriteBlob, Goto, Exclusive, Section, OneUpdateEach, Working
  <2>4. RevisionsBehind'
    BY <1>8 DEF WriteBlob, Goto, RevisionsBehind
  <2>5. SecuredStored'
    BY <1>8 DEF WriteBlob, Goto, SecuredStored, CurrentCopies, CommitsCurrent,
       Secured, OneUpdateEach, Working, Section
  <2>6. CurrentCopies'
    BY <1>8 DEF WriteBlob, Goto, CurrentCopies, Secured, OneUpdateEach, Working,
       Section, RevisionsBehind, Exclusive
  <2>7. CommitsCurrent'
    BY <1>8 DEF WriteBlob, Goto, CommitsCurrent, CurrentCopies, Exclusive, Section,
       RevisionsBehind, OneUpdateEach, Working
  <2>8. NothingUnknown'
    BY <1>8 DEF WriteBlob, Goto, NothingUnknown, Known, Secured, OneUpdateEach,
       Working, Section
  <2> QED
    BY <2>1, <2>2, <2>3, <2>4, <2>5, <2>6, <2>7, <2>8
<1>9. ASSUME NEW p \in Procs, WriteRev(p) PROVE StoreInv'
  <2>1. OneUpdateEach'
    BY <1>9 DEF WriteRev, Goto, OneUpdateEach, Working, Section
  <2>2. NoSharedUpdate'
    BY <1>9 DEF WriteRev, Goto, NoSharedUpdate, OneUpdateEach, Working, Section
  <2>3. Exclusive'
    BY <1>9 DEF WriteRev, Goto, Exclusive, Section, OneUpdateEach, Working
  <2>4. RevisionsBehind'
    BY <1>9 DEF WriteRev, Goto, RevisionsBehind
  <2>5. SecuredStored'
    BY <1>9 DEF WriteRev, Goto, SecuredStored, CommitsCurrent, Secured,
       OneUpdateEach, Working, Section
  <2>6. CurrentCopies'
    BY <1>9 DEF WriteRev, Goto, CurrentCopies, CommitsCurrent, Secured,
       OneUpdateEach, Working, Section, RevisionsBehind, Exclusive
  <2>7. CommitsCurrent'
    BY <1>9 DEF WriteRev, Goto, CommitsCurrent, CurrentCopies, Exclusive, Section,
       RevisionsBehind, OneUpdateEach, Working
  <2>8. NothingUnknown'
    BY <1>9 DEF WriteRev, Goto, NothingUnknown, Known, Secured, OneUpdateEach,
       Working, Section
  <2> QED
    BY <2>1, <2>2, <2>3, <2>4, <2>5, <2>6, <2>7, <2>8
<1>10. ASSUME NEW p \in Procs, Patch(p) PROVE StoreInv'
  <2>1. /\ pc[p] = "patch" /\ pc'[p] \in {"reload", "return"}
        /\ \A q \in Procs : q # p => pc'[q] = pc[q]
        /\ UNCHANGED <<dbWaf, dbRev, mem, loadedRev, op, inside, outcome>>
    BY <1>10 DEF Patch, Goto, OneUpdateEach, Working, Section
  <2>2. OneUpdateEach'
    BY <2>1 DEF OneUpdateEach, Working, Section
  <2>3. NoSharedUpdate'
    BY <2>1 DEF NoSharedUpdate, OneUpdateEach, Working, Section
  <2>4. Exclusive'
    BY <2>1 DEF Exclusive, Section
  <2>5. RevisionsBehind'
    BY <2>1 DEF RevisionsBehind
  <2>6. \A u \in Updates : (Secured(u)' <=> Secured(u)) /\ (Known(u)' <=> Known(u))
    BY <2>1 DEF Secured, Known
  <2>7. SecuredStored' /\ NothingUnknown'
    BY <2>1, <2>6 DEF SecuredStored, NothingUnknown
  <2>8. CurrentCopies'
    BY <2>1, <2>6 DEF CurrentCopies
  <2>9. CommitsCurrent'
    BY <2>1 DEF CommitsCurrent
  <2> QED
    BY <2>2, <2>3, <2>4, <2>5, <2>7, <2>8, <2>9
<1>11. ASSUME NEW p \in Procs, Reload(p) PROVE StoreInv'
  <2>1. OneUpdateEach'
    BY <1>11 DEF Reload, Goto, ReloadOk, NoSharedUpdate, OneUpdateEach, Working,
       Section
  <2>2. NoSharedUpdate'
    BY <1>11 DEF Reload, Goto, ReloadOk, NoSharedUpdate, OneUpdateEach, Working,
       Section
  <2>3. Exclusive'
    BY <1>11 DEF Reload, Goto, ReloadOk, Exclusive, Section, OneUpdateEach, Working
  <2>4. RevisionsBehind'
    BY <1>11 DEF Reload, Goto, ReloadOk, RevisionsBehind
  <2>5. SecuredStored'
    BY <1>11 DEF Reload, Goto, ReloadOk, SecuredStored, Secured, OneUpdateEach,
       Working, Section
  <2>6. CurrentCopies'
    BY <1>11 DEF Reload, Goto, ReloadOk, CurrentCopies, Secured, OneUpdateEach,
       Working, Section, RevisionsBehind, Exclusive
  <2>7. CommitsCurrent'
    BY <1>11 DEF Reload, Goto, ReloadOk, CommitsCurrent, CurrentCopies, Exclusive,
       Section, RevisionsBehind, OneUpdateEach, Working
  <2>8. NothingUnknown'
    BY <1>11 DEF Reload, Goto, ReloadOk, NothingUnknown, Known, Secured,
       OneUpdateEach, Working, Section
  <2> QED
    BY <2>1, <2>2, <2>3, <2>4, <2>5, <2>6, <2>7, <2>8
<1>12. ASSUME NEW p \in Procs, Return(p) PROVE StoreInv'
  <2>1. OneUpdateEach'
    BY <1>12 DEF Return, Goto, Answer, NoOp, LeaveIfInside, Lock!Leave,
       NoSharedUpdate, OneUpdateEach, Working, Section
  <2>2. NoSharedUpdate'
    BY <1>12 DEF Return, Goto, Answer, NoOp, LeaveIfInside, Lock!Leave,
       NoSharedUpdate, OneUpdateEach, Working, Section
  <2>3. Exclusive'
    BY <1>12 DEF Return, Goto, Answer, NoOp, LeaveIfInside, Lock!Leave, Exclusive,
       Section, OneUpdateEach, Working
  <2>4. RevisionsBehind'
    BY <1>12 DEF Return, Goto, Answer, NoOp, LeaveIfInside, Lock!Leave,
       RevisionsBehind
  <2>5. SecuredStored'
    BY <1>12 DEF Return, Goto, Answer, NoOp, LeaveIfInside, Lock!Leave,
       SecuredStored, Secured, OneUpdateEach, Working, Section
  <2>6. CurrentCopies'
    BY <1>12 DEF Return, Goto, Answer, NoOp, LeaveIfInside, Lock!Leave,
       CurrentCopies, Secured, OneUpdateEach, Working, Section, RevisionsBehind,
       Exclusive
  <2>7. CommitsCurrent'
    BY <1>12 DEF Return, Goto, Answer, NoOp, LeaveIfInside, Lock!Leave,
       CommitsCurrent, CurrentCopies, Exclusive, Section, RevisionsBehind,
       OneUpdateEach, Working
  <2>8. NothingUnknown'
    BY <1>12 DEF Return, Goto, Answer, NoOp, LeaveIfInside, Lock!Leave,
       NothingUnknown, Known, Secured, OneUpdateEach, Working, Section
  <2> QED
    BY <2>1, <2>2, <2>3, <2>4, <2>5, <2>6, <2>7, <2>8
<1>13. ASSUME NEW p \in Procs, Crash(p) PROVE StoreInv'
  <2>1. OneUpdateEach'
    BY <1>13 DEF Crash, Goto, NoOp, NoSharedUpdate, OneUpdateEach, Working, Section
  <2>2. NoSharedUpdate'
    BY <1>13 DEF Crash, Goto, NoOp, NoSharedUpdate, OneUpdateEach, Working, Section
  <2>3. Exclusive'
    BY <1>13 DEF Crash, Goto, NoOp, Exclusive, Section, OneUpdateEach, Working
  <2>4. RevisionsBehind'
    BY <1>13 DEF Crash, Goto, NoOp, RevisionsBehind
  <2>5. SecuredStored'
    BY <1>13 DEF Crash, Goto, NoOp, SecuredStored, Secured, OneUpdateEach, Working,
       Section
  <2>6. CurrentCopies'
    BY <1>13 DEF Crash, Goto, NoOp, CurrentCopies, Secured, OneUpdateEach, Working,
       Section, RevisionsBehind, Exclusive
  <2>7. CommitsCurrent'
    BY <1>13 DEF Crash, Goto, NoOp, CommitsCurrent, CurrentCopies, Exclusive,
       Section, RevisionsBehind, OneUpdateEach, Working
  <2>8. NothingUnknown'
    BY <1>13 DEF Crash, Goto, NoOp, NothingUnknown, Known, Secured, OneUpdateEach,
       Working, Section
  <2> QED
    BY <2>1, <2>2, <2>3, <2>4, <2>5, <2>6, <2>7, <2>8
<1>14. ASSUME NEW p \in Procs PROVE ~BeginRerender(p) /\ ~Preview(p)
  BY NoRerenders
<1>15. ASSUME NEW p \in Procs PROVE ~TxStep(p)
  BY NoTransactions
<1>16. ASSUME CaddyStop \/ CaddyStart \/ UNCHANGED vars PROVE StoreInv'
  BY <1>16 DEF CaddyStop, CaddyStart, vars, OneUpdateEach, NoSharedUpdate,
     Exclusive,
     RevisionsBehind, SecuredStored, CurrentCopies, CommitsCurrent, NothingUnknown,
        Known,
     Secured, Working, Section
<1> QED
  BY <1>1, <1>2, <1>3, <1>4, <1>5, <1>6, <1>7, <1>8, <1>9, <1>10, <1>11, <1>12,
     <1>13, <1>14, <1>15, <1>16 DEF Next, Continue, TxStep

(***************************************************************************)
(* The invariant behind the theorems: however many updateWAF calls         *)
(* interleave and die, an update whose revision is written is in the row   *)
(* and in every copy that carries the current revision.                    *)
(***************************************************************************)
THEOREM StoreInvariant == ASSUME UpdatersOnly PROVE Spec => []StoreInv
<1>1. Init /\ TypeOK => StoreInv
  BY DEF Init, StoreInv, OneUpdateEach, NoSharedUpdate, Exclusive, RevisionsBehind,
         SecuredStored, CurrentCopies, CommitsCurrent, NothingUnknown, Known, Secured,
         Working, Section
<1>2. StoreInv /\ TypeOK' /\ [Next]_vars => StoreInv'
  BY StoreStep
<1> QED
  BY <1>1, <1>2, TypeCorrect, PTL DEF Spec

(***************************************************************************)
(* No lost update, for every number of processes, updates and crashes:     *)
(* what a caller of updateWAF was told is stored stays in the row.         *)
(***************************************************************************)
THEOREM NoLostUpdate == ASSUME UpdatersOnly PROVE Spec => []AckedIsStored
<1>1. StoreInv => AckedIsStored
  BY DEF StoreInv, SecuredStored, Secured, AckedIsStored, Answered
<1> QED
  BY <1>1, StoreInvariant, PTL

(***************************************************************************)
(* The mutator of an updateWAF never runs on a stale snapshot: its copy    *)
(* and the row differ at most in updates whose process died half-way.      *)
(***************************************************************************)
THEOREM FreshMutations ==
    ASSUME UpdatersOnly PROVE Spec => MutatesCommittedOrInDoubt
<1>1. StoreInv /\ [Next]_vars =>
        [\A p \in Procs : Mutate(p) =>
            /\ (mem'[p] \ {op[p].u}) \ dbWaf \subseteq Answered({"unknown"})
            /\ dbWaf \ mem'[p] \subseteq Answered({"unknown"})]_vars
  <2> SUFFICES ASSUME StoreInv, NEW p \in Procs, Mutate(p)
               PROVE  /\ (mem'[p] \ {op[p].u}) \ dbWaf \subseteq Answered({"unknown"})
                      /\ dbWaf \ mem'[p] \subseteq Answered({"unknown"})
    OBVIOUS
  <2>1. \A q \in Procs : pc[q] \notin {"blob", "rev"}
    BY DEF StoreInv, Exclusive, Mutate, Section
  <2>2. \A u \in Updates : Known(u) => Secured(u) \/ u \in Answered({"unknown"})
    BY <2>1 DEF Known, Answered
  <2>3. \A u \in dbWaf : u \in Updates /\ Known(u)
    BY DEF StoreInv, NothingUnknown, TypeOK, Configs
  <2>4. \A u \in mem[p] : u \in Updates /\ Known(u)
    BY DEF StoreInv, NothingUnknown, TypeOK, Configs
  <2>5. \A u \in Updates : Secured(u) => u \in dbWaf
    BY DEF StoreInv, SecuredStored
  <2>6. loadedRev[p] = dbRev => \A u \in Updates : Secured(u) => u \in mem[p]
    BY DEF StoreInv, CurrentCopies, Mutate
  <2>7. mem'[p] = (IF loadedRev[p] = dbRev THEN mem[p] ELSE dbWaf) \cup {op[p].u}
    BY DEF Mutate, StoreInv, TypeOK, OneUpdateEach, Working, Section
  <2> QED
    BY <2>2, <2>3, <2>4, <2>5, <2>6, <2>7
<1> QED
  BY <1>1, StoreInvariant, PTL DEF Spec, MutatesCommittedOrInDoubt

-----------------------------------------------------------------------------
(* updateWAF alone: what a reload has activated stays active.              *)

\* The section that has written its revision renders the current copy, and the
\* Caddyfile holds what it is about to reload and what any reload has activated.
RendersCurrent ==
    /\ \A p \in Procs :
        /\ pc[p] \in {"patch", "reload", "return"} => loadedRev[p] = dbRev
        /\ pc[p] = "reload" => op[p].u \in caddyfile
    /\ Answered({"applied"}) \subseteq caddyfile
    /\ AppliedStaysLive

\* Every step of an updater keeps the Caddyfile current.
LEMMA RenderStep ==
    ASSUME UpdatersOnly, StoreInv, RendersCurrent, [Next]_vars
    PROVE  RendersCurrent'
<1> USE DEF StoreInv, TypeOK, Configs, edge, row, copy
<1> USE NoUpdateAssumption
<1> USE DEF RendersCurrent, AppliedStaysLive, Answered
<1>1. ASSUME NEW p \in Procs, BootRev(p) \/ BootBlob(p) \/ BootCheck(p)
      PROVE RendersCurrent'
  BY <1>1 DEF BootRev, BootBlob, BootCheck, Goto
<1>2. ASSUME NEW p \in Procs, Begin(p) PROVE RendersCurrent'
  BY <1>2 DEF Begin, Goto
<1>3. ASSUME NEW p \in Procs, Acquire(p) PROVE RendersCurrent'
  BY <1>3 DEF Acquire, Goto, FirstStep, OneUpdateEach, Working, Section
<1>4. ASSUME NEW p \in Procs, LockTimeout(p) PROVE RendersCurrent'
  BY <1>4 DEF LockTimeout, Answer, Goto
<1>5. ASSUME NEW p \in Procs, Mutate(p) \/ WriteBlob(p) PROVE RendersCurrent'
  BY <1>5 DEF Mutate, WriteBlob, Goto, Exclusive, Section
<1>6. ASSUME NEW p \in Procs, WriteRev(p) PROVE RendersCurrent'
  BY <1>6 DEF WriteRev, Goto, Exclusive, Section
<1>7. ASSUME NEW p \in Procs, Patch(p) PROVE RendersCurrent'
  <2>1. \A q \in Procs : pc[q] \in {"patch", "reload", "return"} => q = p
    BY <1>7 DEF Patch, Exclusive, Section
  <2>2. \A u \in Updates : Secured(u) => u \in mem[p]
    BY <1>7 DEF Patch, CurrentCopies
  <2>3. op[p].u \in mem[p] /\ Answered({"applied"}) \subseteq mem[p]
    BY <1>7, <2>2 DEF Patch, Secured, OneUpdateEach, Working, Section
  <2>4. CASE Render(p)
    BY <1>7, <2>1, <2>3, <2>4 DEF Patch, Render, Goto
  <2>5. CASE UNCHANGED edge /\ Goto(p, "return")
    BY <1>7, <2>5 DEF Patch, Goto
  <2> QED
    BY <1>7, <2>4, <2>5 DEF Patch
<1>8. ASSUME NEW p \in Procs, Reload(p) PROVE RendersCurrent'
  BY <1>8 DEF Reload, ReloadOk, Goto
<1>9. ASSUME NEW p \in Procs, Return(p) PROVE RendersCurrent'
  BY <1>9 DEF Return, Answer, Goto
<1>10. ASSUME NEW p \in Procs, Crash(p) PROVE RendersCurrent'
  BY <1>10 DEF Crash, Goto
<1>11. ASSUME CaddyStop \/ CaddyStart \/ UNCHANGED vars PROVE RendersCurrent'
  BY <1>11 DEF CaddyStop, CaddyStart, vars
<1>12. ASSUME NEW p \in Procs PROVE ~BeginRerender(p) /\ ~Preview(p) /\ ~TxStep(p)
  BY NoRerenders, NoTransactions
<1> QED
  BY <1>1, <1>2, <1>3, <1>4, <1>5, <1>6, <1>7, <1>8, <1>9, <1>10, <1>11, <1>12
     DEF Next, Continue, TxStep

(***************************************************************************)
(* What a reload has activated stays active among updateWAF callers,       *)
(* whatever the number of processes: a later commit renders a copy that    *)
(* holds every acknowledged update, so neither its reload nor a restart of *)
(* Caddy from the file it wrote takes one out again.                       *)
(***************************************************************************)
THEOREM AppliedStays == ASSUME UpdatersOnly PROVE Spec => []AppliedStaysLive
<1>1. Init => RendersCurrent
  BY DEF Init, RendersCurrent, AppliedStaysLive, Answered
<1>2. StoreInv /\ RendersCurrent /\ [Next]_vars => RendersCurrent'
  BY RenderStep
<1>3. RendersCurrent => AppliedStaysLive
  BY DEF RendersCurrent
<1> QED
  BY <1>1, <1>2, <1>3, StoreInvariant, PTL DEF Spec

\* An answer moves its update in the store, where a reload that succeeded is "ok".
LEMMA AnswerMoves ==
    ASSUME TypeOK, NEW u \in Updates, NEW from \in {"new", "open"}, NEW reply,
           NEW to \in {"open", "ok", "failed", "unknown"},
           reply = to \/ (reply = "applied" /\ to = "ok"),
           outcome[u] = from, outcome' = [outcome EXCEPT ![u] = reply], dbWaf' = dbWaf
    PROVE  Store!Move(u, from, to)
<1>1. Told[u] = from
  BY DEF Told, TypeOK
<1>2. Told' = [Told EXCEPT ![u] = to]
  BY DEF Told, TypeOK
<1> QED
  BY <1>1, <1>2 DEF Store!Move

\* Every step is one of the store, or leaves row and answers alone.
LEMMA StoreSimulation ==
    ASSUME UpdatersOnly, StoreInv, StoreInv', [Next]_vars
    PROVE  [Store!Next]_Store!vars
<1> USE DEF StoreInv, TypeOK, Configs, edge, row, copy
<1> DEFINE Stutters == UNCHANGED <<dbWaf, Told>>
<1>1. ASSUME UNCHANGED <<dbWaf, outcome>> PROVE Stutters
  BY <1>1 DEF Told
<1>2. ASSUME NEW p \in Procs, Begin(p) PROVE Store!Next
  <2>1. PICK u \in Updates : outcome[u] = "new" /\ outcome' = [outcome EXCEPT ![u] = "open"]
    BY <1>2 DEF Begin
  <2>2. Store!Move(u, "new", "open")
    BY AnswerMoves, <1>2, <2>1 DEF Begin
  <2> QED
    BY <2>2 DEF Store!Next
<1>3. ASSUME NEW p \in Procs, WriteBlob(p) PROVE Store!Next
  <2> DEFINE u == op[p].u
  <2>1. u \in Updates /\ outcome[u] = "open" /\ u \in mem[p]
    BY <1>3 DEF WriteBlob, OneUpdateEach, Working, Section, CommitsCurrent
  <2>2. Told' = Told /\ Told[u] = "open" /\ dbWaf' = mem[p]
    BY <1>3, <2>1 DEF WriteBlob, Told
  <2>3. \A q \in Procs : pc[q] \in {"blob", "rev"} => q = p
    BY <1>3 DEF Exclusive, WriteBlob, Section
  <2>4. \A v \in Updates : Known(v) => Secured(v) \/ v \in Store!Holding("unknown") \/ v = u
    BY <2>3 DEF Known, Store!Holding, Told
  <2>5. \A v \in dbWaf \cup mem[p] : v \in Updates /\ Known(v)
    BY DEF NothingUnknown
  <2>6. \A v \in Updates : Secured(v) => v \in dbWaf /\ v \in mem[p]
    BY <1>3 DEF SecuredStored, CurrentCopies, CommitsCurrent, WriteBlob
  <2>7. dbWaf' \ Store!Holding("unknown") = (dbWaf \cup {u}) \ Store!Holding("unknown")
    BY <2>1, <2>2, <2>4, <2>5, <2>6
  <2>8. Store!Apply(u)
    BY <2>1, <2>2, <2>7 DEF Store!Apply
  <2> QED
    BY <2>1, <2>8 DEF Store!Next
<1>4. ASSUME NEW p \in Procs, Reload(p) PROVE Store!Next \/ Stutters
  <2>1. op[p].u \in Updates /\ outcome[op[p].u] = "open" /\ op[p].u \in dbWaf
    BY <1>4 DEF Reload, OneUpdateEach, Working, Section, SecuredStored, Secured
  <2>2. CASE outcome' = [outcome EXCEPT ![op[p].u] = "applied"]
    <3>1. Store!Move(op[p].u, "open", "ok")
      BY AnswerMoves, <1>4, <2>1, <2>2 DEF Reload
    <3> QED BY <2>1, <3>1 DEF Store!Next
  <2>3. CASE UNCHANGED outcome
    BY <1>1, <1>4, <2>3 DEF Reload
  <2> QED
    BY <1>4, <2>1, <2>2, <2>3, NoUpdateAssumption DEF Reload
<1>5. ASSUME NEW p \in Procs, Return(p) PROVE Store!Next \/ Stutters
  <2>1. op[p].u \in Updates /\ op[p].u \in dbWaf
    BY <1>5 DEF Return, OneUpdateEach, Working, Section, SecuredStored, Secured
  <2>2. CASE outcome[op[p].u] = "applied"
    <3>1. outcome' = outcome
      BY <1>5, <2>1, <2>2, NoUpdateAssumption DEF Return, Answer
    <3> QED BY <1>1, <1>5, <3>1 DEF Return
  <2>3. CASE outcome[op[p].u] = "open"
    <3>1. outcome' = [outcome EXCEPT ![op[p].u] = "ok"]
      BY <1>5, <2>1, <2>3, NoUpdateAssumption DEF Return, Answer
    <3>2. Store!Move(op[p].u, "open", "ok")
      BY AnswerMoves, <1>5, <2>1, <2>3, <3>1 DEF Return
    <3> QED BY <2>1, <3>2 DEF Store!Next
  <2> QED
    BY <1>5, <2>2, <2>3 DEF Return, OneUpdateEach, Working, Section
<1>6. ASSUME NEW p \in Procs, LockTimeout(p) PROVE Store!Next
  <2>1. op[p].u \in Updates /\ outcome[op[p].u] = "open"
    BY <1>6 DEF LockTimeout, OneUpdateEach, Working, Section
  <2>2. ~Known(op[p].u)
    BY <1>6, <2>1 DEF LockTimeout, Known, Secured, NoSharedUpdate, Working, Section
  <2>3. op[p].u \notin dbWaf
    BY <2>1, <2>2 DEF NothingUnknown
  <2>4. Store!Move(op[p].u, "open", "failed")
    BY AnswerMoves, <1>6, <2>1, NoUpdateAssumption DEF LockTimeout, Answer
  <2> QED
    BY <2>1, <2>3, <2>4 DEF Store!Next
<1>7. ASSUME NEW p \in Procs, Crash(p) PROVE Store!Next \/ Stutters
  <2>1. CASE op[p].u # NoUpdate /\ outcome[op[p].u] = "open"
    <3>1. op[p].u \in Updates
      BY <2>1
    <3>2. Store!Move(op[p].u, "open", "unknown")
      BY AnswerMoves, <1>7, <2>1, <3>1 DEF Crash
    <3> QED BY <3>1, <3>2 DEF Store!Next
  <2>2. CASE ~(op[p].u # NoUpdate /\ outcome[op[p].u] = "open")
    BY <1>1, <1>7, <2>2 DEF Crash
  <2> QED BY <2>1, <2>2
<1>8. ASSUME NEW p \in Procs,
             BootRev(p) \/ BootBlob(p) \/ BootCheck(p) \/ Acquire(p) \/ Mutate(p)
             \/ WriteRev(p) \/ Patch(p)
      PROVE  Stutters
  BY <1>1, <1>8 DEF BootRev, BootBlob, BootCheck, Acquire, Mutate, WriteRev, Patch
<1>9. ASSUME CaddyStop \/ CaddyStart \/ UNCHANGED vars PROVE Stutters
  BY <1>1, <1>9 DEF CaddyStop, CaddyStart, vars
<1>10. ASSUME NEW p \in Procs PROVE ~BeginRerender(p) /\ ~Preview(p)
  BY NoRerenders
<1>11. ASSUME NEW p \in Procs PROVE ~TxStep(p)
  BY NoTransactions
<1> QED
  BY <1>2, <1>3, <1>4, <1>5, <1>6, <1>7, <1>8, <1>9, <1>10, <1>11
     DEF Next, Continue, TxStep, Store!vars

(***************************************************************************)
(* updateWAF implements the atomic store: an answered update never changes *)
(* sides, and a commit changes nothing but its own update and those in     *)
(* doubt, for every number of processes, updates and crashes.              *)
(***************************************************************************)
THEOREM Implementation == ASSUME UpdatersOnly PROVE Spec => ImplementsStore
<1>1. Init => Store!Init
  BY DEF Init, Store!Init, Told
<1>2. StoreInv /\ StoreInv' /\ [Next]_vars => [Store!Next]_Store!vars
  BY StoreSimulation
<1> QED
  BY <1>1, <1>2, StoreInvariant, PTL DEF Spec, Store!Spec, ImplementsStore

-----------------------------------------------------------------------------
(* What the abstract store promises, and so the pipeline.                  *)

(***************************************************************************)
(* An update answered "ok" is in the store and one answered "failed" is    *)
(* not, from the answer on: what a commit may do to updates in doubt never *)
(* touches an answered one.                                                *)
(***************************************************************************)
THEOREM StorePromises == Store!Spec => []Store!AnswersHold
<1> DEFINE Promised == /\ dbWaf \in SUBSET Updates
                       /\ Told \in [Updates -> Store!Outcomes]
                       /\ Store!AnswersHold
<1> USE DEF Store!AnswersHold, Store!Holding
<1>1. Store!Init => Promised
  BY DEF Store!Init, Store!Outcomes
<1>2. Promised /\ [Store!Next]_Store!vars => Promised'
  <2> SUFFICES ASSUME Promised, [Store!Next]_Store!vars PROVE Promised'
    OBVIOUS
  <2>1. ASSUME NEW u \in Updates, Store!Apply(u) PROVE Promised'
    <3>1. \A v \in Updates : Told[v] # "unknown" /\ v # u => (v \in dbWaf' <=> v \in dbWaf)
      BY <2>1 DEF Store!Apply
    <3> QED
      BY <2>1, <3>1 DEF Store!Apply
  <2>2. ASSUME NEW u \in Updates, Store!Retract(u) PROVE Promised'
    BY <2>2 DEF Store!Retract
  <2>3. ASSUME NEW u \in Updates, NEW from \in {"new", "open"},
               NEW to \in {"open", "ok", "failed", "unknown"}, Store!Move(u, from, to),
               to = "ok" => u \in dbWaf, to = "failed" => u \notin dbWaf
        PROVE  Promised'
    BY <2>3 DEF Store!Move, Store!Outcomes
  <2>4. ASSUME UNCHANGED Store!vars PROVE Promised'
    BY <2>4 DEF Store!vars
  <2> QED
    BY <2>1, <2>2, <2>3, <2>4 DEF Store!Next
<1> QED
  BY <1>1, <1>2, PTL DEF Store!Spec

(***************************************************************************)
(* What updateWAF has answered stays true of the row, whatever is written  *)
(* later and by whom, when every writer goes through updateWAF.            *)
(***************************************************************************)
THEOREM AnswersStay == ASSUME UpdatersOnly PROVE Spec => []Store!AnswersHold
  BY Implementation, StorePromises, PTL DEF ImplementsStore

-----------------------------------------------------------------------------
(***************************************************************************)
(* What one process on its own keeps true whatever it does: updateWAF,     *)
(* CatAI actions, configTx with its validation and roll-back, scheduled    *)
(* re-renders and previews, dying and restarting anywhere, with Caddy      *)
(* stopping and starting by itself.                                        *)
(***************************************************************************)


\* Nobody else is running: no CLI beside the API server.
OneProcess == \A p, q \in Procs : p = q

-----------------------------------------------------------------------------
(* The inductive invariant.                                                *)

\* A transaction before its mutation, and from its snapshot to its roll-back.
Undoable == {"txBlob", "txPatch", "txValidate", "txReload", "txRunning", "txRestore"}

TxSection ==
    Undoable \cup {"txBegin", "txRestoreFile", "txRepatch", "txReloadAgain", "txFail"}

\* Where the row holds the update under way, and where it does not (yet).
Stored == {"rev", "patch", "reload", "return",
           "txPatch", "txValidate", "txReload", "txRunning"}
NotStored == {"lock", "mutate", "blob", "txBegin", "txBlob",
              "txRestoreFile", "txRepatch", "txReloadAgain", "txFail"}

\* Where it cannot have been rendered.
Unrendered == {"lock", "mutate", "blob", "txBegin", "txBlob", "txPatch"}

\* Where the copy in memory is exactly the row.
Current == {"bootCheck", "idle", "rev", "patch", "reload", "return", "txBegin",
            "txPatch", "txValidate", "txReload", "txRunning",
            "txRestoreFile", "txRepatch", "txReloadAgain", "txFail"}

\* A configuration nobody has yet to ask for, and nobody was refused, a part of.
Clean(config) == config \cap Answered({"new", "failed"}) = {}

\* Whoever waits for the lock finds it free.
LockIsFree ==
    \A p \in Procs : p \in inside => pc[p] \in Section \cup TxSection

\* What is known of the update under way; only configTx carries a refused one.
OperationInv ==
    \A p \in Procs :
        /\ pc[p] \in {"down", "bootBlob", "bootCheck", "idle"} => op[p] = NoOp
        /\ pc[p] \in TxSection => op[p].kind = "tx"
        /\ pc[p] = "lock" => op[p].kind \in Kinds \ {"preview"}
        /\ pc[p] \in {"mutate", "blob", "rev"} =>
              op[p].kind \in {"update", "store", "catai"}
        /\ pc[p] \in {"patch", "reload"} => op[p].kind # "tx"
        /\ op[p].kind = "rerender" => op[p].u = NoUpdate
        /\ op[p].u \in Updates =>
              \/ outcome[op[p].u] = "open"
              \/ outcome[op[p].u] = "applied" /\ pc[p] = "return"
        /\ op[p].u \in Bad => op[p].kind = "tx"

\* The copy in memory is the row, but for the update on its way in or out.
CopyInv ==
    \A p \in Procs :
        /\ pc[p] # "down" => loadedRev[p] = dbRev
        /\ pc[p] \in Current => mem[p] = dbWaf
        /\ pc[p] \in {"lock", "mutate"} =>
              mem[p] = dbWaf \cup (IF op[p].kind = "catai" THEN {op[p].u} ELSE {})
        /\ pc[p] = "blob" => mem[p] = dbWaf \cup {op[p].u}
        /\ pc[p] \in Stored /\ op[p].u # NoUpdate => op[p].u \in dbWaf
        /\ pc[p] \in NotStored => op[p].u \notin dbWaf

\* What a roll-back restores is what there was, and still owes nobody anything.
SnapshotInv ==
    \A p \in Procs :
        /\ pc[p] \in Undoable =>
              /\ mem[p] = snap[p].mem \cup {op[p].u}
              /\ dbWaf \in {mem[p], snap[p].mem}
        /\ pc[p] \in Undoable \cup {"txRestoreFile"} =>
              /\ op[p].u \notin snap[p].mem /\ op[p].u \notin snap[p].file
              /\ Answered({"applied", "ok"}) \subseteq snap[p].mem
              /\ Answered({"applied"}) \subseteq snap[p].file
              /\ Clean(snap[p].mem) /\ Clean(snap[p].file \ unrestored)

\* The Caddyfile is the copy once it is rendered, valid once it is validated,
\* and an update that is being taken back is in it only if restoring it failed.
FileInv ==
    /\ \A p \in Procs :
        /\ pc[p] \in {"reload", "txValidate", "txReload", "txRunning"} => caddyfile = mem[p]
        /\ pc[p] \in {"txReload", "txRunning"} /\ binary => Valid(caddyfile)
        /\ pc[p] = "return" /\ binary => op[p].u \notin Bad
        /\ pc[p] \in Unrendered => op[p].u \notin caddyfile
        /\ pc[p] \in {"txRepatch", "txReloadAgain", "txFail"} =>
              op[p].u \notin caddyfile \ unrestored
    /\ Answered({"new"}) \cap unrestored = {}

\* Every answer is true of the row, of the copy, of the Caddyfile and of Caddy.
AnswerInv ==
    /\ Answered({"ok", "applied"}) \subseteq dbWaf
    /\ Answered({"applied"}) \subseteq caddyfile
    /\ AnswersHold
    /\ Clean(dbWaf) /\ Clean(caddyfile \ unrestored)
    /\ \A p \in Procs : Clean(mem[p])

SingleInv ==
    /\ TypeInv /\ LockIsFree /\ OperationInv
    /\ CopyInv /\ SnapshotInv /\ FileInv /\ AnswerInv

-----------------------------------------------------------------------------
(* Every step of a process on its own preserves it.                        *)

\* Alone, a process finds the lock free and its update open until it answers.
LEMMA ControlStep ==
    ASSUME OneProcess, SingleInv, TypeInv', [Next]_vars
    PROVE  LockIsFree' /\ OperationInv'
<1> USE NoUpdateAssumption, BadAssumption, OpsOfAssumption
<1> USE DEF SingleInv, OneProcess, TypeInv, TypeOK, Configs, edge, row, copy
<1> USE DEF LockIsFree, OperationInv, Kinds, Carries, Section, TxSection, Undoable
<1>1. ASSUME NEW p \in Procs, BootRev(p) PROVE LockIsFree' /\ OperationInv'
  BY <1>1 DEF BootRev, Goto
<1>2. ASSUME NEW p \in Procs, BootBlob(p) PROVE LockIsFree' /\ OperationInv'
  BY <1>2 DEF BootBlob, Goto
<1>3. ASSUME NEW p \in Procs, BootCheck(p) PROVE LockIsFree' /\ OperationInv'
  BY <1>3 DEF BootCheck, Goto
<1>4. ASSUME NEW p \in Procs, Begin(p) PROVE LockIsFree' /\ OperationInv'
  BY <1>4 DEF Begin, Goto
<1>5. ASSUME NEW p \in Procs, BeginRerender(p) PROVE LockIsFree' /\ OperationInv'
  BY <1>5 DEF BeginRerender, Goto
<1>6. ASSUME NEW p \in Procs, Acquire(p) PROVE LockIsFree' /\ OperationInv'
  BY <1>6 DEF Acquire, Goto, FirstStep, Lock!Enter
<1>7. ASSUME NEW p \in Procs, LockTimeout(p) PROVE LockIsFree' /\ OperationInv'
  BY <1>7 DEF LockTimeout, Goto, Answer, NoOp, NoSnap
<1>8. ASSUME NEW p \in Procs, Mutate(p) PROVE LockIsFree' /\ OperationInv'
  BY <1>8 DEF Mutate, Goto
<1>9. ASSUME NEW p \in Procs, WriteBlob(p) PROVE LockIsFree' /\ OperationInv'
  BY <1>9 DEF WriteBlob, Goto
<1>10. ASSUME NEW p \in Procs, WriteRev(p) PROVE LockIsFree' /\ OperationInv'
  BY <1>10 DEF WriteRev, Goto
<1>11. ASSUME NEW p \in Procs, Patch(p) PROVE LockIsFree' /\ OperationInv'
  BY <1>11 DEF Patch, Goto, Render, Lock!Leave
<1>12. ASSUME NEW p \in Procs, Reload(p) PROVE LockIsFree' /\ OperationInv'
  BY <1>12 DEF Reload, Goto, ReloadOk
<1>13. ASSUME NEW p \in Procs, Return(p) PROVE LockIsFree' /\ OperationInv'
  BY <1>13 DEF Return, Goto, Answer, NoOp, NoSnap, LeaveIfInside, Lock!Leave
<1>14. ASSUME NEW p \in Procs, TxBegin(p) PROVE LockIsFree' /\ OperationInv'
  BY <1>14 DEF TxBegin, Goto
<1>15. ASSUME NEW p \in Procs, TxBlob(p) PROVE LockIsFree' /\ OperationInv'
  BY <1>15 DEF TxBlob, Goto
<1>16. ASSUME NEW p \in Procs, TxPatch(p) PROVE LockIsFree' /\ OperationInv'
  BY <1>16 DEF TxPatch, Goto, Render
<1>17. ASSUME NEW p \in Procs, TxValidate(p) PROVE LockIsFree' /\ OperationInv'
  BY <1>17 DEF TxValidate, Goto
<1>18. ASSUME NEW p \in Procs, TxReload(p) PROVE LockIsFree' /\ OperationInv'
  BY <1>18 DEF TxReload, Goto, ReloadOk
<1>19. ASSUME NEW p \in Procs, TxRunning(p) PROVE LockIsFree' /\ OperationInv'
  BY <1>19 DEF TxRunning, Goto
<1>20. ASSUME NEW p \in Procs, TxRestore(p) PROVE LockIsFree' /\ OperationInv'
  BY <1>20 DEF TxRestore, Goto
<1>21. ASSUME NEW p \in Procs, TxRestoreFile(p) PROVE LockIsFree' /\ OperationInv'
  BY <1>21 DEF TxRestoreFile, Goto
<1>22. ASSUME NEW p \in Procs, TxRepatch(p) PROVE LockIsFree' /\ OperationInv'
  BY <1>22 DEF TxRepatch, Goto, Render
<1>23. ASSUME NEW p \in Procs, TxReloadAgain(p) PROVE LockIsFree' /\ OperationInv'
  BY <1>23 DEF TxReloadAgain, Goto, ReloadOk
<1>24. ASSUME NEW p \in Procs, TxFail(p) PROVE LockIsFree' /\ OperationInv'
  BY <1>24 DEF TxFail, Goto, Answer, NoOp, NoSnap, Lock!Leave
<1>25. ASSUME NEW p \in Procs, Preview(p) PROVE LockIsFree' /\ OperationInv'
  BY <1>25 DEF Preview, Goto
<1>26. ASSUME NEW p \in Procs, Crash(p) PROVE LockIsFree' /\ OperationInv'
  BY <1>26 DEF Crash, Goto, NoOp, NoSnap
<1>27. ASSUME CaddyStop \/ CaddyStart \/ UNCHANGED vars PROVE LockIsFree' /\ OperationInv'
  BY <1>27 DEF CaddyStop, CaddyStart, vars
<1> QED
  BY <1>1, <1>2, <1>3, <1>4, <1>5, <1>6, <1>7, <1>8, <1>9, <1>10, <1>11, <1>12,
     <1>13, <1>14, <1>15, <1>16, <1>17, <1>18, <1>19, <1>20, <1>21, <1>22, <1>23,
     <1>24, <1>25, <1>26, <1>27
     DEF Next, Continue

\* Alone, a process never works on a copy that is behind the row.
LEMMA CopyStep ==
    ASSUME OneProcess, SingleInv, TypeInv', [Next]_vars
    PROVE  CopyInv'
<1> USE NoUpdateAssumption, BadAssumption, OpsOfAssumption
<1> USE DEF SingleInv, OneProcess, TypeInv, TypeOK, Configs, edge, row, copy
<1> USE DEF LockIsFree, OperationInv, Kinds, Carries, Section, TxSection, Undoable,
            CopyInv, SnapshotInv, Stored, NotStored, Current, AnswerInv, Clean, Answered
<1>1. ASSUME NEW p \in Procs, BootRev(p) PROVE CopyInv'
  BY <1>1 DEF BootRev, Goto
<1>2. ASSUME NEW p \in Procs, BootBlob(p) PROVE CopyInv'
  BY <1>2 DEF BootBlob, Goto
<1>3. ASSUME NEW p \in Procs, BootCheck(p) PROVE CopyInv'
  BY <1>3 DEF BootCheck, Goto
<1>4. ASSUME NEW p \in Procs, Begin(p) PROVE CopyInv'
  BY <1>4 DEF Begin, Goto
<1>5. ASSUME NEW p \in Procs, BeginRerender(p) PROVE CopyInv'
  BY <1>5 DEF BeginRerender, Goto
<1>6. ASSUME NEW p \in Procs, Acquire(p) PROVE CopyInv'
  BY <1>6, SMTT(30) DEF Acquire, Goto, FirstStep, Lock!Enter
<1>7. ASSUME NEW p \in Procs, LockTimeout(p) PROVE CopyInv'
  BY <1>7 DEF LockTimeout, Goto, Answer, NoOp, NoSnap
<1>8. ASSUME NEW p \in Procs, Mutate(p) PROVE CopyInv'
  BY <1>8 DEF Mutate, Goto
<1>9. ASSUME NEW p \in Procs, WriteBlob(p) PROVE CopyInv'
  BY <1>9 DEF WriteBlob, Goto
<1>10. ASSUME NEW p \in Procs, WriteRev(p) PROVE CopyInv'
  BY <1>10 DEF WriteRev, Goto
<1>11. ASSUME NEW p \in Procs, Patch(p) PROVE CopyInv'
  BY <1>11 DEF Patch, Goto, Render, Lock!Leave
<1>12. ASSUME NEW p \in Procs, Reload(p) PROVE CopyInv'
  BY <1>12 DEF Reload, Goto, ReloadOk
<1>13. ASSUME NEW p \in Procs, Return(p) PROVE CopyInv'
  BY <1>13 DEF Return, Goto, Answer, NoOp, NoSnap, LeaveIfInside, Lock!Leave
<1>14. ASSUME NEW p \in Procs, TxBegin(p) PROVE CopyInv'
  BY <1>14 DEF TxBegin, Goto
<1>15. ASSUME NEW p \in Procs, TxBlob(p) PROVE CopyInv'
  BY <1>15 DEF TxBlob, Goto
<1>16. ASSUME NEW p \in Procs, TxPatch(p) PROVE CopyInv'
  BY <1>16 DEF TxPatch, Goto, Render
<1>17. ASSUME NEW p \in Procs, TxValidate(p) PROVE CopyInv'
  BY <1>17 DEF TxValidate, Goto
<1>18. ASSUME NEW p \in Procs, TxReload(p) PROVE CopyInv'
  BY <1>18 DEF TxReload, Goto, ReloadOk
<1>19. ASSUME NEW p \in Procs, TxRunning(p) PROVE CopyInv'
  BY <1>19 DEF TxRunning, Goto
<1>20. ASSUME NEW p \in Procs, TxRestore(p) PROVE CopyInv'
  BY <1>20 DEF TxRestore, Goto
<1>21. ASSUME NEW p \in Procs, TxRestoreFile(p) PROVE CopyInv'
  BY <1>21 DEF TxRestoreFile, Goto
<1>22. ASSUME NEW p \in Procs, TxRepatch(p) PROVE CopyInv'
  BY <1>22 DEF TxRepatch, Goto, Render
<1>23. ASSUME NEW p \in Procs, TxReloadAgain(p) PROVE CopyInv'
  BY <1>23 DEF TxReloadAgain, Goto, ReloadOk
<1>24. ASSUME NEW p \in Procs, TxFail(p) PROVE CopyInv'
  BY <1>24 DEF TxFail, Goto, Answer, NoOp, NoSnap, Lock!Leave
<1>25. ASSUME NEW p \in Procs, Preview(p) PROVE CopyInv'
  BY <1>25 DEF Preview, Goto
<1>26. ASSUME NEW p \in Procs, Crash(p) PROVE CopyInv'
  BY <1>26 DEF Crash, Goto, NoOp, NoSnap
<1>27. ASSUME CaddyStop \/ CaddyStart \/ UNCHANGED vars PROVE CopyInv'
  BY <1>27 DEF CaddyStop, CaddyStart, vars
<1> QED
  BY <1>1, <1>2, <1>3, <1>4, <1>5, <1>6, <1>7, <1>8, <1>9, <1>10, <1>11, <1>12,
     <1>13, <1>14, <1>15, <1>16, <1>17, <1>18, <1>19, <1>20, <1>21, <1>22, <1>23,
     <1>24, <1>25, <1>26, <1>27
     DEF Next, Continue

\* A snapshot stays what there was before the transaction.
LEMMA SnapshotStep ==
    ASSUME OneProcess, SingleInv, TypeInv', [Next]_vars
    PROVE  SnapshotInv'
<1> USE NoUpdateAssumption, BadAssumption, OpsOfAssumption
<1> USE DEF SingleInv, OneProcess, TypeInv, TypeOK, Configs, edge, row, copy
<1> USE DEF LockIsFree, OperationInv, Kinds, Carries, Section, TxSection, Undoable,
            CopyInv, SnapshotInv, Stored, NotStored, Current, AnswerInv, Clean, Answered,
            FileInv, Unrendered
<1>1. ASSUME NEW p \in Procs, BootRev(p) PROVE SnapshotInv'
  BY <1>1 DEF BootRev, Goto
<1>2. ASSUME NEW p \in Procs, BootBlob(p) PROVE SnapshotInv'
  BY <1>2 DEF BootBlob, Goto
<1>3. ASSUME NEW p \in Procs, BootCheck(p) PROVE SnapshotInv'
  BY <1>3 DEF BootCheck, Goto
<1>4. ASSUME NEW p \in Procs, Begin(p) PROVE SnapshotInv'
  BY <1>4 DEF Begin, Goto
<1>5. ASSUME NEW p \in Procs, BeginRerender(p) PROVE SnapshotInv'
  BY <1>5 DEF BeginRerender, Goto
<1>6. ASSUME NEW p \in Procs, Acquire(p) PROVE SnapshotInv'
  BY <1>6 DEF Acquire, Goto, FirstStep, Lock!Enter
<1>7. ASSUME NEW p \in Procs, LockTimeout(p) PROVE SnapshotInv'
  BY <1>7 DEF LockTimeout, Goto, Answer, NoOp, NoSnap
<1>8. ASSUME NEW p \in Procs, Mutate(p) PROVE SnapshotInv'
  BY <1>8 DEF Mutate, Goto
<1>9. ASSUME NEW p \in Procs, WriteBlob(p) PROVE SnapshotInv'
  BY <1>9 DEF WriteBlob, Goto
<1>10. ASSUME NEW p \in Procs, WriteRev(p) PROVE SnapshotInv'
  BY <1>10 DEF WriteRev, Goto
<1>11. ASSUME NEW p \in Procs, Patch(p) PROVE SnapshotInv'
  BY <1>11 DEF Patch, Goto, Render, Lock!Leave
<1>12. ASSUME NEW p \in Procs, Reload(p) PROVE SnapshotInv'
  BY <1>12 DEF Reload, Goto, ReloadOk
<1>13. ASSUME NEW p \in Procs, Return(p) PROVE SnapshotInv'
  BY <1>13 DEF Return, Goto, Answer, NoOp, NoSnap, LeaveIfInside, Lock!Leave
<1>14. ASSUME NEW p \in Procs, TxBegin(p) PROVE SnapshotInv'
  BY <1>14 DEF TxBegin, Goto
<1>15. ASSUME NEW p \in Procs, TxBlob(p) PROVE SnapshotInv'
  BY <1>15 DEF TxBlob, Goto
<1>16. ASSUME NEW p \in Procs, TxPatch(p) PROVE SnapshotInv'
  BY <1>16 DEF TxPatch, Goto, Render
<1>17. ASSUME NEW p \in Procs, TxValidate(p) PROVE SnapshotInv'
  BY <1>17 DEF TxValidate, Goto
<1>18. ASSUME NEW p \in Procs, TxReload(p) PROVE SnapshotInv'
  BY <1>18 DEF TxReload, Goto, ReloadOk
<1>19. ASSUME NEW p \in Procs, TxRunning(p) PROVE SnapshotInv'
  BY <1>19 DEF TxRunning, Goto
<1>20. ASSUME NEW p \in Procs, TxRestore(p) PROVE SnapshotInv'
  BY <1>20 DEF TxRestore, Goto
<1>21. ASSUME NEW p \in Procs, TxRestoreFile(p) PROVE SnapshotInv'
  BY <1>21 DEF TxRestoreFile, Goto
<1>22. ASSUME NEW p \in Procs, TxRepatch(p) PROVE SnapshotInv'
  BY <1>22 DEF TxRepatch, Goto, Render
<1>23. ASSUME NEW p \in Procs, TxReloadAgain(p) PROVE SnapshotInv'
  BY <1>23 DEF TxReloadAgain, Goto, ReloadOk
<1>24. ASSUME NEW p \in Procs, TxFail(p) PROVE SnapshotInv'
  BY <1>24 DEF TxFail, Goto, Answer, NoOp, NoSnap, Lock!Leave
<1>25. ASSUME NEW p \in Procs, Preview(p) PROVE SnapshotInv'
  BY <1>25 DEF Preview, Goto
<1>26. ASSUME NEW p \in Procs, Crash(p) PROVE SnapshotInv'
  BY <1>26 DEF Crash, Goto, NoOp, NoSnap
<1>27. ASSUME CaddyStop \/ CaddyStart \/ UNCHANGED vars PROVE SnapshotInv'
  BY <1>27 DEF CaddyStop, CaddyStart, vars
<1> QED
  BY <1>1, <1>2, <1>3, <1>4, <1>5, <1>6, <1>7, <1>8, <1>9, <1>10, <1>11, <1>12,
     <1>13, <1>14, <1>15, <1>16, <1>17, <1>18, <1>19, <1>20, <1>21, <1>22, <1>23,
     <1>24, <1>25, <1>26, <1>27
     DEF Next, Continue

\* The Caddyfile follows the copy, and loses an update that is taken back.
LEMMA FileStep ==
    ASSUME OneProcess, SingleInv, TypeInv', [Next]_vars
    PROVE  FileInv'
<1> USE NoUpdateAssumption, BadAssumption, OpsOfAssumption
<1> USE DEF SingleInv, OneProcess, TypeInv, TypeOK, Configs, edge, row, copy
<1> USE DEF LockIsFree, OperationInv, Kinds, Carries, Section, TxSection, Undoable,
            CopyInv, SnapshotInv, Stored, NotStored, Current, AnswerInv, Clean, Answered,
            FileInv, Unrendered, Valid, AnswersHold, RefusedIsNotAcked
<1>1. ASSUME NEW p \in Procs, BootRev(p) PROVE FileInv'
  BY <1>1 DEF BootRev, Goto
<1>2. ASSUME NEW p \in Procs, BootBlob(p) PROVE FileInv'
  BY <1>2 DEF BootBlob, Goto
<1>3. ASSUME NEW p \in Procs, BootCheck(p) PROVE FileInv'
  BY <1>3 DEF BootCheck, Goto
<1>4. ASSUME NEW p \in Procs, Begin(p) PROVE FileInv'
  BY <1>4 DEF Begin, Goto
<1>5. ASSUME NEW p \in Procs, BeginRerender(p) PROVE FileInv'
  BY <1>5 DEF BeginRerender, Goto
<1>6. ASSUME NEW p \in Procs, Acquire(p) PROVE FileInv'
  BY <1>6 DEF Acquire, Goto, FirstStep, Lock!Enter
<1>7. ASSUME NEW p \in Procs, LockTimeout(p) PROVE FileInv'
  BY <1>7 DEF LockTimeout, Goto, Answer, NoOp, NoSnap
<1>8. ASSUME NEW p \in Procs, Mutate(p) PROVE FileInv'
  BY <1>8 DEF Mutate, Goto
<1>9. ASSUME NEW p \in Procs, WriteBlob(p) PROVE FileInv'
  BY <1>9 DEF WriteBlob, Goto
<1>10. ASSUME NEW p \in Procs, WriteRev(p) PROVE FileInv'
  BY <1>10 DEF WriteRev, Goto
<1>11. ASSUME NEW p \in Procs, Patch(p) PROVE FileInv'
  BY <1>11 DEF Patch, Goto, Render, Lock!Leave
<1>12. ASSUME NEW p \in Procs, Reload(p) PROVE FileInv'
  BY <1>12 DEF Reload, Goto, ReloadOk
<1>13. ASSUME NEW p \in Procs, Return(p) PROVE FileInv'
  BY <1>13 DEF Return, Goto, Answer, NoOp, NoSnap, LeaveIfInside, Lock!Leave
<1>14. ASSUME NEW p \in Procs, TxBegin(p) PROVE FileInv'
  BY <1>14 DEF TxBegin, Goto
<1>15. ASSUME NEW p \in Procs, TxBlob(p) PROVE FileInv'
  BY <1>15 DEF TxBlob, Goto
<1>16. ASSUME NEW p \in Procs, TxPatch(p) PROVE FileInv'
  BY <1>16 DEF TxPatch, Goto, Render
<1>17. ASSUME NEW p \in Procs, TxValidate(p) PROVE FileInv'
  BY <1>17 DEF TxValidate, Goto
<1>18. ASSUME NEW p \in Procs, TxReload(p) PROVE FileInv'
  BY <1>18 DEF TxReload, Goto, ReloadOk
<1>19. ASSUME NEW p \in Procs, TxRunning(p) PROVE FileInv'
  BY <1>19 DEF TxRunning, Goto
<1>20. ASSUME NEW p \in Procs, TxRestore(p) PROVE FileInv'
  BY <1>20 DEF TxRestore, Goto
<1>21. ASSUME NEW p \in Procs, TxRestoreFile(p) PROVE FileInv'
  BY <1>21 DEF TxRestoreFile, Goto
<1>22. ASSUME NEW p \in Procs, TxRepatch(p) PROVE FileInv'
  BY <1>22 DEF TxRepatch, Goto, Render
<1>23. ASSUME NEW p \in Procs, TxReloadAgain(p) PROVE FileInv'
  BY <1>23 DEF TxReloadAgain, Goto, ReloadOk
<1>24. ASSUME NEW p \in Procs, TxFail(p) PROVE FileInv'
  BY <1>24 DEF TxFail, Goto, Answer, NoOp, NoSnap, Lock!Leave
<1>25. ASSUME NEW p \in Procs, Preview(p) PROVE FileInv'
  BY <1>25 DEF Preview, Goto
<1>26. ASSUME NEW p \in Procs, Crash(p) PROVE FileInv'
  BY <1>26 DEF Crash, Goto, NoOp, NoSnap
<1>27. ASSUME CaddyStop \/ CaddyStart \/ UNCHANGED vars PROVE FileInv'
  BY <1>27 DEF CaddyStop, CaddyStart, vars
<1> QED
  BY <1>1, <1>2, <1>3, <1>4, <1>5, <1>6, <1>7, <1>8, <1>9, <1>10, <1>11, <1>12,
     <1>13, <1>14, <1>15, <1>16, <1>17, <1>18, <1>19, <1>20, <1>21, <1>22, <1>23,
     <1>24, <1>25, <1>26, <1>27
     DEF Next, Continue

\* An answer that was true stays true, and a new one is.
LEMMA AnswerStep ==
    ASSUME OneProcess, SingleInv, TypeInv', [Next]_vars
    PROVE  AnswerInv'
<1> USE NoUpdateAssumption, BadAssumption, OpsOfAssumption
<1> USE DEF SingleInv, OneProcess, TypeInv, TypeOK, Configs, edge, row, copy
<1> USE DEF LockIsFree, OperationInv, Kinds, Carries, Section, TxSection, Undoable,
            CopyInv, SnapshotInv, Stored, NotStored, Current, AnswerInv, Clean, Answered,
            FileInv, Unrendered, Valid, AnswersHold, RefusedIsNotAcked, AppliedStaysLive
<1>1. ASSUME NEW p \in Procs, BootRev(p) PROVE AnswerInv'
  BY <1>1 DEF BootRev, Goto
<1>2. ASSUME NEW p \in Procs, BootBlob(p) PROVE AnswerInv'
  BY <1>2 DEF BootBlob, Goto
<1>3. ASSUME NEW p \in Procs, BootCheck(p) PROVE AnswerInv'
  BY <1>3 DEF BootCheck, Goto
<1>4. ASSUME NEW p \in Procs, Begin(p) PROVE AnswerInv'
  BY <1>4 DEF Begin, Goto
<1>5. ASSUME NEW p \in Procs, BeginRerender(p) PROVE AnswerInv'
  BY <1>5 DEF BeginRerender, Goto
<1>6. ASSUME NEW p \in Procs, Acquire(p) PROVE AnswerInv'
  BY <1>6 DEF Acquire, Goto, FirstStep, Lock!Enter
<1>7. ASSUME NEW p \in Procs, LockTimeout(p) PROVE AnswerInv'
  BY <1>7 DEF LockTimeout, Goto, Answer, NoOp, NoSnap
<1>8. ASSUME NEW p \in Procs, Mutate(p) PROVE AnswerInv'
  BY <1>8 DEF Mutate, Goto
<1>9. ASSUME NEW p \in Procs, WriteBlob(p) PROVE AnswerInv'
  BY <1>9 DEF WriteBlob, Goto
<1>10. ASSUME NEW p \in Procs, WriteRev(p) PROVE AnswerInv'
  BY <1>10 DEF WriteRev, Goto
<1>11. ASSUME NEW p \in Procs, Patch(p) PROVE AnswerInv'
  BY <1>11 DEF Patch, Goto, Render, Lock!Leave
<1>12. ASSUME NEW p \in Procs, Reload(p) PROVE AnswerInv'
  BY <1>12 DEF Reload, Goto, ReloadOk
<1>13. ASSUME NEW p \in Procs, Return(p) PROVE AnswerInv'
  BY <1>13 DEF Return, Goto, Answer, NoOp, NoSnap, LeaveIfInside, Lock!Leave
<1>14. ASSUME NEW p \in Procs, TxBegin(p) PROVE AnswerInv'
  BY <1>14 DEF TxBegin, Goto
<1>15. ASSUME NEW p \in Procs, TxBlob(p) PROVE AnswerInv'
  BY <1>15 DEF TxBlob, Goto
<1>16. ASSUME NEW p \in Procs, TxPatch(p) PROVE AnswerInv'
  BY <1>16 DEF TxPatch, Goto, Render
<1>17. ASSUME NEW p \in Procs, TxValidate(p) PROVE AnswerInv'
  BY <1>17 DEF TxValidate, Goto
<1>18. ASSUME NEW p \in Procs, TxReload(p) PROVE AnswerInv'
  BY <1>18 DEF TxReload, Goto, ReloadOk
<1>19. ASSUME NEW p \in Procs, TxRunning(p) PROVE AnswerInv'
  BY <1>19 DEF TxRunning, Goto
<1>20. ASSUME NEW p \in Procs, TxRestore(p) PROVE AnswerInv'
  BY <1>20 DEF TxRestore, Goto
<1>21. ASSUME NEW p \in Procs, TxRestoreFile(p) PROVE AnswerInv'
  BY <1>21 DEF TxRestoreFile, Goto
<1>22. ASSUME NEW p \in Procs, TxRepatch(p) PROVE AnswerInv'
  BY <1>22 DEF TxRepatch, Goto, Render
<1>23. ASSUME NEW p \in Procs, TxReloadAgain(p) PROVE AnswerInv'
  BY <1>23 DEF TxReloadAgain, Goto, ReloadOk
<1>24. ASSUME NEW p \in Procs, TxFail(p) PROVE AnswerInv'
  BY <1>24 DEF TxFail, Goto, Answer, NoOp, NoSnap, Lock!Leave
<1>25. ASSUME NEW p \in Procs, Preview(p) PROVE AnswerInv'
  BY <1>25 DEF Preview, Goto
<1>26. ASSUME NEW p \in Procs, Crash(p) PROVE AnswerInv'
  BY <1>26 DEF Crash, Goto, NoOp, NoSnap
<1>27. ASSUME CaddyStop \/ CaddyStart \/ UNCHANGED vars PROVE AnswerInv'
  BY <1>27 DEF CaddyStop, CaddyStart, vars
<1> QED
  BY <1>1, <1>2, <1>3, <1>4, <1>5, <1>6, <1>7, <1>8, <1>9, <1>10, <1>11, <1>12,
     <1>13, <1>14, <1>15, <1>16, <1>17, <1>18, <1>19, <1>20, <1>21, <1>22, <1>23,
     <1>24, <1>25, <1>26, <1>27
     DEF Next, Continue

\* Every step of the one process keeps the invariant.
LEMMA SingleStep ==
    ASSUME OneProcess, SingleInv, [Next]_vars PROVE SingleInv'
<1>1. TypeInv'
  BY TypeStep DEF SingleInv
<1> QED
  BY <1>1, ControlStep, CopyStep, SnapshotStep, FileStep, AnswerStep DEF SingleInv

(***************************************************************************)
(* The invariant behind the theorems, for every operation and any number   *)
(* of updates and crashes: between the row, the copy, the snapshot, the    *)
(* Caddyfile and the configuration Caddy runs, a process on its own keeps  *)
(* every answer it gave true and knows where its update under way is.      *)
(***************************************************************************)
THEOREM SingleInvariant == ASSUME OneProcess PROVE Spec => []SingleInv
<1>1. Init => TypeInv
  BY BinaryAssumption, MaxCrashesAssumption
     DEF Init, TypeInv, TypeOK, Carries, Configs, Labels, NoOp, NoSnap
<1>2. Init => LockIsFree /\ OperationInv /\ CopyInv /\ SnapshotInv
  BY NoUpdateAssumption, BadAssumption
     DEF Init, LockIsFree, OperationInv, CopyInv, SnapshotInv, NoOp, TxSection,
         Undoable, Stored, NotStored, Current
<1>3. Init => FileInv /\ AnswerInv
  BY DEF Init, FileInv, AnswerInv, Clean, Answered, AnswersHold, AppliedStaysLive,
         RefusedIsNotAcked, Unrendered
<1>4. SingleInv /\ [Next]_vars => SingleInv'
  BY SingleStep
<1> QED
  BY <1>1, <1>2, <1>3, <1>4, PTL DEF Spec, SingleInv

(***************************************************************************)
(* A transaction that fails leaves nothing behind: its update is neither   *)
(* in the row nor in the memory a later commit would persist, and in the   *)
(* Caddyfile only if writing the previous one back failed as well.         *)
(***************************************************************************)
THEOREM NoTraceOfFailure == ASSUME OneProcess PROVE Spec => []FailedLeavesNoTrace
<1>1. SingleInv => FailedLeavesNoTrace
  BY DEF SingleInv, AnswerInv, FailedLeavesNoTrace, Clean, Answered
<1> QED
  BY <1>1, SingleInvariant, PTL

(***************************************************************************)
(* A process on its own tells the truth: what it called reloaded stays in  *)
(* the configuration Caddy runs through every later operation, roll-back   *)
(* and restart, and with a binary to validate with it never reports        *)
(* success for a configuration Caddy refuses.                              *)
(***************************************************************************)
THEOREM AnswersAreTrue == ASSUME OneProcess PROVE Spec => []AnswersHold
<1>1. SingleInv => AnswersHold
  BY DEF SingleInv, AnswerInv
<1> QED
  BY <1>1, SingleInvariant, PTL

(***************************************************************************)
(* A process on its own loses no acknowledged update, whichever operation  *)
(* made it and whichever come after, roll-backs and previews included.     *)
(***************************************************************************)
THEOREM NoLostUpdateAlone == ASSUME OneProcess PROVE Spec => []AckedIsStored
<1>1. SingleInv => AckedIsStored
  BY DEF SingleInv, AnswerInv, AckedIsStored
<1> QED
  BY <1>1, SingleInvariant, PTL

-----------------------------------------------------------------------------
(* The refinement: a commit is an Apply, a roll-back a Retract.            *)

\* Every step is one of the store, or leaves row and answers alone.
LEMMA SingleSimulation ==
    ASSUME OneProcess, SingleInv, [Next]_vars PROVE [Store!Next]_Store!vars
<1> USE DEF SingleInv, TypeInv, TypeOK, Configs, edge, row, copy
<1> USE NoUpdateAssumption
<1> DEFINE Stutters == UNCHANGED <<dbWaf, Told>>
<1>1. ASSUME UNCHANGED <<dbWaf, outcome>> PROVE Stutters
  BY <1>1 DEF Told
<1>2. ASSUME NEW p \in Procs, op[p].u \in Updates, outcome[op[p].u] = "open",
             dbWaf' = dbWaf \cup {op[p].u}, outcome' = outcome
      PROVE  Store!Next
  <2>1. Told[op[p].u] = "open" /\ Told' = Told
    BY <1>2 DEF Told
  <2>2. Store!Apply(op[p].u)
    BY <1>2, <2>1 DEF Store!Apply
  <2> QED
    BY <1>2, <2>2 DEF Store!Next
<1>3. ASSUME NEW p \in Procs, Begin(p) PROVE Store!Next
  <2>1. PICK u \in Updates : outcome[u] = "new" /\ outcome' = [outcome EXCEPT ![u] = "open"]
    BY <1>3 DEF Begin
  <2>2. Store!Move(u, "new", "open")
    BY AnswerMoves, <1>3, <2>1 DEF Begin
  <2> QED
    BY <2>2 DEF Store!Next
<1>4. ASSUME NEW p \in Procs, WriteBlob(p) PROVE Store!Next
  BY <1>2, <1>4 DEF WriteBlob, Carries, OperationInv, CopyInv
<1>5. ASSUME NEW p \in Procs, TxBlob(p) PROVE Store!Next \/ Stutters
  <2>1. CASE dbWaf' = mem[p]
    <3>1. /\ op[p].u \in Updates /\ outcome[op[p].u] = "open" /\ outcome' = outcome
          /\ op[p].u \notin dbWaf
      BY <1>5 DEF TxBlob, Carries, OperationInv, CopyInv, NotStored
    <3>2. mem[p] = snap[p].mem \cup {op[p].u} /\ dbWaf \in {mem[p], snap[p].mem}
      BY <1>5 DEF TxBlob, SnapshotInv, Undoable
    <3> QED
      BY <1>2, <2>1, <3>1, <3>2
  <2>2. CASE UNCHANGED dbWaf
    BY <1>1, <1>5, <2>2 DEF TxBlob
  <2> QED
    BY <1>5, <2>1, <2>2 DEF TxBlob
<1>6. ASSUME NEW p \in Procs, Reload(p) \/ TxReload(p) PROVE Store!Next \/ Stutters
  <2>1. dbWaf' = dbWaf
    BY <1>6 DEF Reload, TxReload
  <2>2. CASE outcome' = outcome
    BY <1>1, <2>1, <2>2
  <2>3. CASE op[p].u \in Updates /\ outcome' = [outcome EXCEPT ![op[p].u] = "applied"]
    <3>1. outcome[op[p].u] = "open" /\ op[p].u \in dbWaf
      BY <1>6, <2>3 DEF Reload, TxReload, OperationInv, CopyInv, Stored
    <3>2. Store!Move(op[p].u, "open", "ok")
      BY AnswerMoves, <2>1, <2>3, <3>1
    <3> QED
      BY <2>3, <3>1, <3>2 DEF Store!Next
  <2> QED
    BY <1>6, <2>2, <2>3 DEF Reload, TxReload, Carries
<1>7. ASSUME NEW p \in Procs, Return(p) PROVE Store!Next \/ Stutters
  <2>1. dbWaf' = dbWaf
    BY <1>7 DEF Return
  <2>2. CASE op[p].u = NoUpdate \/ outcome[op[p].u] = "applied"
    <3>1. outcome' = outcome
      BY <1>7, <2>2 DEF Return, Answer
    <3> QED
      BY <1>1, <2>1, <3>1
  <2>3. CASE op[p].u \in Updates /\ outcome[op[p].u] = "open"
    <3>1. outcome' = [outcome EXCEPT ![op[p].u] = "ok"] /\ op[p].u \in dbWaf
      BY <1>7, <2>3 DEF Return, Answer, CopyInv, Stored
    <3>2. Store!Move(op[p].u, "open", "ok")
      BY AnswerMoves, <2>1, <2>3, <3>1
    <3> QED
      BY <2>3, <3>1, <3>2 DEF Store!Next
  <2> QED
    BY <2>2, <2>3 DEF OperationInv
<1>8. ASSUME NEW p \in Procs, TxRestore(p) PROVE Store!Next \/ Stutters
  <2>1. /\ op[p].u \in Updates /\ outcome[op[p].u] = "open"
        /\ dbWaf' = snap[p].mem /\ outcome' = outcome
    BY <1>8 DEF TxRestore, Carries, OperationInv
  <2>2. dbWaf' = dbWaf \ {op[p].u}
    <3>1. /\ mem[p] = snap[p].mem \cup {op[p].u} /\ dbWaf \in {mem[p], snap[p].mem}
          /\ op[p].u \notin snap[p].mem
      BY <1>8 DEF TxRestore, SnapshotInv, Undoable
    <3> QED
      BY <2>1, <3>1
  <2>3. Told[op[p].u] = "open" /\ Told' = Told
    BY <2>1 DEF Told
  <2>4. Store!Retract(op[p].u)
    BY <2>2, <2>3 DEF Store!Retract
  <2> QED
    BY <2>1, <2>4 DEF Store!Next
<1>9. ASSUME NEW p \in Procs, TxFail(p) PROVE Store!Next
  <2>1. /\ op[p].u \in Updates /\ outcome[op[p].u] = "open" /\ op[p].u \notin dbWaf
        /\ outcome' = [outcome EXCEPT ![op[p].u] = "failed"] /\ dbWaf' = dbWaf
    BY <1>9 DEF TxFail, Answer, Carries, OperationInv, CopyInv, NotStored
  <2>2. Store!Move(op[p].u, "open", "failed")
    BY AnswerMoves, <2>1
  <2> QED
    BY <2>1, <2>2 DEF Store!Next
<1>10. ASSUME NEW p \in Procs, Crash(p) PROVE Store!Next \/ Stutters
  <2>1. CASE op[p].u # NoUpdate /\ outcome[op[p].u] = "open"
    <3>1. op[p].u \in Updates
      BY <2>1
    <3>2. Store!Move(op[p].u, "open", "unknown")
      BY AnswerMoves, <1>10, <2>1, <3>1 DEF Crash
    <3> QED
      BY <3>1, <3>2 DEF Store!Next
  <2>2. CASE ~(op[p].u # NoUpdate /\ outcome[op[p].u] = "open")
    BY <1>1, <1>10, <2>2 DEF Crash
  <2> QED
    BY <2>1, <2>2
<1>11. ASSUME NEW p \in Procs, Preview(p) PROVE Stutters
  BY <1>1, <1>11 DEF Preview, CopyInv, Current
<1>12. ASSUME NEW p \in Procs PROVE ~LockTimeout(p)
  BY DEF LockTimeout, LockIsFree, OneProcess, Section, TxSection, Undoable
<1>13. ASSUME NEW p \in Procs,
              \/ BootRev(p) \/ BootBlob(p) \/ BootCheck(p)
              \/ BeginRerender(p) \/ Acquire(p) \/ Mutate(p) \/ WriteRev(p) \/ Patch(p)
       PROVE Stutters
  BY <1>1, <1>13 DEF BootRev, BootBlob, BootCheck, BeginRerender, Acquire, Mutate,
                     WriteRev, Patch
<1>14. ASSUME NEW p \in Procs,
              \/ TxBegin(p) \/ TxPatch(p) \/ TxValidate(p) \/ TxRunning(p)
              \/ TxRestoreFile(p) \/ TxRepatch(p) \/ TxReloadAgain(p)
       PROVE Stutters
  BY <1>1, <1>14 DEF TxBegin, TxPatch, TxValidate, TxRunning, TxRestoreFile, TxRepatch,
                     TxReloadAgain
<1>15. ASSUME CaddyStop \/ CaddyStart \/ UNCHANGED vars PROVE Stutters
  BY <1>1, <1>15 DEF CaddyStop, CaddyStart, vars
<1> QED
  BY <1>3, <1>4, <1>5, <1>6, <1>7, <1>8, <1>9, <1>10, <1>11, <1>12, <1>13, <1>14, <1>15
     DEF Next, Continue, Store!vars

(***************************************************************************)
(* A process on its own implements the atomic store with everything it     *)
(* does: a commit stores its update and nothing else, a roll-back takes    *)
(* exactly that update out again, and a preview changes nothing.           *)
(***************************************************************************)
THEOREM ImplementationAlone == ASSUME OneProcess PROVE Spec => ImplementsStore
<1>1. Init => Store!Init
  BY DEF Init, Store!Init, Told
<1>2. SingleInv /\ [Next]_vars => [Store!Next]_Store!vars
  BY SingleSimulation
<1> QED
  BY <1>1, <1>2, SingleInvariant, PTL DEF Spec, Store!Spec, ImplementsStore

=============================================================================
