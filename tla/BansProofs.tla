----------------------------- MODULE BansProofs -----------------------------
(***************************************************************************)
(* Proofs about Bans: its types, that bans and lifts take hold in time, and*)
(* that bans only grow.                                                    *)
(***************************************************************************)
EXTENDS Bans, TLAPS

-----------------------------------------------------------------------------
(* The inductive invariant.                                                *)

ClockInv == CidrTTL <= now

\* A request that is on its way was not refused; what it will cache is dead
\* before a ban in force is due.
VisitInv ==
    \A v \in Visits : visits[v] # Idle =>
        /\ visits[v].since <= now /\ now <= visits[v].since + Deadline
        /\ \A k \in Covering(visits[v].addr) :
              InForce(k) => visits[v].since + Deadline + VerdictTTL <= due[k]

\* So is a verdict that lets the address in; one that refuses it has a reason,
\* or dies before the last one is over.
VerdictOk(a) ==
    /\ verdicts[a].action # "none" =>
          now < verdicts[a].until /\ verdicts[a].until <= now + VerdictTTL
    /\ verdicts[a].action = "allow" =>
          \A k \in Covering(a) : InForce(k) => verdicts[a].until <= due[k]
    /\ verdicts[a].action = "block" =>
          (\E k \in Covering(a) : InForce(k)) \/ verdicts[a].until <= over[a]

VerdictInv == \A a \in Addrs : VerdictOk(a)

\* The cached rows are used.
Fresh == now < cidrCache.at + CidrTTL

\* A range whose row is not the cached one is due once the cache has gone.
StaleInv ==
    \A k \in RangeKeys : Fresh /\ InForce(k) /\ cidrCache.rows[k] # bans[k] =>
        cidrCache.at + CidrTTL + Deadline + VerdictTTL <= due[k]

NotLonger(row, than) == than = Forever \/ (row # Forever /\ row <= than)

\* A cached row that refuses an address stands for a ban in force, or for one
\* whose end is still to show.
RowsInv ==
    \A k \in RangeKeys, a \in Addrs :
        Fresh /\ Live(cidrCache.rows[k]) /\ <<k[1], a>> \in Covers =>
            \/ InForce(k) /\ NotLonger(cidrCache.rows[k], bans[k])
            \/ cidrCache.at + CidrTTL + VerdictTTL <= over[a]

BansInv == ClockInv /\ VisitInv /\ VerdictInv /\ StaleInv /\ RowsInv

-----------------------------------------------------------------------------
(* The keys and the rows.                                                  *)

\* A key is a target and a source; which addresses it covers.
LEMMA KeyFacts ==
    ASSUME NEW k \in Keys
    PROVE  /\ k[1] \in Targets
           /\ k \in RangeKeys => k[1] \in Ranges
           /\ k \notin RangeKeys => k[1] \in Addrs
           /\ \A a \in Addrs : k \in Covering(a) <=> k[1] = a \/ <<k[1], a>> \in Covers
           /\ \A a \in Addrs : k \in Covering(a) =>
                 IF k \in RangeKeys THEN <<k[1], a>> \in Covers ELSE k[1] = a
    BY CoversAssumption DEF Keys, RangeKeys, Targets, Covering

(***************************************************************************)
(* ban() writes a row that is no shorter than the one it finds, and one    *)
(* that is in force unless a ban for ever finds a row that has expired.    *)
(***************************************************************************)
LEMMA RowFacts ==
    ASSUME TypeOK, NEW k \in Keys, NEW seconds \in Durations \cup {Forever}
    PROVE  /\ Row(k, seconds) \in Nat \cup {Forever}
           /\ bans[k] # NoBan => NotLonger(bans[k], Row(k, seconds))
           /\ seconds \in Durations => Live(Row(k, seconds))
    BY RowsAssumption, DurationsAssumption DEF TypeOK, Expiries, Row, KeepLonger, NotLonger, Live

-----------------------------------------------------------------------------
(* Type correctness.                                                       *)

\* Every step keeps the types.
LEMMA TypeStep == TypeOK /\ [Next]_vars => TypeOK'
<1> SUFFICES ASSUME TypeOK, [Next]_vars PROVE TypeOK'
    OBVIOUS
<1> USE RowsAssumption, CoversAssumption, DurationsAssumption, TTLAssumption DEF TypeOK
<1>1. NoVerdict \in [action : {"none", "allow", "block", "signal"}, until : Nat]
      /\ NoAnswer \in [addr : Addrs \cup {NoBan}, action : {"none", "allow", "block"}]
    BY DEF NoVerdict, NoAnswer
<1>2. NoCache \in [at : 0..now, rows : [RangeKeys -> Expiries]]
    BY DEF NoCache, Expiries
<1>3. CidrBans \in [at : 0..now, rows : [RangeKeys -> Expiries]]
    BY DEF CidrBans, Keys
<1>4. ASSUME NEW k \in Keys, NEW seconds \in Durations \cup {Forever}, Ban(k, seconds)
      PROVE bans' \in [Keys -> Expiries]
    BY <1>4, RowFacts DEF Ban, Expiries
<1>5. ASSUME NEW k \in Keys, NEW fresh, NEW reread, Due(k, fresh, reread)
      PROVE due' \in [Keys -> Nat]
    BY <1>5 DEF Due
<1>6. ASSUME NEW keys, Delete(keys) PROVE bans' \in [Keys -> Expiries]
    BY <1>6 DEF Delete, Expiries
<1>7. ASSUME NEW keys, NEW fresh, NEW reread, Over(keys, fresh, reread)
      PROVE due' \in [Keys -> Nat] /\ over' \in [Addrs -> Nat]
    BY <1>7 DEF Over, Later
<1>8. ASSUME NEW a \in Addrs, NEW action \in {"allow", "block", "signal", "error", "challenge"},
             Answer(a, action)
      PROVE answer' \in [addr : Addrs \cup {NoBan}, action : {"none", "allow", "block"}]
    BY <1>8, <1>1 DEF Answer
<1>9. ASSUME NEW a \in Addrs, NEW action \in {"allow", "block", "signal"}, Judge(a, action)
      PROVE /\ verdicts' \in [Addrs -> [action : {"none", "allow", "block", "signal"}, until : Nat]]
            /\ answer' \in [addr : Addrs \cup {NoBan}, action : {"none", "allow", "block"}]
    BY <1>9, <1>8 DEF Judge
<1>10. ASSUME NEW a \in Addrs, Check(a)
       PROVE cidrCache' \in [at : 0..now, rows : [RangeKeys -> Expiries]]
    BY <1>10, <1>3 DEF Check
<1>11. ASSUME NEW t \in Targets
       PROVE /\ <<t, "manual">> \in Keys
             /\ DropCidrCache(t) =>
                    cidrCache' \in [at : 0..now, rows : [RangeKeys -> Expiries]]
             /\ Invalidate(t) => verdicts' \in
                    [Addrs -> [action : {"none", "allow", "block", "signal"}, until : Nat]]
  <2>1. <<t, "manual">> \in Keys
    BY DEF Targets, Keys, RangeKeys
  <2>2. CASE t \in Ranges
    BY <2>1, <2>2, <1>1, <1>2 DEF DropCidrCache, Invalidate
  <2>3. CASE t \notin Ranges
    BY <2>1, <2>3, <1>1, <1>2 DEF DropCidrCache, Invalidate
  <2> QED
    BY <2>2, <2>3
<1>12. ASSUME NEW t \in Targets, NEW seconds \in Durations \cup {Forever}, ApiBan(t, seconds)
       PROVE TypeOK'
  <2>1. CASE /\ Ban(<<t, "manual">>, seconds) /\ DropCidrCache(t) /\ Invalidate(t)
             /\ Due(<<t, "manual">>, t \in Addrs /\ Unseen(t, Visits), TRUE)
    BY <1>12, <2>1, <1>1, <1>4, <1>5, <1>11 DEF ApiBan
  <2>2. CASE /\ BanUncounted(<<t, "manual">>, seconds) /\ UNCHANGED <<cidrCache, verdicts>>
             /\ Due(<<t, "manual">>, FALSE, t \in Addrs)
    BY <1>12, <2>2, <1>1, <1>4, <1>5, <1>11 DEF ApiBan, BanUncounted
  <2> QED
    BY <1>12, <2>1, <2>2 DEF ApiBan
<1>13. ASSUME NEW t \in Targets, NEW seconds \in Durations \cup {Forever}, CliBan(t, seconds)
       PROVE TypeOK'
    BY <1>13, <1>1, <1>4, <1>5, <1>11 DEF CliBan, server
<1>14. ASSUME NEW a \in Addrs, NEW source \in Sources, NEW seconds \in Durations,
              Report(a, source, seconds)
       PROVE TypeOK'
  <2>1. <<a, source>> \in Keys
    BY DEF Keys
  <2> QED
    BY <1>14, <2>1, <1>1, <1>4, <1>5 DEF Report, server
<1>15. ASSUME NEW a \in Addrs, NEW source \in Sources, NEW seconds \in Durations,
              Sweep(a, source, seconds)
       PROVE TypeOK'
  <2>1. <<a, source>> \in Keys
    BY DEF Keys
  <2> QED
    BY <1>15, <2>1, <1>1, <1>4, <1>5, <1>10 DEF Sweep
<1>16. ASSUME NEW t \in Targets, NEW keys, ApiLift(t, keys) PROVE TypeOK'
    BY <1>16, <1>1, <1>6, <1>7, <1>11 DEF ApiLift
<1>17. ASSUME NEW keys, CliLift(keys) PROVE TypeOK'
    BY <1>17, <1>1, <1>6, <1>7 DEF CliLift, server
<1>18. CASE ApiClear
    BY <1>18, <1>1, <1>2, <1>6 DEF ApiClear, Forgotten
<1>19. CASE Purge
    BY <1>19, <1>1, <1>2, <1>6 DEF Purge
<1>20. ASSUME NEW a \in Addrs, Hit(a) PROVE TypeOK'
  <2>1. verdicts[a].action \in {"allow", "block", "signal"}
    BY <1>20 DEF Hit, Cached
  <2> QED
    BY <1>20, <2>1, <1>8 DEF Hit, server
<1>21. ASSUME NEW a \in Addrs, Refuse(a) PROVE TypeOK'
    BY <1>21, <1>9, <1>10 DEF Refuse
<1>22. ASSUME NEW a \in Addrs, NEW source \in Sources, Catch(a, source) PROVE TypeOK'
  <2>1. <<a, source>> \in Keys
    BY DEF Keys
  <2>2. PICK seconds \in Durations :
          \/ /\ Ban(<<a, source>>, seconds) /\ Judge(a, "block")
             /\ Due(<<a, source>>, Unseen(a, Visits), TRUE)
          \/ /\ BanUncounted(<<a, source>>, seconds) /\ UNCHANGED verdicts
             /\ Answer(a, "error")
             /\ Due(<<a, source>>, FALSE, TRUE)
    BY <1>22 DEF Catch
  <2>3. bans' \in [Keys -> Expiries]
    BY <2>1, <2>2, <1>4 DEF BanUncounted
  <2>4. due' \in [Keys -> Nat]
    BY <2>1, <2>2, <1>5
  <2> QED
    BY <1>22, <2>2, <2>3, <2>4, <1>8, <1>9, <1>10 DEF Catch
<1>23. ASSUME NEW v \in Visits, NEW a \in Addrs, Classify(v, a) PROVE TypeOK'
    BY <1>23, <1>1, <1>10 DEF Classify
<1>24. ASSUME NEW v \in Visits, Finish(v) PROVE TypeOK'
  <2> DEFINE a == visits[v].addr
  <2>1. a \in Addrs
    BY <1>24 DEF Finish
  <2>2. visits' \in [Visits -> [addr : Addrs, since : Nat] \cup {Idle}]
    BY <1>24 DEF Finish
  <2>3. CASE (Judge(a, "allow") \/ Judge(a, "signal")) /\ UNCHANGED <<bans, due>>
    BY <1>24, <2>1, <2>2, <2>3, <1>9 DEF Finish
  <2>4. CASE Answer(a, "challenge") /\ UNCHANGED <<bans, verdicts, due>>
    BY <1>24, <2>1, <2>2, <2>4, <1>8 DEF Finish
  <2>5. ASSUME NEW seconds \in Durations, NEW k \in {a} \X Sources,
               Ban(k, seconds), Judge(a, "block"), Due(k, Unseen(a, Visits \ {v}), TRUE)
        PROVE TypeOK'
    <3>1. k \in Keys
      BY <2>1 DEF Keys
    <3> QED
      BY <1>24, <2>1, <2>2, <2>5, <3>1, <1>4, <1>5, <1>9 DEF Finish
  <2>6. ASSUME NEW seconds \in Durations, NEW k \in {a} \X Sources,
               BanUncounted(k, seconds), Due(k, FALSE, TRUE),
               \/ Judge(a, "allow")
               \/ UNCHANGED verdicts /\ (Answer(a, "challenge") \/ Answer(a, "error"))
        PROVE TypeOK'
    <3>1. k \in Keys
      BY <2>1 DEF Keys
    <3>2. bans' \in [Keys -> Expiries] /\ due' \in [Keys -> Nat]
      BY <2>6, <3>1, <1>4, <1>5 DEF BanUncounted
    <3> QED
      BY <1>24, <2>1, <2>2, <2>6, <3>2, <1>8, <1>9 DEF Finish
  <2> QED
    BY <1>24, <2>3, <2>4, <2>5, <2>6 DEF Finish
<1>25. ASSUME NEW a \in Addrs, Evict(a) PROVE TypeOK'
    BY <1>25, <1>1 DEF Evict
<1>26. CASE Restart
    BY <1>26, <1>1, <1>2 DEF Restart, Forgotten
<1>27. CASE Tick
  <2>1. due' \in [Keys -> Nat] /\ over' \in [Addrs -> Nat]
    BY <1>27 DEF Tick, Upcoming, Later
  <2> QED
    BY <1>27, <2>1, <1>1, <1>2 DEF Tick
<1>28. CASE UNCHANGED vars
    BY <1>28 DEF vars, server
<1> QED
    BY <1>12, <1>13, <1>14, <1>16, <1>17, <1>18, <1>19, <1>20, <1>21, <1>22, <1>23, <1>24,
       <1>25, <1>26, <1>27, <1>28, <1>15 DEF Next, Write, Request, CliClear

-----------------------------------------------------------------------------
(* The invariant is inductive: what a ban disturbs.                        *)

\* A ban changes its own row and due time only, and does not shorten the row.
LEMMA DueFacts ==
    ASSUME TypeOK, NEW k \in Keys, NEW seconds \in Durations \cup {Forever},
           NEW fresh, NEW reread, Ban(k, seconds), Due(k, fresh, reread), now' = now
    PROVE  /\ \A j \in Keys \ {k} : bans'[j] = bans[j] /\ due'[j] = due[j]
           /\ \A j \in Keys \ {k} : InForce(j)' = InForce(j)
           /\ bans[k] # NoBan => NotLonger(bans[k], bans'[k])
           /\ bans'[k] \in Nat \cup {Forever} /\ due'[k] \in Nat
           /\ InForce(k) => InForce(k)'
           /\ seconds \in Durations => InForce(k)'
           /\ reread /\ InForce(k) => due'[k] = due[k]
           /\ ~fresh /\ ~(reread /\ InForce(k)) => now + Deadline + VerdictTTL <= due'[k]
           /\ ~fresh /\ ~reread => now + Deadline + VerdictTTL + CidrTTL <= due'[k]
<1> USE RowsAssumption, TTLAssumption DEF TypeOK
<1>1. /\ \A j \in Keys \ {k} : bans'[j] = bans[j]
      /\ bans'[k] = Row(k, seconds)
    BY DEF Ban
<1>2. \A j \in Keys \ {k} : InForce(j)' = InForce(j)
    BY <1>1 DEF InForce, Live
<1>3. InForce(k) => InForce(k)'
    BY <1>1, RowFacts DEF InForce, Live, NotLonger, Expiries
<1>4. seconds \in Durations => InForce(k)'
    BY <1>1, RowFacts DEF InForce, Live
<1>5. /\ \A j \in Keys \ {k} : due'[j] = due[j]
      /\ due'[k] = IF InForce(k) /\ reread THEN due[k]
                   ELSE now + (IF fresh THEN 0 ELSE Deadline + VerdictTTL)
                            + (IF reread THEN 0 ELSE CidrTTL)
    BY DEF Due
<1> QED
    BY <1>1, <1>2, <1>3, <1>4, <1>5, RowFacts

(***************************************************************************)
(* A step that bans keeps all but the verdicts it caches, when it claims   *)
(* no more than is true: `fresh` if no request of the address is on its    *)
(* way, `reread` if no cached row can differ.                              *)
(***************************************************************************)
LEMMA BanKeeps ==
    ASSUME TypeOK, BansInv, NEW k \in Keys, NEW seconds \in Durations \cup {Forever},
           NEW fresh, NEW reread, Ban(k, seconds), Due(k, fresh, reread), UNCHANGED <<now, over>>,
           \A v \in Visits : visits'[v] \in {visits[v], Idle},
           fresh => k \notin RangeKeys /\ \A v \in Visits : visits'[v].addr # k[1],
           \/ cidrCache' \in {cidrCache, NoCache}
           \/ k \notin RangeKeys /\ cidrCache' = CidrBans,
           reread => k \notin RangeKeys \/ cidrCache' = NoCache
    PROVE  /\ ClockInv' /\ VisitInv' /\ StaleInv' /\ RowsInv'
           /\ \A a \in Addrs :
                 verdicts'[a] = verdicts[a] /\ (fresh => a # k[1]) => VerdictOk(a)'
<1> USE RowsAssumption, TTLAssumption DEF TypeOK
<1>0. /\ \A j \in Keys \ {k} : bans'[j] = bans[j] /\ due'[j] = due[j]
      /\ \A j \in Keys \ {k} : InForce(j)' = InForce(j)
      /\ bans[k] # NoBan => NotLonger(bans[k], bans'[k])
      /\ bans'[k] \in Nat \cup {Forever} /\ due'[k] \in Nat
      /\ InForce(k) => InForce(k)'
      /\ reread /\ InForce(k) => due'[k] = due[k]
      /\ ~fresh /\ ~(reread /\ InForce(k)) => now + Deadline + VerdictTTL <= due'[k]
      /\ ~fresh /\ ~reread => now + Deadline + VerdictTTL + CidrTTL <= due'[k]
    BY DueFacts
<1> USE <1>0
<1>2. \A a \in Addrs : k \in Covering(a) /\ k \notin RangeKeys => k[1] = a
    BY KeyFacts
<1>1. ClockInv'
    BY DEF BansInv, ClockInv
<1>3. VisitInv'
  <2> SUFFICES ASSUME NEW v \in Visits, visits'[v] # Idle
               PROVE  /\ visits'[v].since <= now' /\ now' <= visits'[v].since + Deadline
                      /\ \A j \in Covering(visits'[v].addr) :
                            InForce(j)' => visits'[v].since + Deadline + VerdictTTL <= due'[j]
    BY DEF VisitInv, Covering
  <2>1. /\ visits'[v] = visits[v] /\ visits[v].addr \in Addrs /\ visits[v].since \in Nat
        /\ visits[v].since <= now /\ now <= visits[v].since + Deadline
        /\ \A j \in Covering(visits[v].addr) :
              InForce(j) => visits[v].since + Deadline + VerdictTTL <= due[j]
    BY DEF BansInv, VisitInv
  <2>2. ASSUME NEW j \in Covering(visits[v].addr), InForce(j)'
        PROVE  visits[v].since + Deadline + VerdictTTL <= due'[j]
    <3>1. j \in Keys
      BY DEF Covering
    <3>2. CASE j # k
      BY <2>1, <2>2, <3>1, <3>2
    <3>3. CASE j = k /\ reread /\ InForce(k)
      BY <2>1, <2>2, <3>3
    <3>4. CASE j = k /\ ~(reread /\ InForce(k))
      <4>1. ~fresh
        BY <2>1, <3>4, <1>2
      <4> QED
        BY <2>1, <3>4, <4>1
    <3> QED
      BY <3>2, <3>3, <3>4
  <2> QED
    BY <2>1, <2>2
<1>4. ASSUME cidrCache' = CidrBans, cidrCache' # cidrCache, NEW j \in RangeKeys
      PROVE  ~Fresh /\ cidrCache'.rows[j] = bans[j]
    BY <1>4 DEF CidrBans, Fresh
<1>5. cidrCache' = NoCache => ~Fresh'
    BY DEF NoCache, Fresh, BansInv, ClockInv
<1>6. StaleInv'
  <2> SUFFICES ASSUME NEW j \in RangeKeys, Fresh', InForce(j)', cidrCache'.rows[j] # bans'[j]
               PROVE  cidrCache'.at + CidrTTL + Deadline + VerdictTTL <= due'[j]
    BY DEF StaleInv
  <2>1. j \in Keys
    BY DEF Keys
  <2>2. CASE cidrCache' # cidrCache
    BY <1>4, <1>5, <2>1, <2>2
  <2>3. CASE cidrCache' = cidrCache /\ j # k
    BY <2>1, <2>3 DEF BansInv, StaleInv, Fresh
  <2>4. CASE cidrCache' = cidrCache /\ j = k
    <3>1. ~reread /\ ~fresh
      BY <1>5, <2>4
    <3> QED
      BY <2>4, <3>1
  <2> QED
    BY <2>2, <2>3, <2>4
<1>7. RowsInv'
  <2> SUFFICES ASSUME NEW j \in RangeKeys, NEW a \in Addrs, Fresh',
                      Live(cidrCache.rows[j])', <<j[1], a>> \in Covers
               PROVE  \/ InForce(j)' /\ NotLonger(cidrCache'.rows[j], bans'[j])
                      \/ cidrCache'.at + CidrTTL + VerdictTTL <= over'[a]
    BY DEF RowsInv
  <2>1. j \in Keys
    BY DEF Keys
  <2>2. CASE cidrCache' # cidrCache
    <3>1. j # k /\ cidrCache'.rows[j] = bans[j]
      BY <1>4, <1>5, <2>2
    <3> QED
      BY <2>1, <3>1 DEF InForce, Live, NotLonger, Expiries
  <2>3. CASE cidrCache' = cidrCache
    <3>1. \/ InForce(j) /\ NotLonger(cidrCache.rows[j], bans[j])
          \/ cidrCache.at + CidrTTL + VerdictTTL <= over[a]
      BY <2>3 DEF BansInv, RowsInv, Fresh, Live
    <3>2. InForce(j) => InForce(j)' /\ NotLonger(bans[j], bans'[j])
      BY <2>1 DEF InForce, Live, NotLonger, Expiries
    <3>3. InForce(j) /\ NotLonger(cidrCache.rows[j], bans[j])
            => NotLonger(cidrCache.rows[j], bans'[j])
      BY <2>1, <3>2, <2>3 DEF NotLonger, InForce, Live, Expiries
    <3> QED
      BY <2>3, <3>1, <3>2, <3>3
  <2> QED
    BY <2>2, <2>3
<1>8. ASSUME NEW a \in Addrs, verdicts'[a] = verdicts[a], fresh => a # k[1]
      PROVE  VerdictOk(a)'
  <2>1. VerdictOk(a)
    BY DEF BansInv, VerdictInv
  <2>2. ASSUME NEW j \in Covering(a), InForce(j)', verdicts[a].action = "allow"
        PROVE  verdicts[a].until <= due'[j]
    <3>1. j \in Keys
      BY DEF Covering
    <3>2. CASE j # k
      BY <2>1, <2>2, <3>1, <3>2 DEF VerdictOk
    <3>3. CASE j = k /\ reread /\ InForce(k)
      BY <2>1, <2>2, <3>3 DEF VerdictOk
    <3>4. CASE j = k /\ ~(reread /\ InForce(k))
      <4>1. ~fresh
        BY <1>8, <2>2, <3>4, <1>2
      <4> QED
        BY <2>1, <2>2, <3>4, <4>1 DEF VerdictOk
    <3> QED
      BY <3>2, <3>3, <3>4
  <2>3. \A j \in Covering(a) : j \in Keys /\ (InForce(j) => InForce(j)')
    BY DEF Covering
  <2> QED
    BY <1>8, <2>1, <2>2, <2>3 DEF VerdictOk, Covering
<1> QED
    BY <1>1, <1>3, <1>6, <1>7, <1>8

-----------------------------------------------------------------------------
(* What the end of bans disturbs.                                          *)

\* A writer that deletes rows, and drops the caches it drops, keeps the invariant.
LEMMA DeleteKeeps ==
    ASSUME TypeOK, BansInv, NEW keys \in SUBSET Keys, NEW fresh, NEW reread,
           Delete(keys), Over(keys, fresh, reread), UNCHANGED <<now, visits>>,
           cidrCache' \in {cidrCache, NoCache},
           reread => \/ cidrCache' = NoCache
                     \/ \A k \in keys \cap RangeKeys : ~InForce(k),
           ~reread => fresh = {} \/ keys \cap RangeKeys = {},
           \A a \in Addrs : verdicts'[a] \in {verdicts[a], NoVerdict},
           \A a \in Addrs : a \in fresh => verdicts'[a] = NoVerdict
    PROVE  BansInv'
<1> USE RowsAssumption, TTLAssumption DEF TypeOK
<1>1. /\ \A k \in Keys : bans'[k] = IF k \in keys THEN NoBan ELSE bans[k]
      /\ \A k \in Keys : InForce(k)' <=> InForce(k) /\ k \notin keys
      /\ \A k \in Keys : InForce(k)' => due'[k] = due[k]
    BY DEF Delete, Over, InForce, Live
<1>2. \A a \in Addrs : over'[a] \in Nat /\ over[a] <= over'[a]
    BY DEF Over, Later
<1>3. ASSUME NEW a \in Addrs, NEW k \in keys \cap Covering(a), InForce(k)
      PROVE  a \notin fresh => now + VerdictTTL <= over'[a]
    BY <1>3 DEF Over, Later
<1>4. ASSUME NEW a \in Addrs, NEW k \in keys \cap Covering(a) \cap RangeKeys, InForce(k), ~reread,
             a \notin fresh
      PROVE  now + VerdictTTL + CidrTTL <= over'[a]
    BY <1>4 DEF Over, Later
<1>5. ClockInv' /\ VisitInv'
    BY <1>1 DEF BansInv, ClockInv, VisitInv, Covering
<1>6. cidrCache' = NoCache => ~Fresh'
    BY DEF NoCache, Fresh, BansInv, ClockInv
<1>7. StaleInv'
    BY <1>1, <1>6 DEF BansInv, StaleInv, Fresh, Keys
<1>8. RowsInv'
  <2> SUFFICES ASSUME NEW k \in RangeKeys, NEW a \in Addrs, Fresh',
                      Live(cidrCache.rows[k])', <<k[1], a>> \in Covers
               PROVE  \/ InForce(k)' /\ NotLonger(cidrCache'.rows[k], bans'[k])
                      \/ cidrCache'.at + CidrTTL + VerdictTTL <= over'[a]
    BY DEF RowsInv
  <2>1. k \in Keys /\ k \in Covering(a)
    BY DEF Keys, Covering
  <2>2. cidrCache' = cidrCache
    BY <1>6
  <2>3. \/ InForce(k) /\ NotLonger(cidrCache.rows[k], bans[k])
        \/ cidrCache.at + CidrTTL + VerdictTTL <= over[a]
    BY <2>2 DEF BansInv, RowsInv, Fresh, Live
  <2>4. CASE InForce(k) /\ k \in keys
    <3>1. ~reread /\ a \notin fresh
      BY <1>6, <2>4
    <3> QED
      BY <1>2, <1>4, <2>1, <2>2, <2>4, <3>1
  <2> QED
    BY <1>1, <1>2, <2>1, <2>2, <2>3, <2>4
<1>9. VerdictInv'
  <2> SUFFICES ASSUME NEW a \in Addrs, verdicts'[a] # NoVerdict PROVE VerdictOk(a)'
    BY DEF VerdictInv, VerdictOk, NoVerdict
  <2>1. verdicts'[a] = verdicts[a] /\ a \notin fresh /\ VerdictOk(a)
    BY DEF BansInv, VerdictInv
  <2>2. ASSUME NEW k \in Covering(a), InForce(k), verdicts[a].action = "block"
        PROVE  InForce(k)' \/ verdicts[a].until <= over'[a]
    BY <1>1, <1>2, <1>3, <2>1, <2>2 DEF VerdictOk, Covering
  <2>3. ASSUME verdicts[a].action = "block"
        PROVE  (\E k \in Covering(a) : InForce(k)') \/ verdicts[a].until <= over'[a]
    <3>1. CASE \E k \in Covering(a) : InForce(k)
      BY <2>2, <2>3, <3>1
    <3>2. CASE verdicts[a].until <= over[a]
      BY <1>2, <3>2
    <3> QED
      BY <2>1, <2>3, <3>1, <3>2 DEF VerdictOk
  <2>4. ASSUME verdicts[a].action = "allow", NEW k \in Covering(a), InForce(k)'
        PROVE  verdicts[a].until <= due'[k]
    BY <1>1, <2>1, <2>4 DEF VerdictOk, Covering
  <2> QED
    BY <2>1, <2>3, <2>4 DEF VerdictOk, Covering
<1> QED
    BY <1>5, <1>7, <1>8, <1>9 DEF BansInv

-----------------------------------------------------------------------------
(* What a request disturbs.                                                *)

(***************************************************************************)
(* Looking a ban up keeps the cached rows right: they are reread from the  *)
(* table once they are too old.                                            *)
(***************************************************************************)
LEMMA CheckKeeps ==
    ASSUME TypeOK, BansInv, NEW a \in Addrs, Check(a), UNCHANGED <<bans, now, due, over>>
    PROVE  StaleInv' /\ RowsInv'
<1> USE RowsAssumption, TTLAssumption DEF TypeOK
<1>1. CASE cidrCache' = cidrCache
    BY <1>1 DEF BansInv, StaleInv, RowsInv, Fresh, InForce, Live
<1>2. CASE cidrCache' # cidrCache
  <2>1. \A k \in RangeKeys : cidrCache'.rows[k] = bans[k]
    BY <1>2 DEF Check, CidrBans
  <2>2. \A k \in RangeKeys : k \in Keys /\ (Live(cidrCache.rows[k])' => InForce(k))
    BY <2>1 DEF InForce, Live, Keys
  <2> QED
    BY <2>1, <2>2 DEF StaleInv, RowsInv, InForce, Live, NotLonger, Expiries
<1> QED
    BY <1>1, <1>2

(***************************************************************************)
(* An address is let through to the network only if every ban in force that*)
(* covers it is one of a range the cached rows do not show.                *)
(***************************************************************************)
LEMMA NotRefused ==
    ASSUME TypeOK, BansInv, NEW a \in Addrs, ~Refused(a), NEW k \in Covering(a), InForce(k)
    PROVE  now + Deadline + VerdictTTL <= due[k]
<1> USE RowsAssumption, TTLAssumption DEF TypeOK
<1>1. k \in RangeKeys /\ <<k[1], a>> \in Covers
    BY KeyFacts DEF Refused, Exact, Covering
<1>2. ~Live(CidrBans.rows[k])
    BY <1>1 DEF Refused
<1>3. CidrBans = cidrCache /\ Fresh
    BY <1>1, <1>2 DEF CidrBans, Fresh, InForce
<1>4. cidrCache.rows[k] # bans[k]
    BY <1>2, <1>3 DEF InForce
<1> QED
    BY <1>1, <1>3, <1>4 DEF BansInv, StaleInv, Fresh, Keys

(***************************************************************************)
(* An address is refused only if a ban in force covers it, or one that has *)
(* not yet been over for the lives of both caches.                         *)
(***************************************************************************)
LEMMA RefusedFor ==
    ASSUME TypeOK, BansInv, NEW a \in Addrs, Refused(a)
    PROVE  (\E k \in Covering(a) : InForce(k)) \/ now + VerdictTTL < over[a]
<1> USE RowsAssumption, TTLAssumption DEF TypeOK
<1>1. CASE Exact(a)
    BY <1>1 DEF Exact, Covering
<1>2. CASE ~Exact(a)
  <2>1. PICK k \in RangeKeys : <<k[1], a>> \in Covers /\ Live(CidrBans.rows[k])
    BY <1>2 DEF Refused
  <2>2. k \in Covering(a)
    BY <2>1 DEF Covering, Keys
  <2>3. CASE CidrBans # cidrCache
    BY <2>1, <2>2, <2>3 DEF CidrBans, InForce
  <2>4. CASE CidrBans = cidrCache /\ Fresh
    BY <2>1, <2>2, <2>4 DEF BansInv, RowsInv, Fresh
  <2>5. CASE CidrBans = cidrCache /\ ~Fresh
    BY <2>1, <2>2, <2>5 DEF CidrBans, Fresh, InForce
  <2> QED
    BY <2>3, <2>4, <2>5
<1> QED
    BY <1>1, <1>2

-----------------------------------------------------------------------------
(* What the clock disturbs.                                                *)

\* The clock keeps the invariant: rows that expire are over from then on.
LEMMA TickKeeps == TypeOK /\ BansInv /\ Tick => BansInv'
<1> SUFFICES ASSUME TypeOK, BansInv, Tick PROVE BansInv'
    OBVIOUS
<1> USE RowsAssumption, TTLAssumption DEF TypeOK
<1>1. /\ now' = now + 1 /\ UNCHANGED <<bans, visits>>
      /\ \A k \in Keys : due'[k] = IF InForce(k)' THEN Upcoming(due[k]) ELSE 0
      /\ \A a \in Addrs : verdicts'[a] =
            IF now + 1 < verdicts[a].until THEN verdicts[a] ELSE NoVerdict
      /\ \A v \in Visits : visits[v] # Idle => now < visits[v].since + Deadline
    BY DEF Tick
<1>2. \A k \in Keys : InForce(k)' => InForce(k)
    BY <1>1 DEF InForce, Live, Expiries
<1>3. \A k \in Keys : InForce(k)' /\ now + 1 < due[k] => due'[k] = due[k]
    BY <1>1 DEF Upcoming
<1>4. ASSUME NEW a \in Addrs, NEW k \in Covering(a), InForce(k), ~InForce(k)'
      PROVE  over'[a] \in Nat /\ over[a] <= over'[a] /\ now + VerdictTTL <= over'[a]
    BY <1>4 DEF Tick, Later
<1>5. ASSUME NEW a \in Addrs, now + 1 < over[a]
      PROVE  over'[a] \in Nat /\ over[a] <= over'[a]
    BY <1>5 DEF Tick, Later, Upcoming
<1>6. Fresh' => Fresh /\ cidrCache' = cidrCache
    BY DEF Tick, Fresh, NoCache, BansInv, ClockInv
<1>7. ClockInv'
    BY <1>1 DEF BansInv, ClockInv
<1>8. VisitInv'
    BY <1>1, <1>2, <1>3 DEF BansInv, VisitInv, Covering
<1>9. StaleInv'
    BY <1>1, <1>2, <1>3, <1>6 DEF BansInv, StaleInv, Fresh, Keys
<1>10. RowsInv'
  <2> SUFFICES ASSUME NEW k \in RangeKeys, NEW a \in Addrs, Fresh',
                      Live(cidrCache.rows[k])', <<k[1], a>> \in Covers
               PROVE  \/ InForce(k)' /\ NotLonger(cidrCache'.rows[k], bans'[k])
                      \/ cidrCache'.at + CidrTTL + VerdictTTL <= over'[a]
    BY DEF RowsInv
  <2>1. k \in Keys /\ k \in Covering(a)
    BY DEF Keys, Covering
  <2>2. Fresh /\ cidrCache' = cidrCache /\ Live(cidrCache.rows[k])
    BY <1>1, <1>6 DEF Live, Expiries
  <2>3. CASE InForce(k) /\ NotLonger(cidrCache.rows[k], bans[k])
    BY <1>1, <2>1, <2>2, <2>3 DEF InForce, Live, NotLonger, Expiries
  <2>4. CASE cidrCache.at + CidrTTL + VerdictTTL <= over[a]
    BY <1>1, <1>5, <2>2, <2>4 DEF Fresh
  <2> QED
    BY <2>1, <2>2, <2>3, <2>4 DEF BansInv, RowsInv
<1>11. VerdictInv'
  <2> SUFFICES ASSUME NEW a \in Addrs, now + 1 < verdicts[a].until PROVE VerdictOk(a)'
    BY <1>1 DEF VerdictInv, VerdictOk, NoVerdict
  <2>1. verdicts'[a] = verdicts[a] /\ VerdictOk(a)
    BY <1>1 DEF BansInv, VerdictInv
  <2>2. ASSUME verdicts[a].action = "allow", NEW k \in Covering(a), InForce(k)'
        PROVE  verdicts[a].until <= due'[k]
    BY <1>2, <1>3, <2>1, <2>2 DEF VerdictOk, Covering
  <2>3. ASSUME verdicts[a].action = "block"
        PROVE  (\E k \in Covering(a) : InForce(k)') \/ verdicts[a].until <= over'[a]
    <3>1. CASE verdicts[a].until <= over[a]
      BY <1>5, <3>1
    <3>2. ASSUME NEW k \in Covering(a), InForce(k), ~InForce(k)'
          PROVE  verdicts[a].until <= over'[a]
      BY <1>4, <2>1, <2>3, <3>2 DEF VerdictOk
    <3> QED
      BY <2>1, <2>3, <3>1, <3>2 DEF VerdictOk
  <2> QED
    BY <1>1, <2>1, <2>2, <2>3 DEF VerdictOk, Covering
<1> QED
    BY <1>7, <1>8, <1>9, <1>10, <1>11 DEF BansInv

-----------------------------------------------------------------------------
(* The invariant is inductive, and what a step answers is right.           *)

Right == BansTakeHold /\ LiftsTakeHold

\* A step that answers nobody contradicts nothing.
LEMMA Unanswered == ASSUME answer' = NoAnswer PROVE Right'
    BY DEF NoAnswer, Right, BansTakeHold, LiftsTakeHold

\* Every writer of the table keeps the invariant.
LEMMA WriteStep ==
    ASSUME TypeOK, BansInv, Write PROVE BansInv' /\ answer' = NoAnswer
<1> USE RowsAssumption, CoversAssumption, TTLAssumption DEF TypeOK
<1>1. ASSUME NEW t \in Targets
      PROVE  /\ <<t, "manual">> \in Keys /\ <<t, "manual">>[1] = t
             /\ <<t, "manual">> \in RangeKeys <=> t \in Ranges
             /\ t \in Addrs <=> t \notin Ranges
    BY DEF Targets, Keys, RangeKeys
<1>2. ASSUME NEW t \in Targets, NEW seconds \in Durations \cup {Forever}, ApiBan(t, seconds)
      PROVE  BansInv'
  <2> DEFINE k == <<t, "manual">>
  <2> HIDE DEF k
  <2>1. k \in Keys /\ (k \in RangeKeys <=> t \in Ranges)
        /\ (t \in Addrs <=> t \notin Ranges)
    BY <1>1 DEF k
  <2>4. k[1] = t
    BY <1>1 DEF k
  <2>2. CASE /\ Ban(k, seconds) /\ DropCidrCache(t) /\ Invalidate(t)
             /\ Due(k, t \in Addrs /\ Unseen(t, Visits), TRUE)
    <3>1. PICK fresh \in BOOLEAN : fresh <=> t \in Addrs /\ Unseen(t, Visits)
      OBVIOUS
    <3>2. Due(k, fresh, TRUE)
      BY <2>2, <3>1 DEF Due
    <3>3. /\ UNCHANGED <<now, over, visits>>
          /\ cidrCache' = IF t \in Ranges THEN NoCache ELSE cidrCache
          /\ \A a \in Addrs : verdicts'[a] = IF a = t THEN NoVerdict ELSE verdicts[a]
      BY <1>2, <2>2 DEF ApiBan, DropCidrCache, Invalidate
    <3>4. /\ ClockInv' /\ VisitInv' /\ StaleInv' /\ RowsInv'
          /\ \A a \in Addrs :
                 verdicts'[a] = verdicts[a] /\ (fresh => a # k[1]) => VerdictOk(a)'
      BY <2>1, <2>2, <2>4, <3>1, <3>2, <3>3, BanKeeps DEF Unseen
    <3>5. \A a \in Addrs : verdicts'[a] = NoVerdict => VerdictOk(a)'
      BY DEF VerdictOk, NoVerdict
    <3> QED
      BY <2>1, <2>4, <3>3, <3>4, <3>5 DEF BansInv, VerdictInv
  <2>3. CASE /\ BanUncounted(k, seconds) /\ UNCHANGED <<cidrCache, verdicts>>
             /\ Due(k, FALSE, t \in Addrs)
    <3>1. PICK reread \in BOOLEAN : reread <=> t \in Addrs
      OBVIOUS
    <3>2. Due(k, FALSE, reread) /\ Ban(k, seconds)
      BY <2>3, <3>1 DEF Due, BanUncounted
    <3>3. UNCHANGED <<now, over, visits, cidrCache, verdicts>>
      BY <1>2, <2>3 DEF ApiBan
    <3> QED
      BY <2>1, <3>1, <3>2, <3>3, BanKeeps DEF BansInv, VerdictInv
  <2> QED
    BY <1>2, <2>2, <2>3 DEF ApiBan, k
<1>3. ASSUME NEW t \in Targets, NEW seconds \in Durations \cup {Forever}, CliBan(t, seconds)
      PROVE  BansInv'
  <2> DEFINE k == <<t, "manual">>
  <2> HIDE DEF k
  <2>1. k \in Keys /\ (k \in RangeKeys <=> t \in Ranges)
        /\ (t \in Addrs <=> t \notin Ranges)
    BY <1>1 DEF k
  <2>2. PICK reread \in BOOLEAN : reread <=> t \in Addrs
    OBVIOUS
  <2>3. /\ Ban(k, seconds) /\ Due(k, FALSE, reread)
        /\ UNCHANGED <<now, over, visits, cidrCache, verdicts>>
    BY <1>3, <2>2 DEF CliBan, Due, server, k
  <2> QED
    BY <2>1, <2>2, <2>3, BanKeeps DEF BansInv, VerdictInv
<1>4. ASSUME NEW a \in Addrs, NEW source \in Sources, NEW seconds \in Durations,
             Report(a, source, seconds)
      PROVE  BansInv'
  <2> DEFINE k == <<a, source>>
  <2> HIDE DEF k
  <2>1. k \in Keys /\ k \notin RangeKeys
    BY DEF Keys, RangeKeys, k
  <2>2. /\ Ban(k, seconds) /\ Due(k, FALSE, TRUE)
        /\ UNCHANGED <<now, over, visits, cidrCache, verdicts>>
    BY <1>4 DEF Report, server, k
  <2> QED
    BY <2>1, <2>2, BanKeeps DEF BansInv, VerdictInv
<1>5. ASSUME NEW a \in Addrs, NEW source \in Sources, NEW seconds \in Durations,
             Sweep(a, source, seconds)
      PROVE  BansInv'
  <2> DEFINE k == <<a, source>>
  <2> HIDE DEF k
  <2>1. k \in Keys /\ k \notin RangeKeys
    BY DEF Keys, RangeKeys, k
  <2>2. /\ Ban(k, seconds) /\ Due(k, FALSE, TRUE)
        /\ UNCHANGED <<now, over, visits, verdicts>>
        /\ cidrCache' \in {cidrCache, CidrBans}
    BY <1>5 DEF Sweep, Check, k
  <2> QED
    BY <2>1, <2>2, BanKeeps DEF BansInv, VerdictInv
<1>6. ASSUME NEW t \in Targets, NEW keys \in SUBSET {k \in Keys : k[1] = t}, ApiLift(t, keys)
      PROVE  BansInv'
  <2>1. PICK reread \in BOOLEAN : reread <=> \E k \in keys : bans[k] # NoBan
    OBVIOUS
  <2> DEFINE fresh == {t} \cap Addrs
  <2> HIDE DEF fresh
  <2>2. /\ Delete(keys) /\ Over(keys, fresh, reread) /\ UNCHANGED <<now, visits>>
        /\ cidrCache' = IF reread /\ t \in Ranges THEN NoCache ELSE cidrCache
        /\ \A a \in Addrs : verdicts'[a] = IF a = t THEN NoVerdict ELSE verdicts[a]
    BY <1>6, <2>1 DEF ApiLift, Over, DropCidrCache, Invalidate, fresh
  <2>3. t \notin Ranges => keys \cap RangeKeys = {}
    BY DEF RangeKeys
  <2>4. t \in Ranges => fresh = {}
    BY DEF fresh
  <2>5. \A a \in Addrs : a \in fresh => a = t
    BY DEF fresh
  <2> QED
    BY <2>1, <2>2, <2>3, <2>4, <2>5, DeleteKeeps
<1>7. ASSUME NEW keys \in SUBSET Keys, CliLift(keys) PROVE BansInv'
    BY <1>7, DeleteKeeps DEF CliLift, server
<1>8. ASSUME ApiClear PROVE BansInv'
  <2>1. \A k \in Keys : ~InForce(k)'
    BY <1>8 DEF ApiClear, Delete, InForce, Live
  <2>2. ~Fresh'
    BY <1>8 DEF ApiClear, Fresh, NoCache, BansInv, ClockInv
  <2> QED
    BY <1>8, <2>1, <2>2 DEF ApiClear, BansInv, ClockInv, VisitInv, VerdictInv, VerdictOk,
       StaleInv, RowsInv, NoVerdict, Covering, Keys
<1>9. ASSUME Purge PROVE BansInv'
  <2>1. \A k \in Keys : InForce(k)' <=> InForce(k)
    BY <1>9 DEF Purge, Delete, InForce, Live
  <2>2. ~Fresh' /\ UNCHANGED <<verdicts, visits, now, due, over>>
    BY <1>9 DEF Purge, Fresh, NoCache, BansInv, ClockInv
  <2>3. ClockInv' /\ VisitInv'
    BY <2>1, <2>2 DEF BansInv, ClockInv, VisitInv, Covering
  <2>4. StaleInv' /\ RowsInv'
    BY <2>2 DEF StaleInv, RowsInv
  <2>5. ASSUME NEW a \in Addrs PROVE VerdictOk(a)'
    <3>1. VerdictOk(a)
      BY DEF BansInv, VerdictInv
    <3> QED
      BY <2>1, <2>2, <3>1 DEF VerdictOk, Covering
  <2>6. VerdictInv'
    BY <2>5 DEF VerdictInv
  <2> QED
    BY <2>3, <2>4, <2>6 DEF BansInv
<1> QED
  <2>1. answer' = NoAnswer
    BY DEF Write, ApiBan, CliBan, Report, Sweep, ApiLift, CliLift, ApiClear, CliClear, Purge
  <2> QED
    BY <1>2, <1>3, <1>4, <1>6, <1>7, <1>8, <1>9, <1>5, <2>1 DEF Write, CliClear

(***************************************************************************)
(* A verdict that is cached now, with its reason.                          *)
(***************************************************************************)
LEMMA Judged ==
    ASSUME TypeOK, NEW a \in Addrs, NEW action \in {"allow", "block", "signal"},
           Judge(a, action), now' = now,
           action = "allow" => \A k \in Covering(a) :
               InForce(k)' => now + VerdictTTL <= due'[k],
           action = "block" => (\E k \in Covering(a) : InForce(k)') \/ now + VerdictTTL <= over'[a],
           over' \in [Addrs -> Nat], due' \in [Keys -> Nat]
    PROVE  /\ VerdictOk(a)' /\ Right'
           /\ \A b \in Addrs \ {a} : verdicts'[b] = verdicts[b]
<1> USE TTLAssumption DEF TypeOK
<1>1. PICK ttl \in VerdictTTLs :
        verdicts' = [verdicts EXCEPT ![a] = [action |-> action, until |-> now + ttl]]
    BY DEF Judge
<1>2. /\ verdicts'[a].action = action /\ verdicts'[a].until = now + ttl
      /\ ttl \in 1..VerdictTTL
      /\ \A b \in Addrs \ {a} : verdicts'[b] = verdicts[b]
    BY <1>1
<1>3. over'[a] \in Nat /\ \A k \in Covering(a) : k \in Keys /\ due'[k] \in Nat
    BY DEF Covering
<1>4. VerdictOk(a)'
  <2>1. CASE action = "allow"
    BY <1>2, <1>3, <2>1 DEF VerdictOk, Covering
  <2>2. CASE action = "block" /\ \E k \in Covering(a) : InForce(k)'
    BY <1>2, <2>2 DEF VerdictOk, Covering
  <2>3. CASE action = "block" /\ now + VerdictTTL <= over'[a]
    BY <1>2, <1>3, <2>3 DEF VerdictOk
  <2>4. CASE action = "signal"
    BY <1>2, <2>4 DEF VerdictOk
  <2> QED
    BY <2>1, <2>2, <2>3, <2>4
<1>5. answer' = IF action = "signal" THEN NoAnswer ELSE [addr |-> a, action |-> action]
    BY DEF Judge, Answer
<1>6. Right'
  <2>1. CASE action = "signal"
    BY <1>5, <2>1, Unanswered
  <2>2. CASE action = "allow"
    BY <1>3, <1>5, <2>2 DEF Right, BansTakeHold, LiftsTakeHold, Covering
  <2>3. CASE action = "block"
    <3>1. (\E k \in Covering(a) : InForce(k)') \/ now' < over'[a]
      BY <1>3, <2>3
    <3> QED
      BY <1>5, <2>3, <3>1 DEF Right, BansTakeHold, LiftsTakeHold, Covering
  <2> QED
    BY <2>1, <2>2, <2>3
<1> QED
    BY <1>2, <1>4, <1>6

\* Every step of a request keeps the invariant, and its answer is right.
LEMMA RequestStep ==
    ASSUME TypeOK, BansInv, Request, TypeOK' PROVE BansInv' /\ Right'
<1> USE RowsAssumption, CoversAssumption, TTLAssumption
<1>1. due' \in [Keys -> Nat] /\ over' \in [Addrs -> Nat]
    BY DEF TypeOK
<1>2. ASSUME NEW a \in Addrs, Hit(a) PROVE BansInv' /\ Right'
  <2>1. verdicts[a].action # "none" /\ VerdictOk(a)
    BY <1>2 DEF Hit, Cached, BansInv, VerdictInv
  <2>2. UNCHANGED <<bans, cidrCache, verdicts, visits, now, due, over>>
    BY <1>2 DEF Hit, server
  <2>3. BansInv'
    BY <2>2 DEF BansInv, ClockInv, VisitInv, VerdictInv, VerdictOk, StaleInv, RowsInv,
       InForce, Live, Fresh, Covering
  <2>4. Right'
    <3>1. verdicts[a].until \in Nat /\ over[a] \in Nat /\ now \in Nat
          /\ \A k \in Covering(a) : due[k] \in Nat /\ InForce(k)' = InForce(k)
      BY <2>2 DEF TypeOK, Covering, InForce, Live
    <3>2. CASE verdicts[a].action = "allow"
      <4>1. \A k \in Covering(a) : InForce(k)' => now' < due'[k]
        BY <2>1, <2>2, <3>1, <3>2 DEF VerdictOk
      <4>2. answer' = [addr |-> a, action |-> "allow"]
        BY <1>2, <3>2 DEF Hit, Answer
      <4> QED
        BY <4>1, <4>2 DEF Right, BansTakeHold, LiftsTakeHold, Covering
    <3>3. CASE verdicts[a].action = "block"
      <4>1. (\E k \in Covering(a) : InForce(k)') \/ now' < over'[a]
        BY <2>1, <2>2, <3>1, <3>3 DEF VerdictOk
      <4>2. answer' = [addr |-> a, action |-> "block"]
        BY <1>2, <3>3 DEF Hit, Answer
      <4> QED
        BY <4>1, <4>2 DEF Right, BansTakeHold, LiftsTakeHold, Covering
    <3>4. CASE verdicts[a].action \notin {"allow", "block"}
      BY <1>2, <3>4, Unanswered DEF Hit, Answer
    <3> QED
      BY <3>2, <3>3, <3>4
  <2> QED
    BY <2>3, <2>4
<1>3. ASSUME NEW a \in Addrs, Refuse(a) PROVE BansInv' /\ Right'
  <2>1. /\ UNCHANGED <<bans, visits, now, due, over>>
        /\ Refused(a) /\ Check(a) /\ Judge(a, "block")
    BY <1>3 DEF Refuse
  <2>2. \A k \in Keys : InForce(k)' = InForce(k)
    BY <2>1 DEF InForce, Live
  <2>3. (\E k \in Covering(a) : InForce(k)') \/ now + VerdictTTL <= over'[a]
    <3>1. (\E k \in Covering(a) : InForce(k)) \/ now + VerdictTTL < over[a]
      BY <2>1, RefusedFor
    <3>2. over[a] \in Nat /\ now \in Nat /\ \A k \in Covering(a) : k \in Keys
      BY DEF TypeOK, Covering
    <3> QED
      BY <2>1, <2>2, <3>1, <3>2
  <2>4. VerdictOk(a)' /\ Right' /\ \A b \in Addrs \ {a} : verdicts'[b] = verdicts[b]
    BY <1>1, <2>1, <2>3, Judged
  <2>5. ASSUME NEW b \in Addrs \ {a} PROVE VerdictOk(b)'
    BY <2>1, <2>2, <2>4 DEF BansInv, VerdictInv, VerdictOk, Covering
  <2>6. VerdictInv'
    BY <2>4, <2>5 DEF VerdictInv
  <2>7. ClockInv' /\ VisitInv'
    BY <2>1, <2>2 DEF BansInv, ClockInv, VisitInv, Covering
  <2>8. StaleInv' /\ RowsInv'
    BY <2>1, CheckKeeps
  <2> QED
    BY <2>4, <2>6, <2>7, <2>8 DEF BansInv
<1>4. ASSUME NEW a \in Addrs, NEW source \in Sources, Catch(a, source)
      PROVE  BansInv' /\ Right'
  <2> DEFINE k == <<a, source>>
  <2> HIDE DEF k
  <2>1. k \in Keys \ RangeKeys /\ k[1] = a /\ k \in Covering(a)
    BY DEF Keys, RangeKeys, Covering, k
  <2>2. cidrCache' \in {cidrCache, CidrBans} /\ UNCHANGED <<visits, now, over>>
    BY <1>4 DEF Catch, Check
  <2>3. ASSUME NEW seconds \in Durations, Ban(k, seconds), Judge(a, "block"),
               Due(k, Unseen(a, Visits), TRUE)
        PROVE  BansInv' /\ Right'
    <3>1. PICK fresh \in BOOLEAN : fresh <=> Unseen(a, Visits)
      OBVIOUS
    <3>2. Due(k, fresh, TRUE)
      BY <2>3, <3>1 DEF Due
    <3>3. fresh => k \notin RangeKeys /\ \A v \in Visits : visits'[v].addr # k[1]
      BY <2>1, <2>2, <3>1 DEF Unseen
    <3>4. /\ ClockInv' /\ VisitInv' /\ StaleInv' /\ RowsInv'
          /\ \A b \in Addrs :
                 verdicts'[b] = verdicts[b] /\ (fresh => b # k[1]) => VerdictOk(b)'
      BY <2>1, <2>2, <2>3, <3>2, <3>3, BanKeeps
    <3>5. InForce(k)'
      BY <2>1, <2>2, <2>3, <3>2, DueFacts
    <3>6. VerdictOk(a)' /\ Right' /\ \A b \in Addrs \ {a} : verdicts'[b] = verdicts[b]
      BY <1>1, <2>1, <2>2, <2>3, <3>5, Judged
    <3>7. VerdictInv'
      BY <2>1, <3>4, <3>6 DEF VerdictInv
    <3> QED
      BY <3>4, <3>6, <3>7 DEF BansInv
  <2>4. ASSUME NEW seconds \in Durations, BanUncounted(k, seconds), UNCHANGED verdicts,
               Answer(a, "error"), Due(k, FALSE, TRUE)
        PROVE  BansInv' /\ Right'
    <3>1. Ban(k, seconds) /\ answer' = NoAnswer
      BY <2>4 DEF BanUncounted, Answer
    <3>2. /\ ClockInv' /\ VisitInv' /\ StaleInv' /\ RowsInv'
          /\ \A b \in Addrs : verdicts'[b] = verdicts[b] => VerdictOk(b)'
      BY <2>1, <2>2, <2>4, <3>1, BanKeeps
    <3>3. VerdictInv'
      BY <2>4, <3>2 DEF VerdictInv
    <3> QED
      BY <3>1, <3>2, <3>3, Unanswered DEF BansInv
  <2> QED
    BY <1>4, <2>3, <2>4 DEF Catch, k
<1>5. ASSUME NEW v \in Visits, NEW a \in Addrs, Classify(v, a) PROVE BansInv' /\ Right'
  <2>1. /\ UNCHANGED <<bans, verdicts, now, due, over>> /\ ~Refused(a) /\ Check(a)
        /\ answer' = NoAnswer
        /\ visits' = [visits EXCEPT ![v] = [addr |-> a, since |-> now]]
    BY <1>5 DEF Classify
  <2>2. \A k \in Keys : InForce(k)' = InForce(k)
    BY <2>1 DEF InForce, Live
  <2>3. ClockInv' /\ VerdictInv'
    BY <2>1, <2>2 DEF BansInv, ClockInv, VerdictInv, VerdictOk, Covering
  <2>4. StaleInv' /\ RowsInv'
    BY <2>1, CheckKeeps
  <2>5. VisitInv'
    <3> SUFFICES ASSUME NEW w \in Visits, visits'[w] # Idle
                 PROVE  /\ visits'[w].since <= now' /\ now' <= visits'[w].since + Deadline
                        /\ \A j \in Covering(visits'[w].addr) :
                              InForce(j)' => visits'[w].since + Deadline + VerdictTTL <= due'[j]
      BY DEF VisitInv, Covering
    <3>1. CASE w = v
      <4>1. visits'[w] = [addr |-> a, since |-> now]
        BY <2>1, <3>1 DEF TypeOK
      <4>2. \A k \in Covering(a) : InForce(k) => now + Deadline + VerdictTTL <= due[k]
        BY <2>1, NotRefused
      <4> QED
        BY <2>1, <2>2, <4>1, <4>2 DEF TypeOK, Covering
    <3>2. CASE w # v
      BY <2>1, <2>2, <3>2 DEF TypeOK, BansInv, VisitInv, Covering
    <3> QED
      BY <3>1, <3>2
  <2> QED
    BY <2>1, <2>3, <2>4, <2>5, Unanswered DEF BansInv

<1>6. ASSUME NEW v \in Visits, Finish(v) PROVE BansInv' /\ Right'
  <2>0. PICK a \in Addrs : a = visits[v].addr
    BY <1>6 DEF Finish, TypeOK
  <2>1. /\ visits[v] # Idle
        /\ visits' = [visits EXCEPT ![v] = Idle] /\ UNCHANGED <<cidrCache, now, over>>
    BY <1>6 DEF Finish
  <2>2. \A w \in Visits : /\ visits'[w] \in {visits[w], Idle}
                          /\ visits'[w] # Idle => w # v /\ visits'[w] = visits[w]
    BY <2>1 DEF TypeOK
  <2>3. \A k \in Covering(a) :
           /\ k \in Keys /\ due[k] \in Nat
           /\ InForce(k) => now + VerdictTTL <= due[k]
    <3>1. /\ visits[v].since <= now /\ now <= visits[v].since + Deadline
          /\ \A k \in Covering(a) :
                InForce(k) => visits[v].since + Deadline + VerdictTTL <= due[k]
      BY <2>0, <2>1 DEF BansInv, VisitInv
    <3>2. visits[v].since \in Nat /\ now \in Nat
      BY <2>1 DEF TypeOK
    <3>3. \A k \in Covering(a) : k \in Keys /\ due[k] \in Nat
      BY DEF TypeOK, Covering
    <3> QED
      BY <3>1, <3>2, <3>3
  <2>4. ASSUME UNCHANGED <<bans, due>>
        PROVE  /\ ClockInv' /\ VisitInv' /\ StaleInv' /\ RowsInv'
               /\ \A b \in Addrs : verdicts'[b] = verdicts[b] => VerdictOk(b)'
               /\ \A k \in Keys : InForce(k)' = InForce(k)
    <3>1. \A k \in Keys : InForce(k)' = InForce(k)
      BY <2>1, <2>4 DEF InForce, Live
    <3>2. ClockInv' /\ VisitInv'
      BY <2>1, <2>2, <2>4, <3>1 DEF BansInv, ClockInv, VisitInv, Covering
    <3>3. StaleInv' /\ RowsInv'
      BY <2>1, <2>4, <3>1 DEF BansInv, StaleInv, RowsInv, Fresh, Live, Keys
    <3>4. \A b \in Addrs : verdicts'[b] = verdicts[b] => VerdictOk(b)'
      BY <2>1, <2>4, <3>1 DEF BansInv, VerdictInv, VerdictOk, Covering
    <3> QED
      BY <3>1, <3>2, <3>3, <3>4
  <2>5. CASE (Judge(a, "allow") \/ Judge(a, "signal")) /\ UNCHANGED <<bans, due>>
    <3>1. VerdictOk(a)' /\ Right' /\ \A b \in Addrs \ {a} : verdicts'[b] = verdicts[b]
      <4>1. \A k \in Covering(a) : InForce(k)' => now + VerdictTTL <= due'[k]
        BY <2>3, <2>4, <2>5
      <4>2. CASE Judge(a, "allow")
        BY <1>1, <2>1, <4>1, <4>2, Judged
      <4>3. CASE Judge(a, "signal")
        BY <1>1, <2>1, <4>3, Judged
      <4> QED
        BY <2>5, <4>2, <4>3
    <3>2. VerdictInv'
      BY <2>4, <2>5, <3>1 DEF VerdictInv
    <3> QED
      BY <2>4, <2>5, <3>1, <3>2 DEF BansInv
  <2>6. CASE Answer(a, "challenge") /\ UNCHANGED <<bans, verdicts, due>>
    <3>1. VerdictInv'
      BY <2>4, <2>6 DEF VerdictInv
    <3>2. Right'
      BY <2>6, Unanswered DEF Answer
    <3> QED
      BY <2>4, <2>6, <3>1, <3>2 DEF BansInv
  <2>7. ASSUME NEW seconds \in Durations, NEW k \in {a} \X Sources,
               Ban(k, seconds), Judge(a, "block"), Due(k, Unseen(a, Visits \ {v}), TRUE)
        PROVE  BansInv' /\ Right'
    <3>1. k \in Keys \ RangeKeys /\ k[1] = a /\ k \in Covering(a)
      BY <2>1 DEF Keys, RangeKeys, Covering
    <3>2. PICK fresh \in BOOLEAN : fresh <=> Unseen(a, Visits \ {v})
      OBVIOUS
    <3>3. Due(k, fresh, TRUE)
      BY <2>7, <3>2 DEF Due
    <3>4. fresh => k \notin RangeKeys /\ \A w \in Visits : visits'[w].addr # k[1]
      BY <2>1, <2>2, <3>1, <3>2 DEF Unseen, Idle
    <3>5. /\ UNCHANGED <<now, over>> /\ cidrCache' \in {cidrCache, NoCache}
          /\ \A w \in Visits : visits'[w] \in {visits[w], Idle}
      BY <2>1, <2>2
    <3>6. /\ ClockInv' /\ VisitInv' /\ StaleInv' /\ RowsInv'
          /\ \A b \in Addrs :
                 verdicts'[b] = verdicts[b] /\ (fresh => b # k[1]) => VerdictOk(b)'
      BY <2>7, <3>1, <3>3, <3>4, <3>5, BanKeeps
    <3>7. InForce(k)'
      BY <2>1, <2>7, <3>1, <3>3, DueFacts
    <3>8. VerdictOk(a)' /\ Right' /\ \A b \in Addrs \ {a} : verdicts'[b] = verdicts[b]
      BY <1>1, <2>1, <2>7, <3>1, <3>7, Judged
    <3>9. VerdictInv'
      BY <3>1, <3>6, <3>8 DEF VerdictInv
    <3> QED
      BY <3>6, <3>8, <3>9 DEF BansInv
  <2>8. ASSUME NEW seconds \in Durations, NEW k \in {a} \X Sources,
               BanUncounted(k, seconds), Due(k, FALSE, TRUE),
               \/ Judge(a, "allow")
               \/ UNCHANGED verdicts /\ (Answer(a, "challenge") \/ Answer(a, "error"))
        PROVE  BansInv' /\ Right'
    <3>1. k \in Keys \ RangeKeys /\ Ban(k, seconds) /\ ~InForce(k)
      BY <2>1, <2>8 DEF Keys, RangeKeys, BanUncounted, InForce, Live
    <3>2. /\ ClockInv' /\ VisitInv' /\ StaleInv' /\ RowsInv'
          /\ \A b \in Addrs : verdicts'[b] = verdicts[b] => VerdictOk(b)'
      BY <2>1, <2>2, <2>8, <3>1, BanKeeps
    <3>3. CASE Judge(a, "allow")
      <4>1. /\ \A j \in Keys \ {k} : InForce(j)' = InForce(j) /\ due'[j] = due[j]
            /\ now + Deadline + VerdictTTL <= due'[k]
        BY <2>1, <2>8, <3>1, DueFacts
      <4>2. now \in Nat /\ due'[k] \in Nat
        BY <1>1, <3>1 DEF TypeOK
      <4>3. \A j \in Covering(a) : InForce(j)' => now + VerdictTTL <= due'[j]
        BY <2>3, <4>1, <4>2
      <4>4. VerdictOk(a)' /\ Right' /\ \A b \in Addrs \ {a} : verdicts'[b] = verdicts[b]
        BY <1>1, <2>1, <3>3, <4>3, Judged
      <4>5. VerdictInv'
        BY <3>2, <4>4 DEF VerdictInv
      <4> QED
        BY <3>2, <4>4, <4>5 DEF BansInv
    <3>4. CASE UNCHANGED verdicts /\ (Answer(a, "challenge") \/ Answer(a, "error"))
      <4>1. VerdictInv'
        BY <3>2, <3>4 DEF VerdictInv
      <4>2. Right'
        BY <3>4, Unanswered DEF Answer
      <4> QED
        BY <3>2, <4>1, <4>2 DEF BansInv
    <3> QED
      BY <2>8, <3>3, <3>4
  <2> QED
    BY <1>6, <2>0, <2>5, <2>6, <2>7, <2>8 DEF Finish
<1>7. ASSUME NEW a \in Addrs, Evict(a) PROVE BansInv' /\ Right'
  <2>1. /\ UNCHANGED <<bans, cidrCache, visits, now, due, over>> /\ answer' = NoAnswer
        /\ \A b \in Addrs : verdicts'[b] \in {verdicts[b], NoVerdict}
    BY <1>7 DEF Evict, TypeOK
  <2>2. \A b \in Addrs : VerdictOk(b)'
    <3>1. \A k \in Keys : InForce(k)' = InForce(k)
      BY <2>1 DEF InForce, Live
    <3> QED
      BY <2>1, <3>1 DEF BansInv, VerdictInv, VerdictOk, NoVerdict, Covering
  <2>3. VerdictInv'
    BY <2>2 DEF VerdictInv
  <2>4. ClockInv' /\ VisitInv' /\ StaleInv' /\ RowsInv'
    BY <2>1 DEF BansInv, ClockInv, VisitInv, StaleInv, RowsInv, Fresh, InForce, Live, Covering
  <2> QED
    BY <2>1, <2>3, <2>4, Unanswered DEF BansInv
<1> QED
    BY <1>2, <1>3, <1>4, <1>5, <1>6, <1>7 DEF Request

-----------------------------------------------------------------------------
(* The theorems.                                                           *)

(***************************************************************************)
(* Every reachable state is well typed.                                    *)
(***************************************************************************)
THEOREM Typed == Spec => []TypeOK
<1>1. Init => TypeOK
    BY RowsAssumption, TTLAssumption DEF Init, TypeOK, Expiries, NoCache, NoVerdict, NoAnswer
<1> QED
    BY <1>1, TypeStep, PTL DEF Spec

\* Nothing is banned or cached at first.
LEMMA InitInv == Init => BansInv /\ Right
<1> SUFFICES ASSUME Init PROVE BansInv /\ Right
    OBVIOUS
<1>1. \A k \in Keys : ~InForce(k)
    BY DEF Init, InForce, Live
<1>2. ~Fresh /\ ClockInv
    BY TTLAssumption DEF Init, Fresh, NoCache, ClockInv
<1>3. VisitInv /\ VerdictInv
    BY DEF Init, VisitInv, VerdictInv, VerdictOk, NoVerdict
<1>4. Right
    BY DEF Init, NoAnswer, Right, BansTakeHold, LiftsTakeHold
<1> QED
    BY <1>1, <1>2, <1>3, <1>4 DEF BansInv, StaleInv, RowsInv

\* Every step keeps the invariant and answers right.
LEMMA InvStep ==
    TypeOK /\ TypeOK' /\ BansInv /\ Right /\ [Next]_vars => BansInv' /\ Right'
<1> SUFFICES ASSUME TypeOK, TypeOK', BansInv, Right, [Next]_vars PROVE BansInv' /\ Right'
    OBVIOUS
<1>1. CASE Write
    BY <1>1, WriteStep, Unanswered
<1>2. CASE Request
    BY <1>2, RequestStep
<1>3. CASE Restart
  <2>1. ~Fresh' /\ ClockInv'
    BY <1>3, TTLAssumption DEF Restart, Fresh, NoCache, BansInv, ClockInv, TypeOK
  <2>2. VisitInv' /\ VerdictInv'
    BY <1>3 DEF Restart, VisitInv, VerdictInv, VerdictOk, NoVerdict
  <2> QED
    BY <1>3, <2>1, <2>2, Unanswered DEF Restart, BansInv, StaleInv, RowsInv
<1>4. CASE Tick
    BY <1>4, TickKeeps, Unanswered DEF Tick
<1>5. CASE UNCHANGED vars
    BY <1>5 DEF vars, server, Right, BansTakeHold, LiftsTakeHold, BansInv, ClockInv, VisitInv,
       VerdictInv, VerdictOk, StaleInv, RowsInv, InForce, Live, Fresh, Covering
<1> QED
    BY <1>1, <1>2, <1>3, <1>4, <1>5 DEF Next

(***************************************************************************)
(* However many addresses, ranges, requests and writers there are, nobody  *)
(* whom a ban in force covers is let in once the ban is due.               *)
(***************************************************************************)
THEOREM BannedKeptOut == Spec => []BansTakeHold
    BY Typed, InitInv, InvStep, PTL DEF Spec, Right

(***************************************************************************)
(* And nobody is refused for a ban that has been over for long enough.     *)
(***************************************************************************)
THEOREM ReleasedGetIn == Spec => []LiftsTakeHold
    BY Typed, InitInv, InvStep, PTL DEF Spec, Right

(***************************************************************************)
(* No step cuts a ban short whose row it leaves in the table.              *)
(***************************************************************************)
THEOREM NeverCutShort == Spec => BansOnlyGrow
<1> DEFINE Grows == \A k \in Keys : bans[k] # NoBan /\ bans'[k] # NoBan =>
          bans'[k] = bans[k] \/ (bans[k] # Forever /\ (bans'[k] = Forever \/ bans'[k] > bans[k]))
<1>1. TypeOK /\ [Next]_vars => [Grows]_vars
  <2> SUFFICES ASSUME TypeOK, [Next]_vars PROVE Grows
      OBVIOUS
  <2>1. ASSUME NEW k \in Keys, NEW seconds \in Durations \cup {Forever}, Ban(k, seconds)
        PROVE  Grows
    <3>1. /\ bans[k] \in Expiries /\ bans'[k] \in Nat \cup {Forever}
          /\ bans[k] # NoBan => NotLonger(bans[k], bans'[k])
          /\ \A j \in Keys \ {k} : bans'[j] = bans[j]
      BY <2>1, RowFacts DEF TypeOK, Ban
    <3> QED
      BY <3>1, RowsAssumption DEF NotLonger, Expiries
  <2>2. ASSUME NEW keys, Delete(keys) PROVE Grows
    BY <2>2 DEF Delete
  <2>3. ASSUME bans' = bans PROVE Grows
    BY <2>3
  <2>4. CASE Write
    <3>1. \A t \in Targets : <<t, "manual">> \in Keys
      BY DEF Targets, Keys, RangeKeys
    <3>2. \A a \in Addrs, source \in Sources : <<a, source>> \in Keys
      BY DEF Keys
    <3> QED
      BY <2>1, <2>2, <2>4, <3>1, <3>2 DEF Write, ApiBan, CliBan, Report, Sweep, ApiLift, CliLift,
         ApiClear, CliClear, Purge, BanUncounted
  <2>5. CASE Request
    <3>1. ASSUME NEW a \in Addrs, NEW source \in Sources, Catch(a, source) PROVE Grows
      <4>1. <<a, source>> \in Keys
        BY DEF Keys
      <4> QED
        BY <2>1, <3>1, <4>1 DEF Catch, BanUncounted
    <3>2. ASSUME NEW v \in Visits, Finish(v) PROVE Grows
      <4>1. \A k \in {visits[v].addr} \X Sources : k \in Keys
        BY <3>2 DEF Finish, TypeOK, Keys
      <4> QED
        BY <2>1, <2>3, <3>2, <4>1 DEF Finish, BanUncounted
    <3> QED
      BY <2>3, <2>5, <3>1, <3>2 DEF Request, Hit, Refuse, Evict, Classify
  <2> QED
    BY <2>3, <2>4, <2>5 DEF Next, Restart, Tick, vars
<1> QED
    BY <1>1, Typed, PTL DEF Spec, BansOnlyGrow

=============================================================================
