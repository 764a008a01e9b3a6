-------------------------- MODULE QuotaLedgerProofs --------------------------
(***************************************************************************)
(* Proofs about QuotaLedger for every set of requests, scopes and workers, *)
(* every limit and every bound.                                            *)
(*                                                                         *)
(* LedgerInv carries what a transaction has judged up to its commit, less  *)
(* the leases that a renewal brings back meanwhile.                        *)
(* SteadyInv, for a day in which no reservation expires, bounds what a     *)
(* request misses between reading the usage and summing the reservations.  *)
(***************************************************************************)
EXTENDS QuotaLedger, FiniteSetTheorems, TLAPS

Units == Requests \X (1..MaxTokens)

(* Token units are finitely many, so the SQL sums are naturals.            *)
LEMMA UnitsFinite ==
  ASSUME NEW S, S \subseteq Units
  PROVE  IsFiniteSet(S) /\ Cardinality(S) \in Nat
<1>1. IsFiniteSet(1..MaxTokens)
  BY FS_Interval, BoundAssumption
<1>2. IsFiniteSet(Units)
  BY <1>1, FS_Product, RequestsFinite DEF Units
<1> QED
  BY <1>2, FS_Subset, FS_CardinalityType

(* A sum over fewer reservations is no larger.                             *)
LEMMA UnitsMonotone ==
  ASSUME NEW S, NEW T, S \subseteq T, T \subseteq Units
  PROVE  Cardinality(S) <= Cardinality(T)
  BY UnitsFinite, FS_Subset

(* Writing n more tokens for one request adds at most n to a sum.          *)
LEMMA UnitsGrow ==
  ASSUME NEW S, NEW T, S \subseteq Units, T \subseteq Units,
         NEW q \in Requests, NEW a \in Nat, NEW n \in Nat,
         S \subseteq T \cup ({q} \X ((a + 1)..(a + n)))
  PROVE  Cardinality(S) <= Cardinality(T) + n
<1> DEFINE G == {q} \X ((a + 1)..(a + n))
<1>1. IsFiniteSet((a + 1)..(a + n)) /\ Cardinality((a + 1)..(a + n)) = n
  BY FS_Interval
<1>2. IsFiniteSet({q}) /\ Cardinality({q}) = 1
  BY FS_Singleton
<1>3. IsFiniteSet(G) /\ Cardinality(G) = n
  BY <1>1, <1>2, FS_Product
<1>4. /\ IsFiniteSet(T \cup G)
      /\ Cardinality(T \cup G) = Cardinality(T) + Cardinality(G) - Cardinality(T \cap G)
  BY <1>3, UnitsFinite, FS_Union
<1>5. IsFiniteSet(T \cap G) /\ Cardinality(T \cap G) \in Nat
  BY <1>3, FS_Subset, FS_CardinalityType
<1>6. Cardinality(S) <= Cardinality(T \cup G)
  BY <1>4, FS_Subset
<1>7. Cardinality(S) \in Nat /\ Cardinality(T) \in Nat
  BY UnitsFinite
<1> QED
  BY <1>3, <1>4, <1>5, <1>6, <1>7

-----------------------------------------------------------------------------
(* Type correctness.                                                       *)

LEMMA UsedType == ASSUME NEW s, NEW D PROVE Used(s, D) \in Nat
<1>1. IsFiniteSet(1..(MaxTokens + MaxOveruse))
  BY FS_Interval, BoundAssumption
<1>2. IsFiniteSet(Requests \X (1..(MaxTokens + MaxOveruse)))
  BY <1>1, FS_Product, RequestsFinite
<1>3. IsFiniteSet(Consumed(s, D))
  BY <1>2, FS_Subset DEF Consumed
<1> QED
  BY <1>3, FS_CardinalityType DEF Used

LEMMA EffectiveType ==
  ASSUME TypeOK, NEW s \in Scopes PROVE Effective(s) \in Limits
  BY LimitAssumption DEF TypeOK, Effective, FirstSet, Limits

LEMMA InitInv == Init => LedgerInv
<1> SUFFICES ASSUME Init PROVE LedgerInv
  OBVIOUS
<1>1. TypeOK
  BY BoundAssumption, LimitAssumption
  DEF Init, TypeOK, Row, Record, Call, Renewal, Limits, Limit, NoLimits, NoRow,
      NoRenewal, Outside, Days, Phases
<1>2. RenewalShape
  BY BoundAssumption DEF Init, RenewalShape, OwnRenewal, NoRow, NoRenewal
<1> QED
  BY <1>1, <1>2
  DEF Init, LedgerInv, LockHeld, SnapshotPast, Judged, RowShape, OwnRow, RoomFound,
      RowLocked, Creating, Holding, Judging, NoRow, Outside

(* Every action moves a request by writing one record of type Call, most   *)
(* of them by changing its phase only.                                     *)
LEMMA CallWritten ==
  ASSUME req \in [Requests -> Call], NEW q \in Requests, NEW c \in Call,
         req' = [req EXCEPT ![q] = c]
  PROVE  req' \in [Requests -> Call]
  OBVIOUS

LEMMA PhaseWritten ==
  ASSUME req \in [Requests -> Call], NEW q \in Requests, NEW p \in Phases,
         req' = [req EXCEPT ![q].phase = p]
  PROVE  req' \in [Requests -> Call]
  BY DEF Call

LEMMA OutsideType == ASSUME NEW p \in Phases PROVE Outside(p) \in Call
  BY BoundAssumption, LimitAssumption DEF Outside, Call, Days, NoLimits, Limits, Limit

LEMMA Absent == NoRow \in Row /\ NoRenewal \in Renewal
  BY BoundAssumption DEF NoRow, NoRenewal, Row, Renewal, Days

LEMMA PhaseNames ==
  /\ {"idle", "ready", "reserved"} \subseteq Phases
  /\ {"waiting", "locked", "dayUsed", "dayOk", "monthUsed", "admitted"} \subseteq Phases
  /\ {"dailyDenied", "monthlyDenied", "running", "stopping", "recorded"} \subseteq Phases
  /\ {"done", "abandoned", "crashed"} \subseteq Phases
  BY DEF Phases, Creating, Denied, Serving, Ended

LEMMA TypeStep == LedgerInv /\ [Next]_vars => TypeOK'
<1> SUFFICES ASSUME LedgerInv, [Next]_vars PROVE TypeOK'
  OBVIOUS
<1> USE BoundAssumption, ScopeAssumption
<1>0. /\ TypeOK
      /\ req \in [Requests -> Call] /\ clock \in Nat /\ today \in Days
      /\ rows \in [Requests -> Row] /\ renewal \in [Requests -> Renewal]
  BY DEF LedgerInv, TypeOK, today
<1>1. ASSUME NEW q \in Requests, Reserve(q) PROVE TypeOK'
  <2>1. PICK amount \in Amounts :
          req' = [req EXCEPT ![q] = [@ EXCEPT !.phase = "ready", !.op = "create",
                                              !.amount = amount, !.date = today,
                                              !.limits = Effective(ScopeOf[q])]]
    BY <1>1 DEF Reserve
  <2>2. Effective(ScopeOf[q]) \in Limits /\ amount \in 0..MaxTokens
    BY <1>0, EffectiveType, AmountAssumption
  <2>3. [req[q] EXCEPT !.phase = "ready", !.op = "create", !.amount = amount,
                       !.date = today, !.limits = Effective(ScopeOf[q])] \in Call
    BY <1>0, <2>2, PhaseNames DEF Call
  <2>4. req' \in [Requests -> Call]
    BY <1>0, <2>1, <2>3
  <2> QED
    BY <1>0, <1>1, <2>4 DEF TypeOK, Reserve
<1>2. ASSUME NEW q \in Requests, Extend(q) PROVE TypeOK'
  <2>1. PICK amount \in Amounts :
          req' = [req EXCEPT ![q] = [@ EXCEPT !.phase = "waiting", !.op = "extend",
                                              !.amount = amount, !.txnow = clock,
                                              !.date = rows[q].date,
                                              !.limits = Effective(ScopeOf[q])]]
    BY <1>2 DEF Extend
  <2>2. Effective(ScopeOf[q]) \in Limits /\ amount \in 0..MaxTokens /\ rows[q].date \in Days
    BY <1>0, EffectiveType, AmountAssumption DEF Row
  <2>3. [req[q] EXCEPT !.phase = "waiting", !.op = "extend", !.amount = amount,
                       !.txnow = clock, !.date = rows[q].date,
                       !.limits = Effective(ScopeOf[q])] \in Call
    BY <1>0, <2>2, PhaseNames DEF Call
  <2>4. req' \in [Requests -> Call]
    BY <1>0, <2>1, <2>3
  <2> QED
    BY <1>0, <1>2, <2>4 DEF TypeOK, Extend, Forget
<1>3. ASSUME NEW q \in Requests, Begin(q) PROVE TypeOK'
  <2>1. [req[q] EXCEPT !.phase = "waiting", !.txnow = clock] \in Call
    BY <1>0, PhaseNames DEF Call
  <2>2. req' \in [Requests -> Call]
    BY <1>0, <1>3, <2>1 DEF Begin
  <2> QED
    BY <1>0, <1>3, <2>2 DEF TypeOK, Begin, Forget
<1>4. ASSUME NEW q \in Requests, ExtendGone(q) \/ Deny(q) \/ Enter(q)
                                  \/ FinalizeFails(q) \/ Abandon(q)
      PROVE TypeOK'
  <2>1. PICK p \in Phases : req' = [req EXCEPT ![q].phase = p]
    BY <1>4, PhaseNames DEF ExtendGone, Deny, Enter, FinalizeFails, Abandon
  <2>2. req' \in [Requests -> Call]
    BY <1>0, <2>1, PhaseWritten
  <2>3. renewal' \in [Requests -> Renewal]
    BY <1>0, <1>4, Absent
    DEF ExtendGone, Deny, Enter, FinalizeFails, Abandon, StopRenewal
  <2> QED
    BY <1>0, <1>4, <2>2, <2>3
    DEF TypeOK, ExtendGone, Deny, Enter, FinalizeFails, Abandon
<1>5. ASSUME NEW q \in Requests,
             Locked(q) \/ JudgeDaily(q) \/ JudgeMonthly(q) \/ Cancel(q) \/ PoolTimeout(q)
      PROVE TypeOK'
  <2>1. \E p \in Phases : \/ req' = [req EXCEPT ![q].phase = p]
                         \/ req' = [req EXCEPT ![q] = Outside(p)]
    BY <1>5, PhaseNames
    DEF Locked, JudgeDaily, JudgeMonthly, Judge, Cancel, PoolTimeout, RolledBack
  <2>2. req' \in [Requests -> Call]
    BY <1>0, <2>1, PhaseWritten, OutsideType
  <2>3. lock' \in [Scopes -> Requests \cup {Nobody}]
    BY <1>0, <1>5
    DEF TypeOK, Locked, JudgeDaily, JudgeMonthly, Judge, Cancel, PoolTimeout, Unlock
  <2> QED
    BY <1>0, <1>5, <2>2, <2>3
    DEF TypeOK, Locked, JudgeDaily, JudgeMonthly, Judge, Cancel, PoolTimeout
<1>6. ASSUME NEW q \in Requests, ReadDailyUsed(q) \/ ReadMonthlyUsed(q) PROVE TypeOK'
  <2>1. PICK u \in Nat, p \in Phases :
          req' = [req EXCEPT ![q] = [@ EXCEPT !.phase = p, !.used = u]]
    BY <1>6, UsedType, PhaseNames DEF ReadDailyUsed, ReadMonthlyUsed, ReadUsed
  <2>2. [req[q] EXCEPT !.phase = p, !.used = u] \in Call
    BY <1>0 DEF Call
  <2>3. req' \in [Requests -> Call]
    BY <1>0, <2>1, <2>2
  <2> QED
    BY <1>0, <1>6, <2>3 DEF TypeOK, ReadDailyUsed, ReadMonthlyUsed, ReadUsed
<1>7. ASSUME NEW q \in Requests, Commit(q) PROVE TypeOK'
  <2>1. PICK p \in Phases : req' = [req EXCEPT ![q] = Outside(p)]
    BY <1>7, PhaseNames DEF Commit
  <2>2. req' \in [Requests -> Call]
    BY <1>0, <2>1, OutsideType
  <2>a. PICK t \in req[q].txnow..clock : rows' = [rows EXCEPT ![q] = Written(q, t)]
    BY <1>7 DEF Commit
  <2>b. t \in Nat
    BY <1>0, <2>a DEF Call
  <2>3. Written(q, t) \in Row
    <3>1. CASE req[q].op = "create"
      BY <1>0, <2>b, <3>1 DEF Written, Row, Call
    <3>2. CASE req[q].op # "create"
      <4>1. rows[q].tokens + req[q].amount <= MaxTokens
        BY <1>0, <1>7, <3>2
        DEF LedgerInv, RowShape, OwnRow, Commit, Creating, Outside, Call
      <4>2. rows[q].tokens + req[q].amount \in 0..MaxTokens
        BY <1>0, <4>1 DEF Row, Call
      <4> QED
        BY <1>0, <3>2, <4>2 DEF Written, Row
    <3> QED
      BY <3>1, <3>2
  <2>4. rows' \in [Requests -> Row]
    BY <1>0, <2>a, <2>3
  <2>5. lock' \in [Scopes -> Requests \cup {Nobody}]
    BY <1>0, <1>7 DEF TypeOK, Commit, Unlock
  <2>6. /\ usage' = usage /\ plan' = plan /\ override' = override /\ renewal' = renewal
        /\ revived' = revived /\ clock' = clock
    BY <1>7 DEF Commit
  <2> QED
    BY <1>0, <2>2, <2>4, <2>5, <2>6, Zenon DEF TypeOK
<1>8. ASSUME NEW q \in Requests, RenewStart(q) \/ RenewBegin(q) PROVE TypeOK'
  <2>a. [at |-> "computed", expires |-> clock + TTL, txnow |-> 0] \in Renewal
    BY <1>0 DEF Renewal
  <2>b. [renewal[q] EXCEPT !.at = "begun", !.txnow = clock] \in Renewal
    BY <1>0 DEF Renewal
  <2>1. renewal' \in [Requests -> Renewal]
    BY <1>0, <1>8, <2>a, <2>b DEF RenewStart, RenewBegin
  <2> QED
    BY <1>0, <1>8, <2>1 DEF TypeOK, RenewStart, RenewBegin
<1>a. ASSUME NEW q \in Requests, RenewCommit(q) PROVE TypeOK'
  <2>1. renewal' \in [Requests -> Renewal]
    BY <1>0, <1>a, Absent DEF RenewCommit
  <2>2. rows' \in [Requests -> Row]
    BY <1>0, <1>a DEF RenewCommit, Row, Renewal
  <2>3. revived' \subseteq Requests \X Requests
    BY <1>0, <1>a DEF TypeOK, RenewCommit, JudgedWithout
  <2> QED
    BY <1>0, <1>a, <2>1, <2>2, <2>3 DEF TypeOK, RenewCommit
<1>b. ASSUME NEW q \in Requests, RenewFails(q) PROVE TypeOK'
  <2>1. req' \in [Requests -> Call]
    BY <1>0, <1>b, OutsideType, PhaseNames DEF RenewFails
  <2>2. renewal' \in [Requests -> Renewal]
    BY <1>0, <1>b, Absent DEF RenewFails, NoRenewal, Renewal
  <2> QED
    BY <1>0, <1>b, <2>1, <2>2 DEF TypeOK, RenewFails
<1>9. ASSUME NEW q \in Requests, RecordUsage(q) PROVE TypeOK'
  <2>1. PICK n \in 0..(rows[q].tokens + MaxOveruse) :
          usage' = [usage EXCEPT ![q] = [tokens |-> n, date |-> today]]
    BY <1>9 DEF RecordUsage
  <2>2. usage' \in [Requests -> Record]
    BY <1>0, <2>1 DEF TypeOK, Record, Row
  <2>3. req' \in [Requests -> Call]
    BY <1>0, <1>9, PhaseWritten, PhaseNames DEF RecordUsage
  <2> QED
    BY <1>0, <1>9, <2>2, <2>3 DEF TypeOK, RecordUsage
<1>10. ASSUME NEW q \in Requests, Finalize(q) PROVE TypeOK'
  <2>1. req' \in [Requests -> Call]
    BY <1>0, <1>10, PhaseWritten, PhaseNames DEF Finalize
  <2>2. rows' \in [Requests -> Row] /\ renewal' \in [Requests -> Renewal]
    BY <1>0, <1>10, Absent DEF Finalize, StopRenewal
  <2> QED
    BY <1>0, <1>10, <2>1, <2>2 DEF TypeOK, Finalize
<1>11. ASSUME NEW w \in Workers, Crash(w) PROVE TypeOK'
  <2>1. Outside("crashed") \in Call
    BY OutsideType, PhaseNames
  <2>2. req' \in [Requests -> Call] /\ renewal' \in [Requests -> Renewal]
    BY <1>0, <1>11, <2>1, Absent DEF Crash
  <2> QED
    BY <1>0, <1>11, <2>2 DEF TypeOK, Crash
<1>12. ASSUME NEW s \in Scopes, SetWorkspaceQuota(s) \/ ChangePlan(s) PROVE TypeOK'
  BY <1>0, <1>12, LimitAssumption DEF TypeOK, SetWorkspaceQuota, ChangePlan
<1>13. CASE CleanupExpired
  BY <1>0, <1>13 DEF TypeOK, CleanupExpired, Row
<1>14. CASE Tick
  BY <1>0, <1>14 DEF TypeOK, Tick
<1>15. CASE UNCHANGED vars
  BY <1>0, <1>15 DEF TypeOK, vars
<1> QED
  BY <1>1, <1>2, <1>3, <1>4, <1>5, <1>6, <1>7, <1>8, <1>9, <1>10, <1>11, <1>12, <1>13,
     <1>14, <1>15, <1>a, <1>b DEF Next, Transaction

-----------------------------------------------------------------------------
(* Mutual exclusion, snapshots and rows.                                   *)

(* The holders of one scope's lock are one request.                        *)
LEMMA HolderUnique ==
  ASSUME LedgerInv, NEW q \in Requests, NEW r \in Requests, ScopeOf[q] = ScopeOf[r],
         req[q].phase \in Holding, req[r].phase \in Holding
  PROVE  q = r
  BY DEF LedgerInv, LockHeld

(* What the actions that write several fields of a request do to it.       *)
LEMMA OpenCall ==
  ASSUME req \in [Requests -> Call], NEW q \in Requests,
         Reserve(q) \/ Extend(q) \/ Begin(q)
  PROVE  /\ \A r \in Requests \ {q} : req'[r] = req[r]
         /\ \/ /\ req[q].phase = "idle" /\ req'[q].phase = "ready"
               /\ req'[q].op = "create"
            \/ /\ req[q].phase = "ready" /\ req'[q].phase = "waiting"
               /\ req'[q].op = req[q].op
            \/ /\ req[q].phase = "running" /\ req'[q].phase = "waiting"
               /\ req'[q].op = "extend"
               /\ req'[q].date = rows[q].date
               /\ rows[q].tokens + req'[q].amount <= MaxTokens
         /\ req'[q].phase = "waiting" => req'[q].txnow = clock
         /\ UNCHANGED <<rows, lock, renewal, clock>>
<1>1. CASE Reserve(q)
  <2>1. PICK amount \in Amounts :
          req' = [req EXCEPT ![q] = [@ EXCEPT !.phase = "ready", !.op = "create",
                                              !.amount = amount, !.date = today,
                                              !.limits = Effective(ScopeOf[q])]]
    BY <1>1 DEF Reserve
  <2>2. /\ req'[q].phase = "ready" /\ req'[q].op = "create"
        /\ \A r \in Requests \ {q} : req'[r] = req[r]
    BY <2>1 DEF Call
  <2> QED
    BY <1>1, <2>2 DEF Reserve
<1>2. CASE Extend(q)
  <2>1. PICK amount \in Amounts :
          /\ rows[q].tokens + amount <= MaxTokens
          /\ req' = [req EXCEPT ![q] = [@ EXCEPT !.phase = "waiting", !.op = "extend",
                                                 !.amount = amount, !.txnow = clock,
                                                 !.date = rows[q].date,
                                                 !.limits = Effective(ScopeOf[q])]]
    BY <1>2 DEF Extend
  <2>2. /\ req'[q].phase = "waiting" /\ req'[q].txnow = clock /\ req'[q].op = "extend"
        /\ req'[q].amount = amount /\ req'[q].date = rows[q].date
        /\ \A r \in Requests \ {q} : req'[r] = req[r]
    BY <2>1 DEF Call
  <2> QED
    BY <1>2, <2>1, <2>2 DEF Extend
<1>3. CASE Begin(q)
  <2>1. /\ req'[q].phase = "waiting" /\ req'[q].txnow = clock /\ req'[q].op = req[q].op
        /\ \A r \in Requests \ {q} : req'[r] = req[r]
    BY <1>3 DEF Begin, Call
  <2> QED
    BY <1>3, <2>1 DEF Begin
<1> QED
  BY <1>1, <1>2, <1>3

LEMMA UsedRead ==
  ASSUME req \in [Requests -> Call], NEW q \in Requests,
         ReadDailyUsed(q) \/ ReadMonthlyUsed(q)
  PROVE  /\ \A r \in Requests \ {q} : req'[r] = req[r]
         /\ \/ req[q].phase = "locked" /\ req'[q].phase = "dayUsed"
            \/ req[q].phase = "dayOk" /\ req'[q].phase = "monthUsed"
         /\ req'[q].op = req[q].op /\ req'[q].amount = req[q].amount
         /\ req'[q].date = req[q].date /\ req'[q].limits = req[q].limits
         /\ req'[q].txnow = req[q].txnow
         /\ UNCHANGED <<rows, lock, renewal, revived, clock>>
<1>1. PICK u, p :
        /\ req' = [req EXCEPT ![q] = [@ EXCEPT !.phase = p, !.used = u]]
        /\ \/ req[q].phase = "locked" /\ p = "dayUsed"
           \/ req[q].phase = "dayOk" /\ p = "monthUsed"
  BY DEF ReadDailyUsed, ReadMonthlyUsed, ReadUsed
<1>2. /\ \A r \in Requests \ {q} : req'[r] = req[r]
      /\ req'[q].phase = p
      /\ req'[q].op = req[q].op /\ req'[q].amount = req[q].amount
      /\ req'[q].date = req[q].date /\ req'[q].limits = req[q].limits
      /\ req'[q].txnow = req[q].txnow
  BY <1>1 DEF Call
<1>3. UNCHANGED <<rows, lock, renewal, revived, clock>>
  BY DEF ReadDailyUsed, ReadMonthlyUsed, ReadUsed
<1> QED
  BY <1>1, <1>2, <1>3

LEMMA LockStep == LedgerInv /\ [Next]_vars => LockHeld'
<1> SUFFICES ASSUME LedgerInv, [Next]_vars, NEW r \in Requests, req'[r].phase \in Holding
             PROVE  lock'[ScopeOf[r]] = r
  BY DEF LockHeld
<1> USE ScopeAssumption, NobodyAssumption
<1>0. /\ req \in [Requests -> Call] /\ lock \in [Scopes -> Requests \cup {Nobody}]
      /\ LockHeld
  BY DEF LedgerInv, TypeOK
<1>1. ASSUME NEW q \in Requests,
             \/ ExtendGone(q) \/ Deny(q) \/ Enter(q)
             \/ RenewFails(q) \/ RecordUsage(q) \/ Finalize(q) \/ FinalizeFails(q)
             \/ Abandon(q)
      PROVE  lock'[ScopeOf[r]] = r
  <2>1. req[r].phase \in Holding
    BY <1>0, <1>1 DEF ExtendGone, Deny, Enter, RenewFails, RecordUsage, Finalize,
         FinalizeFails, Abandon, Holding, Creating, Outside, Call
  <2>2. UNCHANGED lock
    BY <1>1
    DEF ExtendGone, Deny, Enter, RenewFails, RecordUsage, Finalize, FinalizeFails,
        Abandon
  <2> QED
    BY <1>0, <2>1, <2>2 DEF LockHeld
<1>2. ASSUME NEW q \in Requests, Locked(q) PROVE lock'[ScopeOf[r]] = r
  BY <1>0, <1>2 DEF Locked, LockHeld, Holding, Creating, Outside, Call
<1>3. ASSUME NEW q \in Requests,
             JudgeDaily(q) \/ JudgeMonthly(q) \/ Cancel(q) \/ PoolTimeout(q) \/ Commit(q)
      PROVE  lock'[ScopeOf[r]] = r
  <2>1. r # q => req[r].phase \in Holding /\ lock[ScopeOf[r]] = r
    BY <1>0, <1>3 DEF JudgeDaily, JudgeMonthly, Judge, Cancel, PoolTimeout, Commit,
                      RolledBack, LockHeld, Outside, Call
  <2>2. req[q].phase \in Holding => lock[ScopeOf[q]] = q
    BY <1>0 DEF LockHeld
  <2>3. CASE r # q
    BY <1>0, <1>3, <2>1, <2>2, <2>3 DEF JudgeDaily, JudgeMonthly, Judge, Cancel,
          PoolTimeout, Commit, Unlock, Holding, Creating
  <2>4. CASE r = q
    BY <1>0, <1>3, <2>2, <2>4 DEF JudgeDaily, JudgeMonthly, Judge, Cancel, PoolTimeout,
          Commit, RolledBack, Unlock, Holding, Creating, Outside, Call
  <2> QED
    BY <2>3, <2>4
<1>4. ASSUME NEW w \in Workers, Crash(w) PROVE lock'[ScopeOf[r]] = r
  BY <1>0, <1>4 DEF Crash, LockHeld, Holding, Creating, Outside, Call
<1>5. CASE \/ \E q \in Requests : RenewStart(q) \/ RenewBegin(q) \/ RenewCommit(q)
           \/ \E s \in Scopes : SetWorkspaceQuota(s) \/ ChangePlan(s)
           \/ CleanupExpired \/ Tick \/ UNCHANGED vars
  BY <1>0, <1>5
  DEF RenewStart, RenewBegin, RenewCommit, SetWorkspaceQuota, ChangePlan,
      CleanupExpired, Tick, vars, LockHeld
<1>6. ASSUME NEW q \in Requests, Reserve(q) \/ Extend(q) \/ Begin(q)
      PROVE  lock'[ScopeOf[r]] = r
  BY <1>0, <1>6, OpenCall DEF LockHeld, Holding, Creating
<1>7. ASSUME NEW q \in Requests, ReadDailyUsed(q) \/ ReadMonthlyUsed(q)
      PROVE  lock'[ScopeOf[r]] = r
  BY <1>0, <1>7, UsedRead DEF LockHeld, Holding, Creating
<1> QED
  BY <1>1, <1>2, <1>3, <1>4, <1>5, <1>6, <1>7 DEF Next, Transaction

(* A step opens a transaction at the present or leaves its snapshot alone. *)
LEMMA SnapshotStep == LedgerInv /\ [Next]_vars => SnapshotPast'
<1> SUFFICES ASSUME LedgerInv, [Next]_vars, NEW r \in Requests, req'[r].phase \in Creating
             PROVE  req'[r].txnow <= clock'
  BY DEF SnapshotPast
<1>0. /\ req \in [Requests -> Call] /\ clock \in Nat /\ SnapshotPast
  BY BoundAssumption DEF LedgerInv, TypeOK
<1>1. ASSUME NEW q \in Requests, Reserve(q) \/ Extend(q) \/ Begin(q)
      PROVE  req'[r].txnow <= clock'
  BY <1>0, <1>1, OpenCall DEF SnapshotPast, Creating
<1>2. ASSUME NEW q \in Requests,
             \/ ExtendGone(q) \/ Deny(q) \/ Enter(q)
             \/ RenewStart(q) \/ RenewBegin(q) \/ RenewCommit(q) \/ RenewFails(q)
             \/ RecordUsage(q) \/ Finalize(q) \/ FinalizeFails(q) \/ Abandon(q)
      PROVE  req'[r].txnow <= clock'
  BY <1>0, <1>2
  DEF ExtendGone, Deny, Enter, RenewStart, RenewBegin, RenewCommit, RenewFails,
      RecordUsage, Finalize, FinalizeFails, Abandon, SnapshotPast, Creating, Outside,
      Call
<1>6. ASSUME NEW q \in Requests, ReadDailyUsed(q) \/ ReadMonthlyUsed(q)
      PROVE  req'[r].txnow <= clock'
  BY <1>0, <1>6, UsedRead DEF SnapshotPast, Creating
<1>3. ASSUME NEW q \in Requests, Locked(q) \/ JudgeDaily(q) \/ JudgeMonthly(q) \/ Cancel(q)
                                  \/ PoolTimeout(q) \/ Commit(q)
      PROVE  req'[r].txnow <= clock'
  BY <1>0, <1>3
  DEF Locked, JudgeDaily, JudgeMonthly, Judge, Cancel, PoolTimeout, Commit, RolledBack,
      SnapshotPast, Creating, Outside, Call
<1>4. ASSUME NEW w \in Workers, Crash(w) PROVE req'[r].txnow <= clock'
  BY <1>0, <1>4 DEF Crash, SnapshotPast, Creating, Outside, Call
<1>5. CASE \/ \E s \in Scopes : SetWorkspaceQuota(s) \/ ChangePlan(s)
           \/ CleanupExpired \/ Tick \/ UNCHANGED vars
  BY <1>0, <1>5 DEF SetWorkspaceQuota, ChangePlan, CleanupExpired, Tick, vars,
                    SnapshotPast, Call
<1> QED
  BY <1>1, <1>2, <1>3, <1>4, <1>5, <1>6 DEF Next, Transaction

LEMMA RowStep == LedgerInv /\ [Next]_vars => RowShape'
<1> SUFFICES ASSUME LedgerInv, [Next]_vars, NEW r \in Requests PROVE OwnRow(r)'
  BY DEF RowShape
<1>0. req \in [Requests -> Call] /\ rows \in [Requests -> Row] /\ OwnRow(r)
  BY DEF LedgerInv, TypeOK, RowShape
<1> USE DEF OwnRow, RowLocked, Holding, Creating
<1>1. ASSUME NEW q \in Requests, Reserve(q) \/ Extend(q) \/ Begin(q) PROVE OwnRow(r)'
  BY <1>0, <1>1, OpenCall
<1>2. ASSUME NEW q \in Requests, ReadDailyUsed(q) \/ ReadMonthlyUsed(q) PROVE OwnRow(r)'
  BY <1>0, <1>2, UsedRead
<1>3. ASSUME NEW q \in Requests,
             \/ ExtendGone(q) \/ Deny(q) \/ Enter(q) \/ RenewFails(q) \/ RecordUsage(q)
             \/ FinalizeFails(q) \/ Abandon(q)
      PROVE OwnRow(r)'
  BY <1>0, <1>3 DEF ExtendGone, Deny, Enter, RenewFails, RecordUsage, FinalizeFails,
                    Abandon, Outside, Call
<1>4. ASSUME NEW q \in Requests, Locked(q) PROVE OwnRow(r)'
  BY <1>0, <1>4 DEF Locked, Outside, Call
<1>5. ASSUME NEW q \in Requests, JudgeDaily(q) \/ JudgeMonthly(q) \/ Cancel(q)
                                  \/ PoolTimeout(q)
      PROVE OwnRow(r)'
  BY <1>0, <1>5
  DEF JudgeDaily, JudgeMonthly, Judge, Cancel, PoolTimeout, RolledBack, Outside, Call
<1>6. ASSUME NEW q \in Requests, Commit(q) PROVE OwnRow(r)'
  BY <1>0, <1>6 DEF Commit, Outside, Call
<1>7. ASSUME NEW q \in Requests, Finalize(q) PROVE OwnRow(r)'
  BY <1>0, <1>7 DEF Finalize, Call, Row, Serving
<1>8. ASSUME NEW q \in Requests, RenewStart(q) \/ RenewBegin(q) \/ RenewCommit(q)
      PROVE OwnRow(r)'
  BY <1>0, <1>8 DEF RenewStart, RenewBegin, RenewCommit, Row
<1>9. ASSUME NEW w \in Workers, Crash(w) PROVE OwnRow(r)'
  BY <1>0, <1>9 DEF Crash, Outside, Call
<1>10. CASE CleanupExpired
  BY <1>0, <1>10 DEF CleanupExpired, Row
<1>11. CASE \/ \E s \in Scopes : SetWorkspaceQuota(s) \/ ChangePlan(s)
            \/ Tick \/ UNCHANGED vars
  BY <1>0, <1>11 DEF SetWorkspaceQuota, ChangePlan, Tick, vars
<1> QED
  BY <1>1, <1>2, <1>3, <1>4, <1>5, <1>6, <1>7, <1>8, <1>9, <1>10, <1>11
  DEF Next, Transaction

-----------------------------------------------------------------------------
(* A judgement outlives the steps of the others.                           *)

UnitsOf(rw, s, D, t) ==
  {u \in Units : /\ rw[u[1]].present
                 /\ ScopeOf[u[1]] = s
                 /\ rw[u[1]].date \in D
                 /\ rw[u[1]].expires > t
                 /\ u[2] <= rw[u[1]].tokens}

(* Those of them that q could know of.                                     *)
KnownOf(rw, rv, q, D, t) ==
  {u \in UnitsOf(rw, ScopeOf[q], D, t) : <<q, u[1]>> \notin rv}

(* What was revived behind the back of a request that has judged stays     *)
(* noted until its transaction is over.                                    *)
LEMMA RevivedKept ==
  ASSUME LedgerInv, [Next]_vars, NEW r \in Requests, req[r].phase \in Judging,
         NEW x \in Requests, <<r, x>> \in revived
  PROVE  <<r, x>> \in revived'
<1>0. req \in [Requests -> Call]
  BY DEF LedgerInv, TypeOK
<1>1. ASSUME NEW q \in Requests, Begin(q) \/ Extend(q) PROVE <<r, x>> \in revived'
  BY <1>0, <1>1 DEF Begin, Extend, Forget, Judging
<1>2. ASSUME NEW q \in Requests, RenewCommit(q) PROVE <<r, x>> \in revived'
  BY <1>2 DEF RenewCommit
<1>3. CASE UNCHANGED revived
  BY <1>3
<1> QED
  BY <1>1, <1>2, <1>3
  DEF Next, Transaction, vars, Reserve, ExtendGone, Locked, ReadDailyUsed, JudgeDaily,
      ReadMonthlyUsed, JudgeMonthly, ReadUsed, Judge, PoolTimeout, Commit, Deny, Enter,
      RenewStart, RenewBegin, RenewFails, RecordUsage, Finalize, FinalizeFails, Cancel,
      Abandon, Crash, SetWorkspaceQuota, ChangePlan, CleanupExpired, Tick

(* Once r has judged, and while it does not itself commit, no step adds to *)
(* the reservations that r can know of: commits of its scope need the      *)
(* lock, and a renewal of a row that had expired for r is noted.           *)
LEMMA CountedShrinks ==
  ASSUME LedgerInv, [Next]_vars, NEW r \in Requests, req[r].phase \in Judging,
         ~Commit(r), NEW x \in Requests, ScopeOf[x] = ScopeOf[r],
         rows'[x].present, rows'[x].expires > req[r].txnow, <<r, x>> \notin revived'
  PROVE  /\ rows[x].present /\ rows[x].expires > req[r].txnow
         /\ rows'[x].tokens = rows[x].tokens /\ rows'[x].date = rows[x].date
<1> DEFINE Goal == /\ rows[x].present /\ rows[x].expires > req[r].txnow
                   /\ rows'[x].tokens = rows[x].tokens /\ rows'[x].date = rows[x].date
<1>0. /\ req \in [Requests -> Call] /\ rows \in [Requests -> Row]
      /\ clock \in Nat /\ req[r].txnow \in Nat
      /\ req[r].phase \in Holding
  BY BoundAssumption DEF LedgerInv, TypeOK, Judging, Holding, Creating, Call
<1>1. ASSUME NEW q \in Requests, Commit(q) PROVE Goal
  <2>1. req[q].phase \in Holding /\ q # r
    BY <1>1 DEF Commit, Holding, Creating
  <2>2. x # q
    BY <1>0, <2>1, HolderUnique
  <2> QED
    BY <1>0, <1>1, <2>2 DEF Commit
<1>2. ASSUME NEW q \in Requests, RenewCommit(q) PROVE Goal
  <2>1. CASE q # x
    BY <1>0, <1>2, <2>1 DEF RenewCommit
  <2>2. CASE q = x
    <3>1. r \notin JudgedWithout(x)
      BY <1>2, <2>2 DEF RenewCommit
    <3>2. rows[x].expires > req[r].txnow
      BY <1>0, <3>1 DEF JudgedWithout, Row
    <3> QED
      BY <1>0, <1>2, <2>2, <3>2 DEF RenewCommit, Row
  <2> QED
    BY <2>1, <2>2
<1>3. ASSUME NEW q \in Requests, Finalize(q) PROVE Goal
  BY <1>0, <1>3 DEF Finalize, NoRow
<1>4. CASE CleanupExpired
  BY <1>0, <1>4 DEF CleanupExpired, Row
<1>5. CASE UNCHANGED rows
  BY <1>5
<1> QED
  BY <1>1, <1>2, <1>3, <1>4, <1>5
  DEF Next, Transaction, vars, Reserve, Extend, ExtendGone, Begin, Locked,
      ReadDailyUsed, JudgeDaily, ReadMonthlyUsed, JudgeMonthly, ReadUsed, Judge,
      PoolTimeout, Deny, Enter, RenewStart, RenewBegin, RenewFails, RecordUsage,
      FinalizeFails, Cancel, Abandon, Crash, SetWorkspaceQuota, ChangePlan, Tick

(* Hence the room that a judgement found is still there after the step.    *)
LEMMA RoomKept ==
  ASSUME LedgerInv, [Next]_vars, NEW r \in Requests, req[r].phase \in Judging,
         ~Commit(r), NEW D, NEW limit \in Nat, NEW n \in Nat, NEW t \in Nat,
         t = req[r].txnow,
         Cardinality(KnownOf(rows, revived, r, D, t)) + n <= limit
  PROVE  Cardinality(KnownOf(rows', revived', r, D, t)) + n <= limit
<1>1. KnownOf(rows', revived', r, D, t) \subseteq KnownOf(rows, revived, r, D, t)
  <2> SUFFICES ASSUME NEW u \in KnownOf(rows', revived', r, D, t)
               PROVE  u \in KnownOf(rows, revived, r, D, t)
    OBVIOUS
  <2>1. PICK x : x = u[1] /\ x \in Requests
    BY DEF KnownOf, UnitsOf, Units
  <2>2. /\ ScopeOf[x] = ScopeOf[r] /\ rows'[x].present /\ rows'[x].expires > req[r].txnow
        /\ <<r, x>> \notin revived'
    BY <2>1 DEF KnownOf, UnitsOf
  <2>3. /\ rows[x].present /\ rows[x].expires > req[r].txnow
        /\ rows'[x].tokens = rows[x].tokens /\ rows'[x].date = rows[x].date
    BY <2>1, <2>2, CountedShrinks
  <2>4. <<r, x>> \notin revived
    BY <2>1, <2>2, RevivedKept
  <2> QED
    BY <2>1, <2>3, <2>4 DEF KnownOf, UnitsOf
<1>2. KnownOf(rows, revived, r, D, t) \subseteq Units
  BY DEF KnownOf, UnitsOf
<1>3. /\ Cardinality(KnownOf(rows, revived, r, D, t)) \in Nat
      /\ Cardinality(KnownOf(rows', revived', r, D, t)) \in Nat
  BY <1>1, <1>2, UnitsFinite
<1>4. Cardinality(KnownOf(rows', revived', r, D, t))
        <= Cardinality(KnownOf(rows, revived, r, D, t))
  BY <1>1, <1>2, UnitsMonotone
<1> QED
  BY <1>3, <1>4

(* A request is past a judgement because it was, or has just made it; its  *)
(* call does not change meanwhile.                                         *)
LEMMA JudgedBefore ==
  ASSUME LedgerInv, [Next]_vars, NEW r \in Requests,
         req'[r].phase \in {"dayOk", "monthUsed", "admitted"}
  PROVE  /\ req[r].phase \in Holding /\ ~Commit(r)
         /\ req'[r].amount = req[r].amount /\ req'[r].date = req[r].date
         /\ req'[r].limits = req[r].limits /\ req'[r].txnow = req[r].txnow
         /\ \/ req[r].phase \in {"dayOk", "monthUsed", "admitted"}
            \/ /\ req[r].phase = "dayUsed" /\ UNCHANGED <<rows, revived>>
               /\ Fits(r, {req[r].date}, req[r].limits.daily)
         /\ req'[r].phase = "admitted" =>
              \/ req[r].phase = "admitted"
              \/ Fits(r, Month(req[r].date), req[r].limits.monthly)
<1> DEFINE Goal == /\ req[r].phase \in Holding /\ ~Commit(r)
                   /\ req'[r].amount = req[r].amount /\ req'[r].date = req[r].date
                   /\ req'[r].limits = req[r].limits /\ req'[r].txnow = req[r].txnow
                   /\ \/ req[r].phase \in {"dayOk", "monthUsed", "admitted"}
                      \/ /\ req[r].phase = "dayUsed" /\ UNCHANGED <<rows, revived>>
                         /\ Fits(r, {req[r].date}, req[r].limits.daily)
                   /\ req'[r].phase = "admitted" =>
                        \/ req[r].phase = "admitted"
                        \/ Fits(r, Month(req[r].date), req[r].limits.monthly)
<1>0. req \in [Requests -> Call]
  BY DEF LedgerInv, TypeOK
<1>a. ~Commit(r)
  BY <1>0 DEF Commit, Outside, Call
<1>b. {"dayOk", "monthUsed", "admitted", "locked", "dayUsed"} = Holding
  BY DEF Holding, Creating
<1> USE <1>0, <1>a, <1>b
<1>1. ASSUME NEW q \in Requests, Reserve(q) \/ Extend(q) \/ Begin(q) PROVE Goal
  BY <1>1, OpenCall
<1>2. ASSUME NEW q \in Requests, ReadDailyUsed(q) \/ ReadMonthlyUsed(q) PROVE Goal
  BY <1>2, UsedRead
<1>3. ASSUME NEW q \in Requests,
             \/ ExtendGone(q) \/ Deny(q) \/ Enter(q) \/ RenewFails(q) \/ RecordUsage(q)
             \/ Finalize(q) \/ FinalizeFails(q) \/ Abandon(q) \/ Locked(q) \/ Cancel(q)
             \/ PoolTimeout(q) \/ Commit(q)
      PROVE Goal
  BY <1>3 DEF ExtendGone, Deny, Enter, RenewFails, RecordUsage, Finalize, FinalizeFails,
              Abandon, Locked, Cancel, PoolTimeout, RolledBack, Commit, Outside, Call
<1>4. ASSUME NEW q \in Requests, JudgeDaily(q) PROVE Goal
  <2>1. CASE q # r
    BY <1>4, <2>1 DEF JudgeDaily, Judge, RolledBack, Outside, Call
  <2>2. CASE q = r
    <3>1. Fits(r, {req[r].date}, req[r].limits.daily) /\ req' = [req EXCEPT ![r].phase = "dayOk"]
      BY <1>4, <2>2 DEF JudgeDaily, Judge, RolledBack, Outside, Call
    <3> QED
      BY <1>4, <2>2, <3>1 DEF JudgeDaily, Judge, Call
  <2> QED
    BY <2>1, <2>2
<1>5. ASSUME NEW q \in Requests, JudgeMonthly(q) PROVE Goal
  BY <1>5 DEF JudgeMonthly, Judge, RolledBack, Outside, Call
<1>6. ASSUME NEW w \in Workers, Crash(w) PROVE Goal
  BY <1>6 DEF Crash, Outside, Call
<1>7. CASE UNCHANGED req
  BY <1>7
<1> QED
  BY <1>1, <1>2, <1>3, <1>4, <1>5, <1>6, <1>7
  DEF Next, Transaction, vars, RenewStart, RenewBegin, RenewCommit, SetWorkspaceQuota,
      ChangePlan, CleanupExpired, Tick

LEMMA FitsRoom ==
  ASSUME TypeOK, NEW q \in Requests, NEW D, NEW limit \in Limit, Fits(q, D, limit)
  PROVE  Room(q, D, limit)
<1>1. /\ Counted(ScopeOf[q], D, req[q].txnow) \subseteq Units
      /\ Known(q, D, req[q].txnow) \subseteq Counted(ScopeOf[q], D, req[q].txnow)
  BY DEF Counted, Known, Units
<1>2. /\ Reserved(ScopeOf[q], D, req[q].txnow) \in Nat
      /\ Cardinality(Known(q, D, req[q].txnow)) \in Nat
      /\ Cardinality(Known(q, D, req[q].txnow)) <= Reserved(ScopeOf[q], D, req[q].txnow)
  BY <1>1, UnitsFinite, UnitsMonotone DEF Reserved
<1>3. req[q].used \in Nat /\ req[q].amount \in Nat
  BY BoundAssumption DEF TypeOK, Call
<1> QED
  BY <1>2, <1>3 DEF Fits, Room, Limit

LEMMA RoomStep ==
  ASSUME LedgerInv, [Next]_vars, NEW r \in Requests,
         req[r].phase \in Judging \/ UNCHANGED <<rows, revived>>,
         ~Commit(r), NEW D, NEW limit \in Limit,
         req'[r].amount = req[r].amount, req'[r].txnow = req[r].txnow,
         Room(r, D, limit)
  PROVE  Room(r, D, limit)'
<1>1. PICK n, t : n = req[r].amount /\ t = req[r].txnow
  OBVIOUS
<1>2. n \in Nat /\ t \in Nat
  BY <1>1, BoundAssumption DEF LedgerInv, TypeOK, Call
<1>3. Known(r, D, req[r].txnow) = KnownOf(rows, revived, r, D, t)
  BY <1>1 DEF Known, KnownOf, Counted, UnitsOf, Units
<1>4. Known(r, D, req[r].txnow)' = KnownOf(rows', revived', r, D, t)
  BY <1>1 DEF Known, KnownOf, Counted, UnitsOf, Units
<1>5. CASE limit = NoLimit
  BY <1>5 DEF Room
<1>6. CASE limit # NoLimit
  <2>1. limit \in Nat
    BY <1>6 DEF Limit
  <2>2. Cardinality(KnownOf(rows, revived, r, D, t)) + n <= limit
    BY <1>1, <1>3, <1>6 DEF Room
  <2>3. Cardinality(KnownOf(rows', revived', r, D, t)) + n <= limit
    BY <1>1, <1>2, <2>1, <2>2, RoomKept
  <2> QED
    BY <1>1, <1>4, <2>3 DEF Room
<1> QED
  BY <1>5, <1>6

LEMMA JudgedStep == LedgerInv /\ [Next]_vars => Judged'
<1> SUFFICES ASSUME LedgerInv, [Next]_vars, NEW r \in Requests PROVE RoomFound(r)'
  BY DEF Judged
<1>1. CASE req'[r].phase \notin Judging
  BY <1>1 DEF RoomFound, Judging
<1>2. CASE req'[r].phase \in Judging
  <2> USE DEF Judging
  <2>1. PICK d, dl, M, ml : /\ d = req[r].date /\ dl = req[r].limits.daily
                            /\ M = Month(req[r].date) /\ ml = req[r].limits.monthly
    OBVIOUS
  <2>2. dl \in Limit /\ ml \in Limit /\ TypeOK /\ RoomFound(r)
    BY <2>1 DEF LedgerInv, TypeOK, Call, Limits, Judged
  <2>3. /\ req'[r].date = d /\ req'[r].limits.daily = dl /\ req'[r].limits.monthly = ml
        /\ Month(req[r].date)' = M
    BY <1>2, <2>1, JudgedBefore DEF Month
  <2>4. Room(r, {d}, dl)
    BY <1>2, <2>1, <2>2, JudgedBefore, FitsRoom DEF RoomFound
  <2>5. Room(r, {d}, dl)'
    BY <1>2, <2>2, <2>4, JudgedBefore, RoomStep
  <2>6. ASSUME req'[r].phase = "admitted" PROVE Room(r, M, ml)'
    <3>1. Room(r, M, ml)
      BY <1>2, <2>1, <2>2, <2>6, JudgedBefore, FitsRoom DEF RoomFound
    <3> QED
      BY <1>2, <2>2, <3>1, JudgedBefore, RoomStep
  <2> QED
    BY <2>3, <2>5, <2>6 DEF RoomFound
<1> QED
  BY <1>1, <1>2

-----------------------------------------------------------------------------
(* Renewals.                                                               *)

LEMMA RenewalStep == LedgerInv /\ [Next]_vars => RenewalShape'
<1> SUFFICES ASSUME LedgerInv, [Next]_vars, NEW r \in Requests PROVE OwnRenewal(r)'
  BY DEF RenewalShape
<1>0. /\ req \in [Requests -> Call] /\ rows \in [Requests -> Row]
      /\ renewal \in [Requests -> Renewal] /\ clock \in Nat /\ TTL \in Nat
      /\ OwnRenewal(r) /\ OwnRow(r)
      /\ rows[r].expires \in Nat /\ renewal[r].expires \in Nat
  BY BoundAssumption DEF LedgerInv, TypeOK, RenewalShape, RowShape, Row, Renewal
<1> USE <1>0 DEF OwnRenewal, InUse, Serving, Creating
<1>1. ASSUME NEW q \in Requests, Reserve(q) \/ Extend(q) \/ Begin(q) PROVE OwnRenewal(r)'
  BY <1>1, OpenCall DEF OwnRow
<1>2. ASSUME NEW q \in Requests, ReadDailyUsed(q) \/ ReadMonthlyUsed(q)
      PROVE OwnRenewal(r)'
  BY <1>2, UsedRead
<1>3. ASSUME NEW q \in Requests,
             \/ ExtendGone(q) \/ Deny(q) \/ Enter(q) \/ RecordUsage(q) \/ Abandon(q)
      PROVE OwnRenewal(r)'
  BY <1>3 DEF ExtendGone, Deny, Enter, RecordUsage, Abandon, Denied, Call
<1>4. ASSUME NEW q \in Requests, Finalize(q) \/ FinalizeFails(q) PROVE OwnRenewal(r)'
  BY <1>4 DEF Finalize, FinalizeFails, StopRenewal, NoRow, NoRenewal, Call
<1>5. ASSUME NEW q \in Requests, Locked(q) PROVE OwnRenewal(r)'
  BY <1>5 DEF Locked, Outside, Call
<1>6. ASSUME NEW q \in Requests, JudgeDaily(q) \/ JudgeMonthly(q) \/ Cancel(q)
                                  \/ PoolTimeout(q)
      PROVE OwnRenewal(r)'
  BY <1>6 DEF JudgeDaily, JudgeMonthly, Judge, Cancel, PoolTimeout, RolledBack, OwnRow,
              Outside, Call
<1>7. ASSUME NEW q \in Requests, Commit(q) PROVE OwnRenewal(r)'
  <2>1. CASE q # r
    BY <1>7, <2>1 DEF Commit
  <2>2. CASE q = r
    <3>1. PICK t \in req[r].txnow..clock : rows' = [rows EXCEPT ![r] = Written(r, t)]
      BY <1>7, <2>2 DEF Commit
    <3>2. t \in Nat /\ t <= clock
      BY <3>1 DEF Call
    <3>3. CASE req[r].op = "create"
      <4>1. rows'[r].expires = t + TTL
        BY <3>1, <3>3 DEF Written
      <4>2. renewal[r].at = "idle" /\ renewal' = renewal /\ clock' = clock
        BY <1>7, <2>2, <3>3 DEF Commit
      <4> QED
        BY <3>2, <4>1, <4>2
    <3>4. CASE req[r].op # "create"
      <4>1. rows'[r].expires = rows[r].expires
        BY <3>1, <3>4 DEF Written, Row
      <4>2. renewal' = renewal /\ clock' = clock
        BY <1>7 DEF Commit
      <4>3. req'[r].phase \in {"stopping", "running"}
        BY <1>7, <2>2, <3>4 DEF Commit, Outside
      <4> QED
        BY <4>1, <4>2, <4>3
    <3> QED
      BY <3>3, <3>4
  <2> QED
    BY <2>1, <2>2
<1>8. ASSUME NEW q \in Requests, RenewStart(q) PROVE OwnRenewal(r)'
  BY <1>8 DEF RenewStart
<1>9. ASSUME NEW q \in Requests, RenewBegin(q) PROVE OwnRenewal(r)'
  BY <1>9 DEF RenewBegin, Renewal
<1>10. ASSUME NEW q \in Requests, RenewCommit(q) PROVE OwnRenewal(r)'
  BY <1>10 DEF RenewCommit, NoRenewal, Row
<1>11. ASSUME NEW q \in Requests, RenewFails(q) PROVE OwnRenewal(r)'
  <2>1. CASE q # r
    BY <1>11, <2>1 DEF RenewFails
  <2>2. CASE q = r
    <3>1. renewal'[r].at = "ended" /\ rows' = rows /\ clock' = clock
      BY <1>11, <2>2 DEF RenewFails, NoRenewal
    <3>2. req'[r] = req[r] \/ req'[r].phase = "stopping"
      BY <1>11, <2>2 DEF RenewFails, Outside
    <3>3. InUse(r)
      BY <1>11, <2>2 DEF RenewFails
    <3> QED
      BY <3>1, <3>2, <3>3
  <2> QED
    BY <2>1, <2>2
<1>12. ASSUME NEW w \in Workers, Crash(w) PROVE OwnRenewal(r)'
  <2>1. \/ req'[r] = req[r] /\ renewal'[r] = renewal[r]
        \/ renewal'[r] = NoRenewal
    BY <1>12 DEF Crash
  <2>2. rows' = rows /\ clock' = clock
    BY <1>12 DEF Crash
  <2> QED
    BY <2>1, <2>2 DEF NoRenewal
<1>13. CASE CleanupExpired
  BY <1>13 DEF CleanupExpired, Row
<1>14. CASE \/ \E s \in Scopes : SetWorkspaceQuota(s) \/ ChangePlan(s)
            \/ Tick \/ UNCHANGED vars
  BY <1>14 DEF SetWorkspaceQuota, ChangePlan, Tick, vars
<1> QED
  BY <1>1, <1>2, <1>3, <1>4, <1>5, <1>6, <1>7, <1>8, <1>9, <1>10, <1>11, <1>12, <1>13,
     <1>14 DEF Next, Transaction

-----------------------------------------------------------------------------
(* The theorems.                                                           *)

(* The inductive invariant holds in every behaviour: transactions of one   *)
(* scope exclude each other and the room a judgement found is there when   *)
(* it commits.                                                             *)
THEOREM LedgerInvariant == Spec => []LedgerInv
<1>1. LedgerInv /\ [Next]_vars => LedgerInv'
  BY TypeStep, LockStep, SnapshotStep, JudgedStep, RowStep, RenewalStep DEF LedgerInv
<1> QED
  BY <1>1, InitInv, PTL DEF Spec

(* Every behaviour of the ledger is well typed.                            *)
THEOREM TypeCorrect == Spec => []TypeOK
<1>1. LedgerInv => TypeOK
  BY DEF LedgerInv
<1> QED
  BY <1>1, LedgerInvariant, PTL

(* The units that a commit adds are the amount that was judged.            *)
LEMMA CommitUnits ==
  ASSUME LedgerInv, NEW q \in Requests, Commit(q), NEW D, NEW t \in Nat, NEW c \in Nat,
         t <= c
  PROVE  \E a \in Nat : UnitsOf(rows', ScopeOf[q], D, c)
           \subseteq UnitsOf(rows, ScopeOf[q], D, t)
                       \cup ({q} \X ((a + 1)..(a + req[q].amount)))
<1>0. /\ req \in [Requests -> Call] /\ rows \in [Requests -> Row] /\ OwnRow(q)
  BY DEF LedgerInv, TypeOK, RowShape
<1>1. PICK a, n : /\ a = (IF req[q].op = "create" THEN 0 ELSE rows[q].tokens)
                  /\ n = req[q].amount
  OBVIOUS
<1>2. a \in Nat /\ n \in Nat
  BY <1>0, <1>1, BoundAssumption DEF Call, Row
<1>3. PICK w \in req[q].txnow..clock : rows' = [rows EXCEPT ![q] = Written(q, w)]
  BY DEF Commit
<1>4. Written(q, w).tokens = a + n
  BY <1>0, <1>1, <1>2 DEF Written, Row, Call
<1>5. req[q].op # "create" =>
        /\ rows[q].present /\ Written(q, w).date = rows[q].date
        /\ Written(q, w).expires = rows[q].expires
  BY <1>0 DEF Written, Row, Outside, Call, OwnRow, RowLocked, Holding, Creating, Commit
<1>6. ASSUME NEW u \in UnitsOf(rows', ScopeOf[q], D, c)
      PROVE  u \in UnitsOf(rows, ScopeOf[q], D, t) \cup ({q} \X ((a + 1)..(a + n)))
  <2>1. u \in Units /\ u[1] \in Requests /\ u[2] \in 1..MaxTokens /\ u = <<u[1], u[2]>>
    BY DEF UnitsOf, Units
  <2>2. CASE u[1] # q
    <3>1. rows'[u[1]] = rows[u[1]] /\ rows[u[1]].expires \in Nat
      BY <1>0, <1>3, <2>1, <2>2 DEF Row
    <3> QED
      BY <2>1, <3>1 DEF UnitsOf
  <2>3. CASE u[1] = q /\ u[2] <= a
    <3>1. req[q].op # "create" /\ a = rows[q].tokens
      BY <1>1, <2>1, <2>3, BoundAssumption
    <3>2. rows'[q] = Written(q, w) /\ rows[q].expires \in Nat
      BY <1>0, <1>3 DEF Row
    <3> QED
      BY <1>5, <2>1, <2>3, <3>1, <3>2 DEF UnitsOf
  <2>4. CASE u[1] = q /\ ~(u[2] <= a)
    <3>1. u[2] <= a + n
      BY <1>0, <1>3, <1>4, <2>4 DEF UnitsOf
    <3>2. u[2] \in (a + 1)..(a + n)
      BY <1>2, <2>1, <2>4, <3>1, BoundAssumption
    <3> QED
      BY <2>1, <2>4, <3>2
  <2> QED
    BY <2>2, <2>3, <2>4
<1> QED
  BY <1>1, <1>2, <1>6

(* The effect of a commit on a sum: it grows by the amount that was judged.*)
LEMMA CommitGrows ==
  ASSUME LedgerInv, NEW q \in Requests, Commit(q), NEW D, NEW t \in Nat, NEW c \in Nat,
         t <= c
  PROVE  Cardinality(KnownOf(rows', revived', q, D, c))
           <= Cardinality(KnownOf(rows, revived, q, D, t)) + req[q].amount
<1>1. PICK a \in Nat : UnitsOf(rows', ScopeOf[q], D, c)
        \subseteq UnitsOf(rows, ScopeOf[q], D, t) \cup ({q} \X ((a + 1)..(a + req[q].amount)))
  BY CommitUnits
<1>2. revived' = revived
  BY DEF Commit
<1>3. KnownOf(rows', revived', q, D, c)
        \subseteq KnownOf(rows, revived, q, D, t)
                    \cup ({q} \X ((a + 1)..(a + req[q].amount)))
  BY <1>1, <1>2 DEF KnownOf
<1>4. /\ KnownOf(rows', revived', q, D, c) \subseteq Units
      /\ KnownOf(rows, revived, q, D, t) \subseteq Units
  BY DEF KnownOf, UnitsOf
<1>5. req[q].amount \in Nat
  BY BoundAssumption DEF LedgerInv, TypeOK, Call
<1> QED
  BY <1>3, <1>4, <1>5, UnitsGrow

(* Only a commit inserts a row or changes its tokens.                      *)
LEMMA OnlyCommitsAdd ==
  ASSUME LedgerInv, [Next]_vars, NEW q \in Requests, rows'[q].present,
         ~rows[q].present \/ rows'[q].tokens # rows[q].tokens
  PROVE  Commit(q)
<1>0. rows \in [Requests -> Row]
  BY DEF LedgerInv, TypeOK
<1>1. ASSUME NEW p \in Requests, Commit(p) PROVE Commit(q)
  BY <1>0, <1>1 DEF Commit
<1>2. ASSUME NEW p \in Requests, RenewCommit(p) \/ Finalize(p) PROVE Commit(q)
  BY <1>0, <1>2 DEF RenewCommit, Finalize, NoRow, Row
<1>3. CASE CleanupExpired
  BY <1>0, <1>3 DEF CleanupExpired, Row
<1> QED
  BY <1>1, <1>2, <1>3
  DEF Next, Transaction, vars, Reserve, Extend, ExtendGone, Begin, Locked,
      ReadDailyUsed, JudgeDaily, ReadMonthlyUsed, JudgeMonthly, ReadUsed, Judge,
      PoolTimeout, Deny, Enter, RenewStart, RenewBegin, RenewFails, RecordUsage,
      FinalizeFails, Cancel, Abandon, Crash, SetWorkspaceQuota, ChangePlan, Tick

LEMMA AdmissionStep ==
  ASSUME LedgerInv, NEW q \in Requests, Commit(q), NEW D, NEW limit \in Limit,
         Room(q, D, limit)
  PROVE  Within(Cardinality(KnownOf(rows', revived', q, D, clock)), limit)
<1>1. PICK t, c : t = req[q].txnow /\ c = clock
  OBVIOUS
<1>2. /\ t \in Nat /\ c \in Nat /\ t <= c /\ req[q].amount \in Nat
  BY <1>1, BoundAssumption
  DEF LedgerInv, TypeOK, SnapshotPast, Commit, Creating, Outside, Call
<1>3. Cardinality(KnownOf(rows', revived', q, D, c))
        <= Cardinality(KnownOf(rows, revived, q, D, t)) + req[q].amount
  BY <1>2, CommitGrows
<1>4. KnownOf(rows, revived, q, D, t) = Known(q, D, req[q].txnow)
  BY <1>1 DEF Known, KnownOf, Counted, UnitsOf, Units
<1>5. /\ Cardinality(KnownOf(rows', revived', q, D, c)) \in Nat
      /\ Cardinality(KnownOf(rows, revived, q, D, t)) \in Nat
  BY UnitsFinite DEF KnownOf, UnitsOf
<1>6. CASE limit = NoLimit
  BY <1>6 DEF Within
<1>7. CASE limit # NoLimit
  <2>1. limit \in Nat
    BY <1>7 DEF Limit
  <2>2. Cardinality(KnownOf(rows, revived, q, D, t)) + req[q].amount <= limit
    BY <1>4, <1>7 DEF Room
  <2>3. Cardinality(KnownOf(rows', revived', q, D, c)) <= limit
    BY <1>2, <1>3, <1>5, <2>1, <2>2
  <2> QED
    BY <1>1, <2>3 DEF Within
<1> QED
  BY <1>6, <1>7

LEMMA AdmissionCommit ==
  ASSUME LedgerInv, NEW q \in Requests, Commit(q)
  PROVE  /\ Within(Cardinality(Known(q, {rows[q].date}, clock))', req[q].limits.daily)
         /\ Within(Cardinality(Known(q, Month(rows[q].date), clock))',
                   req[q].limits.monthly)
<1>1. PICK d, M, dl, ml : /\ d = req[q].date /\ M = Month(req[q].date)
                          /\ dl = req[q].limits.daily /\ ml = req[q].limits.monthly
  OBVIOUS
<1>2. dl \in Limit /\ ml \in Limit
  BY <1>1 DEF LedgerInv, TypeOK, Call, Limits
<1>3. Room(q, {d}, dl) /\ Room(q, M, ml)
  BY <1>1 DEF LedgerInv, Judged, RoomFound, Judging, Commit
<1>4. rows'[q].date = d /\ clock' = clock /\ Month(rows[q].date)' = M
  <2>1. PICK w \in req[q].txnow..clock : rows' = [rows EXCEPT ![q] = Written(q, w)]
    BY DEF Commit
  <2>a. /\ rows \in [Requests -> Row] /\ req \in [Requests -> Call] /\ OwnRow(q)
        /\ req[q].phase \in Creating
    BY DEF LedgerInv, TypeOK, RowShape, Commit, Creating
  <2>2. rows'[q] = Written(q, w) /\ Written(q, w).date = d
    BY <1>1, <2>1, <2>a DEF OwnRow, Written, Row, Call
  <2> QED
    BY <1>1, <2>2 DEF Commit, Month
<1>5. /\ Known(q, {rows[q].date}, clock)' = KnownOf(rows', revived', q, {d}, clock)
      /\ Known(q, Month(rows[q].date), clock)' = KnownOf(rows', revived', q, M, clock)
  BY <1>4 DEF Known, KnownOf, Counted, UnitsOf, Units
<1> QED
  BY <1>1, <1>2, <1>3, <1>5, AdmissionStep

(* No reserve and no extend that the ledger admits lifts the unexpired     *)
(* reservations of its scope over the limits it was judged by, for any     *)
(* number of concurrent requests, workers, crashes and renewals, except by *)
(* leases that had expired for it and whose renewal, in flight since       *)
(* before, was written after it had judged.                                *)
THEOREM Admission == Spec => AdmissionWithinLimits
<1>1. LedgerInv /\ [Next]_vars =>
        [\A q \in Requests :
           (rows'[q].present /\ (~rows[q].present \/ rows'[q].tokens # rows[q].tokens))
             => /\ Within(Cardinality(Known(q, {rows[q].date}, clock))',
                          req[q].limits.daily)
                /\ Within(Cardinality(Known(q, Month(rows[q].date), clock))',
                          req[q].limits.monthly)]_vars
  BY OnlyCommitsAdd, AdmissionCommit
<1> QED
  BY <1>1, LedgerInvariant, PTL DEF Spec, AdmissionWithinLimits

(* The expiry of a row that stays is changed by its renewal alone.         *)
LEMMA ExpiryWritten ==
  ASSUME LedgerInv, [Next]_vars, NEW q \in Requests, rows[q].present, rows'[q].present
  PROVE  rows'[q].expires = rows[q].expires \/ RenewCommit(q)
<1>0. /\ rows \in [Requests -> Row] /\ req \in [Requests -> Call] /\ OwnRow(q)
  BY DEF LedgerInv, TypeOK, RowShape
<1>1. ASSUME NEW p \in Requests, Commit(p) PROVE rows'[q].expires = rows[q].expires
  <2>1. PICK w \in req[p].txnow..clock : rows' = [rows EXCEPT ![p] = Written(p, w)]
    BY <1>1 DEF Commit
  <2>2. p = q => req[q].op # "create"
    BY <1>0, <1>1 DEF OwnRow, Commit, Creating
  <2>3. p = q => rows'[q] = [rows[q] EXCEPT !.tokens = @ + req[q].amount]
    BY <1>0, <2>1, <2>2 DEF Written
  <2> QED
    BY <1>0, <2>1, <2>3 DEF Row
<1>2. ASSUME NEW p \in Requests, RenewCommit(p)
      PROVE  rows'[q].expires = rows[q].expires \/ RenewCommit(q)
  BY <1>0, <1>2 DEF RenewCommit
<1>3. ASSUME NEW p \in Requests, Finalize(p) PROVE rows'[q].expires = rows[q].expires
  BY <1>0, <1>3 DEF Finalize, NoRow
<1>4. CASE CleanupExpired
  BY <1>0, <1>4 DEF CleanupExpired, Row
<1> QED
  BY <1>1, <1>2, <1>3, <1>4
  DEF Next, Transaction, vars, Reserve, Extend, ExtendGone, Begin, Locked,
      ReadDailyUsed, JudgeDaily, ReadMonthlyUsed, JudgeMonthly, ReadUsed, Judge,
      PoolTimeout, Deny, Enter, RenewStart, RenewBegin, RenewFails, RecordUsage,
      FinalizeFails, Cancel, Abandon, Crash, SetWorkspaceQuota, ChangePlan, Tick

(* A reservation that has expired is counted again only by a renewal that  *)
(* was in the database before it expired, of a lifecycle still in use.     *)
THEOREM RevivalsBeganInTime == Spec => ExpiredStaysExpired
<1>1. ASSUME LedgerInv, [Next]_vars, NEW q \in Requests,
             rows[q].present, rows[q].expires <= clock,
             rows'[q].present, rows'[q].expires > clock'
      PROVE  /\ InUse(q) /\ renewal[q].at = "begun"
             /\ renewal[q].txnow < rows[q].expires
  <2>0. /\ rows[q].expires \in Nat /\ clock \in Nat /\ renewal[q].txnow \in Nat
        /\ OwnRenewal(q)
    BY <1>1, BoundAssumption DEF LedgerInv, TypeOK, Row, Renewal, RenewalShape
  <2>1. UNCHANGED clock \/ Tick
    BY <1>1
    DEF Next, Transaction, vars, Reserve, Extend, ExtendGone, Begin, Locked,
        ReadDailyUsed, JudgeDaily, ReadMonthlyUsed, JudgeMonthly, ReadUsed, Judge,
        PoolTimeout, Deny, Enter, Commit, RenewStart, RenewBegin, RenewCommit,
        RenewFails, RecordUsage, Finalize, FinalizeFails, Cancel, Abandon, Crash,
        CleanupExpired, SetWorkspaceQuota, ChangePlan
  <2>2. RenewCommit(q)
    BY <1>1, <2>0, <2>1, ExpiryWritten DEF Tick
  <2> QED
    BY <2>0, <2>2 DEF RenewCommit, OwnRenewal
<1>2. LedgerInv /\ [Next]_vars =>
        [\A q \in Requests :
           (rows[q].present /\ rows[q].expires <= clock
              /\ rows'[q].present /\ rows'[q].expires > clock')
             => /\ InUse(q) /\ renewal[q].at = "begun"
                /\ renewal[q].txnow < rows[q].expires]_vars
  BY <1>1
<1> QED
  BY <1>2, LedgerInvariant, PTL DEF Spec, ExpiredStaysExpired

(* However late a renewal is written, the lease does not get shorter.      *)
THEOREM RenewalsOnlyLengthen == Spec => NeverShortened
<1>1. ASSUME LedgerInv, [Next]_vars, NEW q \in Requests, rows[q].present, rows'[q].present
      PROVE  rows[q].expires <= rows'[q].expires
  <2>0. /\ rows \in [Requests -> Row] /\ rows[q].expires \in Nat /\ OwnRenewal(q)
    BY <1>1 DEF LedgerInv, TypeOK, Row, RenewalShape
  <2>1. CASE rows'[q].expires = rows[q].expires
    BY <2>0, <2>1
  <2>2. CASE RenewCommit(q)
    BY <2>0, <2>2 DEF RenewCommit, OwnRenewal, Row
  <2> QED
    BY <1>1, <2>1, <2>2, ExpiryWritten
<1>2. LedgerInv /\ [Next]_vars =>
        [\A q \in Requests :
           rows[q].present /\ rows'[q].present
             => rows[q].expires <= rows'[q].expires]_vars
  BY <1>1
<1> QED
  BY <1>2, LedgerInvariant, PTL DEF Spec, NeverShortened

(* A live worker leaves a reservation behind only when its caller was      *)
(* cancelled before the lifecycle began or the DELETE failed.              *)
THEOREM NoLeak == Spec => []NoLeakedReservation
<1>1. Init => NoLeakedReservation
  BY DEF Init, NoLeakedReservation, NoRow
<1>2. ASSUME LedgerInv, NoLeakedReservation, [Next]_vars, NEW r \in Requests,
             rows'[r].present
      PROVE  req'[r].phase \in {"reserved", "abandoned", "crashed"} \/ InUse(r)'
  <2> DEFINE Kept == req'[r].phase \in {"reserved", "abandoned", "crashed"} \/ InUse(r)'
  <2>0. /\ rows \in [Requests -> Row] /\ req \in [Requests -> Call] /\ OwnRow(r)
        /\ rows[r].present =>
             req[r].phase \in {"reserved", "abandoned", "crashed"} \/ InUse(r)
    BY <1>2 DEF LedgerInv, TypeOK, RowShape, NoLeakedReservation
  <2> USE <2>0 DEF InUse, OwnRow, Serving, Creating
  <2>1. ASSUME NEW q \in Requests, Reserve(q) \/ Extend(q) \/ Begin(q) PROVE Kept
    BY <1>2, <2>1, OpenCall
  <2>2. ASSUME NEW q \in Requests, ReadDailyUsed(q) \/ ReadMonthlyUsed(q) PROVE Kept
    BY <1>2, <2>2, UsedRead
  <2>3. ASSUME NEW q \in Requests,
               \/ ExtendGone(q) \/ Deny(q) \/ Enter(q) \/ RenewFails(q) \/ RecordUsage(q)
               \/ FinalizeFails(q) \/ Abandon(q)
        PROVE  Kept
    BY <1>2, <2>3 DEF ExtendGone, Deny, Enter, RenewFails, RecordUsage, FinalizeFails,
                      Abandon, Denied, Outside, Call
  <2>a. ASSUME NEW q \in Requests, Locked(q) PROVE Kept
    BY <1>2, <2>a DEF Locked, Outside, Call
  <2>4. ASSUME NEW q \in Requests, JudgeDaily(q) \/ JudgeMonthly(q) \/ Cancel(q)
                                    \/ PoolTimeout(q)
        PROVE  Kept
    BY <1>2, <2>4
    DEF JudgeDaily, JudgeMonthly, Judge, Cancel, PoolTimeout, RolledBack, Outside, Call
  <2>5. ASSUME NEW q \in Requests, Commit(q) PROVE Kept
    BY <1>2, <2>5 DEF Commit, Outside, Call
  <2>6. ASSUME NEW q \in Requests, Finalize(q) PROVE Kept
    BY <1>2, <2>6 DEF Finalize, NoRow, Row, Call
  <2>7. ASSUME NEW q \in Requests, RenewStart(q) \/ RenewBegin(q) \/ RenewCommit(q)
        PROVE  Kept
    BY <1>2, <2>7 DEF RenewStart, RenewBegin, RenewCommit, Row
  <2>8. ASSUME NEW w \in Workers, Crash(w) PROVE Kept
    BY <1>2, <2>8 DEF Crash, Ended, Outside, Call
  <2>9. CASE CleanupExpired
    BY <1>2, <2>9 DEF CleanupExpired, Row
  <2>10. CASE \/ \E s \in Scopes : SetWorkspaceQuota(s) \/ ChangePlan(s)
              \/ Tick \/ UNCHANGED vars
    BY <1>2, <2>10 DEF SetWorkspaceQuota, ChangePlan, Tick, vars
  <2> QED
    BY <1>2, <2>a, <2>1, <2>2, <2>3, <2>4, <2>5, <2>6, <2>7, <2>8, <2>9, <2>10
    DEF Next, Transaction
<1>3. LedgerInv /\ NoLeakedReservation /\ [Next]_vars => NoLeakedReservation'
  BY <1>2 DEF NoLeakedReservation
<1> QED
  BY <1>1, <1>3, LedgerInvariant, PTL DEF Spec

(* Together: what is admitted fits, what expired comes back only by a      *)
(* renewal under way before, and no renewal shortens a lease.              *)
THEOREM LeasesAreKept == Spec => LeasesHold
BY Admission, RevivalsBeganInTime, RenewalsOnlyLengthen DEF LeasesHold

-----------------------------------------------------------------------------
(* Oversubscription.  A reserve reads the usage first and counts the       *)
(* reservations later: what is settled in between it sees in neither.      *)
(* That is at most what was reserved when it read the usage, and this is   *)
(* at most one limit.                                                      *)

(* One day in which no reservation expires (MaxClock < TTL), nothing is    *)
(* used beyond what was reserved, and no plan and no override lifts the    *)
(* limit of the settings.                                                  *)
SteadyDay ==
  /\ Settings.daily # NoLimit
  /\ MaxClock < TTL /\ MaxDay = 0 /\ MaxOveruse = 0
  /\ \A l \in Plans \cup Overrides : l.daily = NoLimit \/ l.daily <= Settings.daily

(* The units that are reserved, and the ones that are used.                *)
Live(s) == UnitsOf(rows, s, {0}, MaxClock)
Spent(s) == {u \in Units : ScopeOf[u[1]] = s /\ u[2] <= usage[u[1]].tokens}
Taken(s) == Live(s) \cup Spent(s)

(* Reservations last and are there as long as they are used.               *)
RowsLast ==
  \A q \in Requests :
    /\ rows[q].present => rows[q].expires > MaxClock
    /\ req[q].phase = "reserved" \/ InUse(q) => rows[q].present

(* Nothing expires, so nothing is revived.                                 *)
NothingRevived == revived = {}

(* Every limit that is in force is at most the one of the settings.        *)
Tight(limit) == limit = NoLimit \/ limit <= Settings.daily
LimitsTight ==
  /\ \A s \in Scopes : Tight(plan[s].daily) /\ Tight(override[s].daily)
  /\ \A q \in Requests : req[q].phase \in Creating \cup {"ready"} =>
       req[q].limits.daily # NoLimit /\ req[q].limits.daily <= Settings.daily

LiveBounded == \A s \in Scopes : Cardinality(Live(s)) <= Settings.daily
TakenBounded == \A s \in Scopes : Cardinality(Taken(s)) <= 2 * Settings.daily

(* What has been missed since the usage was read, and what is left of it   *)
(* once the reservations were counted.                                     *)
Missed(q) ==
  /\ req[q].phase = "dayUsed" =>
       Cardinality(Taken(ScopeOf[q])) <= req[q].used + Settings.daily
  /\ req[q].phase \in {"dayOk", "monthUsed", "admitted"} =>
       Cardinality(Taken(ScopeOf[q])) + req[q].amount <= 2 * Settings.daily

SteadyInv ==
  /\ RowsLast /\ NothingRevived /\ LimitsTight /\ LiveBounded /\ TakenBounded
  /\ \A q \in Requests : Missed(q)

(* Reservations last.                                                      *)
LEMMA RowsLastStep ==
  ASSUME SteadyDay, LedgerInv, RowsLast, [Next]_vars
  PROVE  RowsLast'
<1> SUFFICES ASSUME NEW r \in Requests
             PROVE  /\ rows'[r].present => rows'[r].expires > MaxClock
                    /\ req'[r].phase = "reserved" \/ InUse(r)' => rows'[r].present
  BY DEF RowsLast
<1> DEFINE Goal == /\ rows'[r].present => rows'[r].expires > MaxClock
                   /\ req'[r].phase = "reserved" \/ InUse(r)' => rows'[r].present
<1>0. /\ req \in [Requests -> Call] /\ rows \in [Requests -> Row] /\ OwnRow(r)
      /\ clock \in Nat /\ clock <= MaxClock /\ MaxClock \in Nat /\ TTL \in Nat
      /\ MaxClock < TTL
  BY BoundAssumption DEF LedgerInv, TypeOK, RowShape, SteadyDay
<1>a. /\ rows[r].present => rows[r].expires > MaxClock
      /\ req[r].phase = "reserved" \/ InUse(r) => rows[r].present
  BY DEF RowsLast
<1>b. /\ rows[r].expires \in Nat /\ renewal[r].expires \in Nat
      /\ renewal[r].at = "begun" => rows[r].expires <= renewal[r].expires
  BY <1>0 DEF LedgerInv, TypeOK, RenewalShape, OwnRenewal, Row, Renewal
<1> USE <1>0, <1>a, <1>b DEF InUse, OwnRow, Serving, Creating
<1>1. ASSUME NEW q \in Requests, Reserve(q) \/ Extend(q) \/ Begin(q) PROVE Goal
  BY <1>1, OpenCall DEF Extend
<1>2. ASSUME NEW q \in Requests, ReadDailyUsed(q) \/ ReadMonthlyUsed(q) PROVE Goal
  BY <1>2, UsedRead
<1>3. ASSUME NEW q \in Requests,
             \/ ExtendGone(q) \/ Deny(q) \/ Enter(q) \/ RecordUsage(q)
             \/ FinalizeFails(q) \/ Abandon(q)
      PROVE Goal
  BY <1>3 DEF ExtendGone, Deny, Enter, RecordUsage, FinalizeFails, Abandon, Call
<1>c. ASSUME NEW q \in Requests, RenewFails(q) PROVE Goal
  <2>1. rows' = rows
    BY <1>c DEF RenewFails
  <2>2. \/ req'[r] = req[r]
        \/ r = q /\ req'[r].phase = "stopping"
    BY <1>c DEF RenewFails, Outside
  <2>3. r = q => InUse(r)
    BY <1>c DEF LedgerInv, RenewalShape, OwnRenewal, RenewFails
  <2> QED
    BY <2>1, <2>2, <2>3
<1>4. ASSUME NEW q \in Requests, Locked(q) PROVE Goal
  BY <1>4 DEF Locked, Outside, Call
<1>5. ASSUME NEW q \in Requests, JudgeDaily(q) \/ JudgeMonthly(q) \/ Cancel(q) \/ PoolTimeout(q)
      PROVE Goal
  BY <1>5
  DEF JudgeDaily, JudgeMonthly, Judge, Cancel, PoolTimeout, RolledBack, Outside, Call
<1>6. ASSUME NEW q \in Requests, Commit(q) PROVE Goal
  <2>1. CASE q = r
    <3>1. PICK t \in req[r].txnow..clock :
            rows'[r] = Written(r, t) /\ req[r].phase = "admitted"
      BY <1>6, <2>1 DEF Commit
    <3>a. t \in Nat /\ t + TTL > MaxClock
      BY <3>1 DEF Call
    <3>2. CASE req[r].op = "create"
      BY <3>1, <3>a, <3>2 DEF Written
    <3>3. CASE req[r].op # "create"
      <4>1. rows[r].present /\ req[r].op = "extend"
        BY <3>1, <3>3 DEF Call
      <4>2. Written(r, t).present = rows[r].present /\ Written(r, t).expires = rows[r].expires
        BY <3>3 DEF Written, Row
      <4> QED BY <3>1, <4>1, <4>2
    <3> QED BY <3>2, <3>3
  <2>2. CASE q # r
    BY <1>6, <2>2 DEF Commit
  <2> QED BY <2>1, <2>2
<1>7. ASSUME NEW q \in Requests, Finalize(q) PROVE Goal
  BY <1>7 DEF Finalize, NoRow, Row, Call
<1>8. ASSUME NEW q \in Requests, RenewStart(q) \/ RenewBegin(q) \/ RenewCommit(q) PROVE Goal
  BY <1>8 DEF RenewStart, RenewBegin, RenewCommit, Row
<1>9. ASSUME NEW w \in Workers, Crash(w) PROVE Goal
  BY <1>9 DEF Crash, Outside, Call
<1>10. CASE CleanupExpired
  BY <1>10 DEF CleanupExpired, Row
<1>11. CASE \/ \E s \in Scopes : SetWorkspaceQuota(s) \/ ChangePlan(s)
            \/ Tick \/ UNCHANGED vars
  BY <1>11 DEF SetWorkspaceQuota, ChangePlan, Tick, vars
<1> QED
  BY <1>1, <1>2, <1>3, <1>4, <1>5, <1>6, <1>7, <1>8, <1>9, <1>10, <1>11, <1>c
  DEF Next, Transaction

(* No row expires for anybody who judges, so no renewal is late.           *)
LEMMA NothingRevivedStep ==
  ASSUME SteadyDay, LedgerInv, RowsLast, NothingRevived, [Next]_vars
  PROVE  NothingRevived'
<1> USE DEF NothingRevived
<1>1. ASSUME NEW q \in Requests, RenewCommit(q) PROVE revived' = {}
  <2>1. rows[q].expires > MaxClock /\ rows[q].expires \in Nat
    BY <1>1 DEF RenewCommit, RowsLast, LedgerInv, TypeOK, Row
  <2>2. ASSUME NEW r \in JudgedWithout(q) PROVE FALSE
    <3>1. /\ r \in Requests /\ req[r].phase \in Creating /\ rows[q].expires <= req[r].txnow
          /\ req[r].txnow \in Nat
      BY DEF JudgedWithout, Judging, Creating, LedgerInv, TypeOK, Call
    <3>2. req[r].txnow <= clock /\ clock \in Nat /\ clock <= MaxClock /\ MaxClock \in Nat
      BY <3>1, BoundAssumption DEF LedgerInv, SnapshotPast, TypeOK
    <3> QED BY <2>1, <3>1, <3>2
  <2> QED BY <1>1, <2>2 DEF RenewCommit
<1>2. ASSUME NEW q \in Requests, Begin(q) \/ Extend(q) PROVE revived' = {}
  BY <1>2 DEF Begin, Extend, Forget
<1>3. CASE UNCHANGED revived
  BY <1>3
<1> QED
  BY <1>1, <1>2, <1>3
  DEF Next, Transaction, vars, Reserve, ExtendGone, Locked, ReadDailyUsed, JudgeDaily,
      ReadMonthlyUsed, JudgeMonthly, ReadUsed, Judge, PoolTimeout, Commit, Deny, Enter,
      RenewStart, RenewBegin, RenewFails, RecordUsage, Finalize, FinalizeFails, Cancel,
      Abandon, Crash, SetWorkspaceQuota, ChangePlan, CleanupExpired, Tick

(* No limit above the one of the settings comes into force.                *)
LEMMA LimitsTightStep ==
  ASSUME SteadyDay, LedgerInv, LimitsTight, [Next]_vars
  PROVE  LimitsTight'
<1>0. /\ req \in [Requests -> Call] /\ plan \in [Scopes -> Limits]
      /\ override \in [Scopes -> Limits] /\ Settings.daily \in Nat /\ NoLimit \notin Nat
  BY LimitAssumption DEF LedgerInv, TypeOK, SteadyDay, Limits, Limit
<1>1. ASSUME NEW s \in Scopes PROVE (Tight(plan[s].daily) /\ Tight(override[s].daily))'
  <2>1. Tight(plan[s].daily) /\ Tight(override[s].daily)
    BY DEF LimitsTight
  <2>2. plan'[s] = plan[s] \/ plan'[s] \in Plans
    BY <1>0 DEF Next, Transaction, vars, Reserve, Extend, ExtendGone, Begin, Locked,
       ReadDailyUsed, JudgeDaily, ReadMonthlyUsed, JudgeMonthly, ReadUsed, Judge,
       PoolTimeout, Deny, Enter, Commit, RenewStart, RenewBegin, RenewCommit,
       RenewFails, RecordUsage, Finalize, FinalizeFails, Cancel, Abandon, Crash,
       CleanupExpired, SetWorkspaceQuota, ChangePlan, Tick
  <2>3. override'[s] = override[s] \/ override'[s] \in Overrides
    BY <1>0 DEF Next, Transaction, vars, Reserve, Extend, ExtendGone, Begin, Locked,
       ReadDailyUsed, JudgeDaily, ReadMonthlyUsed, JudgeMonthly, ReadUsed, Judge,
       PoolTimeout, Deny, Enter, Commit, RenewStart, RenewBegin, RenewCommit,
       RenewFails, RecordUsage, Finalize, FinalizeFails, Cancel, Abandon, Crash,
       CleanupExpired, SetWorkspaceQuota, ChangePlan, Tick
  <2> QED BY <2>1, <2>2, <2>3 DEF Tight, SteadyDay
<1>2. ASSUME NEW r \in Requests, req'[r].phase \in Creating \cup {"ready"}
      PROVE  req'[r].limits.daily # NoLimit /\ req'[r].limits.daily <= Settings.daily
  <2> DEFINE Goal == req'[r].limits.daily # NoLimit /\ req'[r].limits.daily <= Settings.daily
  <2>1. req[r].phase \in Creating \cup {"ready"} =>
          req[r].limits.daily # NoLimit /\ req[r].limits.daily <= Settings.daily
    BY DEF LimitsTight
  <2>2. Effective(ScopeOf[r]).daily # NoLimit /\ Effective(ScopeOf[r]).daily <= Settings.daily
    <3>1. ScopeOf[r] \in Scopes
      BY ScopeAssumption
    <3>2. Tight(plan[ScopeOf[r]].daily) /\ Tight(override[ScopeOf[r]].daily)
      BY <3>1 DEF LimitsTight
    <3>3. Effective(ScopeOf[r]).daily =
            FirstSet(override[ScopeOf[r]].daily, FirstSet(plan[ScopeOf[r]].daily, Settings.daily))
      BY DEF Effective
    <3> QED BY <1>0, <3>2, <3>3 DEF FirstSet, Tight
  <2> USE <1>0, <1>2, <2>1 DEF Creating
  <2>3. ASSUME NEW q \in Requests, Reserve(q) PROVE Goal
    <3>1. PICK amount \in Amounts :
            req' = [req EXCEPT ![q] = [@ EXCEPT !.phase = "ready", !.op = "create",
                                                !.amount = amount, !.date = today,
                                                !.limits = Effective(ScopeOf[q])]]
      BY <2>3 DEF Reserve
    <3> QED BY <2>2, <3>1 DEF Call
  <2>4. ASSUME NEW q \in Requests, Extend(q) PROVE Goal
    <3>1. PICK amount \in Amounts :
            req' = [req EXCEPT ![q] = [@ EXCEPT !.phase = "waiting", !.op = "extend",
                                                !.amount = amount, !.txnow = clock,
                                                !.date = rows[q].date,
                                                !.limits = Effective(ScopeOf[q])]]
      BY <2>4 DEF Extend
    <3> QED BY <2>2, <3>1 DEF Call
  <2>5. ASSUME NEW q \in Requests, Begin(q) PROVE Goal
    BY <2>5 DEF Begin, Call
  <2>6. ASSUME NEW q \in Requests, ReadDailyUsed(q) \/ ReadMonthlyUsed(q) PROVE Goal
    BY <2>6, UsedRead
  <2>7. ASSUME NEW q \in Requests,
               \/ ExtendGone(q) \/ Deny(q) \/ Enter(q) \/ RenewFails(q) \/ RecordUsage(q)
               \/ Finalize(q) \/ FinalizeFails(q) \/ Abandon(q) \/ Locked(q) \/ Commit(q)
        PROVE Goal
    BY <2>7
    DEF ExtendGone, Deny, Enter, RenewFails, RecordUsage, Finalize, FinalizeFails,
        Abandon, Locked, Commit, Outside, Call
  <2>8. ASSUME NEW q \in Requests, JudgeDaily(q) \/ JudgeMonthly(q) \/ Cancel(q) \/ PoolTimeout(q)
        PROVE Goal
    BY <2>8
    DEF JudgeDaily, JudgeMonthly, Judge, Cancel, PoolTimeout, RolledBack, Outside, Call
  <2>9. ASSUME NEW w \in Workers, Crash(w) PROVE Goal
    BY <2>9 DEF Crash, Outside, Call
  <2>10. CASE UNCHANGED req
    BY <2>10
  <2> QED
    BY <2>3, <2>4, <2>5, <2>6, <2>7, <2>8, <2>9, <2>10
    DEF Next, Transaction, vars, RenewStart, RenewBegin, RenewCommit, SetWorkspaceQuota,
        ChangePlan, CleanupExpired, Tick
<1> QED BY <1>1, <1>2 DEF LimitsTight

(* On such a day the sums of the judgements are the sums of these units.   *)
LEMMA SteadyCounts ==
  ASSUME SteadyDay, TypeOK, RowsLast, NEW s, NEW t \in Nat, t <= MaxClock
  PROVE  Counted(s, {0}, t) = Live(s) /\ Consumed(s, {0}) = Spent(s)
<1>0. MaxOveruse = 0 /\ MaxTokens \in Nat /\ MaxClock \in Nat
  BY BoundAssumption DEF SteadyDay
<1>1. \A q \in Requests :
        /\ rows[q].expires \in Nat /\ usage[q].date = 0
        /\ rows[q].present => rows[q].expires > MaxClock
  BY DEF TypeOK, Row, Record, Days, SteadyDay, RowsLast
<1>2. Counted(s, {0}, t) = Live(s)
  BY <1>0, <1>1 DEF Counted, Live, UnitsOf, Units
<1>3. Consumed(s, {0}) = Spent(s)
  <2>1. 1..(MaxTokens + MaxOveruse) = 1..MaxTokens
    BY <1>0
  <2> QED BY <1>1, <2>1 DEF Consumed, Spent, Units
<1> QED BY <1>2, <1>3

LEMMA TakenUnits ==
  ASSUME NEW s
  PROVE  /\ Live(s) \subseteq Units /\ Spent(s) \subseteq Units /\ Taken(s) \subseteq Units
         /\ Live(s)' \subseteq Units /\ Taken(s)' \subseteq Units
  BY DEF Live, Spent, Taken, UnitsOf

(* Without a commit in the scope nothing is taken anew: usage replaces     *)
(* what was reserved for it.                                               *)
LEMMA NothingTaken ==
  ASSUME SteadyDay, LedgerInv, RowsLast, [Next]_vars, NEW s,
         \A q \in Requests : ScopeOf[q] = s => ~Commit(q)
  PROVE  Live(s)' \subseteq Live(s) /\ Taken(s)' \subseteq Taken(s)
<1>0. /\ rows \in [Requests -> Row] /\ usage \in [Requests -> Record] /\ MaxOveruse = 0
  BY DEF LedgerInv, TypeOK, SteadyDay
<1>1. ASSUME NEW x \in Requests, ScopeOf[x] = s, rows'[x].present
      PROVE  /\ rows[x].present /\ rows'[x].tokens = rows[x].tokens
             /\ rows[x].date = 0 /\ rows[x].expires > MaxClock
  <2>1. rows[x].present /\ rows'[x].tokens = rows[x].tokens
    BY <1>1, OnlyCommitsAdd
  <2> QED BY <1>0, <2>1 DEF RowsLast, Row, Days, SteadyDay
<1>2. Live(s)' \subseteq Live(s)
  BY <1>1 DEF Live, UnitsOf, Units
<1>3. ASSUME NEW q \in Requests, RecordUsage(q) PROVE Spent(s)' \subseteq Taken(s)
  <2>1. PICK n \in 0..(rows[q].tokens + MaxOveruse) :
          usage' = [usage EXCEPT ![q] = [tokens |-> n, date |-> today]]
    BY <1>3 DEF RecordUsage
  <2>2. rows[q].present /\ rows[q].date = 0 /\ rows[q].expires > MaxClock
    BY <1>0, <1>3 DEF RowsLast, RecordUsage, InUse, Serving, Row, Days, SteadyDay
  <2>3. rows[q].tokens \in Nat /\ n \in Nat /\ n <= rows[q].tokens
    BY <1>0, <2>1, BoundAssumption DEF Row
  <2>4. usage'[q].tokens = n /\ \A x \in Requests \ {q} : usage'[x] = usage[x]
    BY <1>0, <2>1
  <2>5. ASSUME NEW u \in Units, ScopeOf[u[1]] = s, u[2] <= usage'[u[1]].tokens
        PROVE  u \in Taken(s)
    <3>1. u[1] \in Requests /\ u[2] \in Nat
      BY BoundAssumption DEF Units
    <3>2. CASE u[1] = q
      <4>1. u[2] <= rows[q].tokens
        BY <2>3, <2>4, <2>5, <3>1, <3>2
      <4> QED BY <2>2, <2>5, <3>2, <4>1 DEF Taken, Live, UnitsOf
    <3>3. CASE u[1] # q
      BY <2>4, <2>5, <3>1, <3>3 DEF Taken, Spent
    <3> QED BY <3>2, <3>3
  <2> QED BY <2>5 DEF Spent
<1>4. ASSUME UNCHANGED usage PROVE Spent(s)' \subseteq Taken(s)
  BY <1>4 DEF Spent, Taken
<1>5. Spent(s)' \subseteq Taken(s)
  BY <1>3, <1>4
  DEF Next, Transaction, vars, Reserve, Extend, ExtendGone, Begin, Locked,
      ReadDailyUsed, JudgeDaily, ReadMonthlyUsed, JudgeMonthly, ReadUsed, Judge,
      PoolTimeout, Deny, Enter, Commit, RenewStart, RenewBegin, RenewCommit, RenewFails,
      Finalize, FinalizeFails, Cancel, Abandon, Crash, CleanupExpired,
      SetWorkspaceQuota, ChangePlan, Tick
<1> QED BY <1>2, <1>5 DEF Taken

(* A commit takes the amount that was judged.                              *)
LEMMA CommitTakes ==
  ASSUME SteadyDay, LedgerInv, RowsLast, NEW q \in Requests, Commit(q)
  PROVE  /\ Cardinality(Live(ScopeOf[q])') <= Cardinality(Live(ScopeOf[q])) + req[q].amount
         /\ Cardinality(Taken(ScopeOf[q])') <= Cardinality(Taken(ScopeOf[q])) + req[q].amount
<1>1. PICK a \in Nat : UnitsOf(rows', ScopeOf[q], {0}, MaxClock)
        \subseteq UnitsOf(rows, ScopeOf[q], {0}, MaxClock)
                    \cup ({q} \X ((a + 1)..(a + req[q].amount)))
  BY CommitUnits, BoundAssumption
<1>2. PICK n : n = req[q].amount /\ n \in Nat
  BY BoundAssumption DEF LedgerInv, TypeOK, Call
<1>3. Live(ScopeOf[q])' \subseteq Live(ScopeOf[q]) \cup ({q} \X ((a + 1)..(a + n)))
  BY <1>1, <1>2 DEF Live, UnitsOf
<1>4. Spent(ScopeOf[q])' = Spent(ScopeOf[q])
  BY DEF Spent, Commit
<1>5. Taken(ScopeOf[q])' \subseteq Taken(ScopeOf[q]) \cup ({q} \X ((a + 1)..(a + n)))
  BY <1>3, <1>4 DEF Taken
<1>6. Cardinality(Live(ScopeOf[q])') <= Cardinality(Live(ScopeOf[q])) + n
  BY <1>2, <1>3, TakenUnits, UnitsGrow
<1>7. Cardinality(Taken(ScopeOf[q])') <= Cardinality(Taken(ScopeOf[q])) + n
  BY <1>2, <1>5, TakenUnits, UnitsGrow
<1> QED BY <1>2, <1>6, <1>7

(* The reservations stay within the limit.                                 *)
LEMMA LiveBoundedStep ==
  ASSUME SteadyDay, LedgerInv, SteadyInv, [Next]_vars
  PROVE  LiveBounded'
<1> SUFFICES ASSUME NEW s \in Scopes PROVE Cardinality(Live(s)') <= Settings.daily
  BY DEF LiveBounded
<1>0. /\ RowsLast /\ TypeOK /\ Settings.daily \in Nat
      /\ Cardinality(Live(s)) <= Settings.daily
      /\ Cardinality(Live(s)) \in Nat /\ Cardinality(Live(s)') \in Nat
  BY LimitAssumption, TakenUnits, UnitsFinite
  DEF SteadyInv, LiveBounded, LedgerInv, SteadyDay, Limits, Limit
<1>1. CASE \A q \in Requests : ScopeOf[q] = s => ~Commit(q)
  <2>1. Cardinality(Live(s)') <= Cardinality(Live(s))
    BY <1>0, <1>1, NothingTaken, TakenUnits, UnitsMonotone
  <2> QED BY <1>0, <2>1
<1>2. ASSUME NEW q \in Requests, ScopeOf[q] = s, Commit(q)
      PROVE  Cardinality(Live(s)') <= Settings.daily
  <2>1. PICK n, limit, t : n = req[q].amount /\ limit = req[q].limits.daily /\ t = req[q].txnow
    OBVIOUS
  <2>2. n \in Nat /\ t \in Nat /\ limit \in Limit /\ req[q].date = 0
    BY <1>0, <2>1, BoundAssumption DEF TypeOK, Call, Limits, Days, SteadyDay
  <2>3. t <= MaxClock
    BY <1>0, <1>2, <2>1, <2>2, BoundAssumption
    DEF LedgerInv, SnapshotPast, Commit, Creating, TypeOK
  <2>4. limit # NoLimit /\ limit \in Nat /\ limit <= Settings.daily
    BY <1>2, <2>1, <2>2 DEF SteadyInv, LimitsTight, Commit, Creating, Limit
  <2>a. Known(q, {0}, t) = Counted(s, {0}, t)
    BY <1>2 DEF Known, SteadyInv, NothingRevived
  <2>5. Reserved(s, {0}, t) + n <= limit
    BY <1>2, <2>1, <2>2, <2>4, <2>a
    DEF LedgerInv, Judged, Judging, RoomFound, Room, Reserved, Commit
  <2>6. Reserved(s, {0}, t) = Cardinality(Live(s))
    BY <1>0, <2>2, <2>3, SteadyCounts DEF Reserved
  <2>7. Cardinality(Live(s)') <= Cardinality(Live(s)) + n
    BY <1>0, <1>2, <2>1, CommitTakes
  <2> QED BY <1>0, <2>2, <2>4, <2>5, <2>6, <2>7
<1> QED BY <1>1, <1>2

(* Reservations and usage stay within twice the limit.                     *)
LEMMA TakenBoundedStep ==
  ASSUME SteadyDay, LedgerInv, SteadyInv, [Next]_vars
  PROVE  TakenBounded'
<1> SUFFICES ASSUME NEW s \in Scopes PROVE Cardinality(Taken(s)') <= 2 * Settings.daily
  BY DEF TakenBounded
<1>0. /\ RowsLast /\ TypeOK /\ Settings.daily \in Nat
      /\ Cardinality(Taken(s)) <= 2 * Settings.daily
      /\ Cardinality(Taken(s)) \in Nat /\ Cardinality(Taken(s)') \in Nat
  BY LimitAssumption, TakenUnits, UnitsFinite
  DEF SteadyInv, TakenBounded, LedgerInv, SteadyDay, Limits, Limit
<1>1. CASE \A q \in Requests : ScopeOf[q] = s => ~Commit(q)
  <2>1. Cardinality(Taken(s)') <= Cardinality(Taken(s))
    BY <1>0, <1>1, NothingTaken, TakenUnits, UnitsMonotone
  <2> QED BY <1>0, <2>1
<1>2. ASSUME NEW q \in Requests, ScopeOf[q] = s, Commit(q)
      PROVE  Cardinality(Taken(s)') <= 2 * Settings.daily
  <2>1. PICK n : n = req[q].amount /\ n \in Nat
    BY <1>0, BoundAssumption DEF TypeOK, Call
  <2>2. Cardinality(Taken(s)) + n <= 2 * Settings.daily
    BY <1>2, <2>1 DEF SteadyInv, Missed, Commit
  <2>3. Cardinality(Taken(s)') <= Cardinality(Taken(s)) + n
    BY <1>0, <1>2, <2>1, CommitTakes
  <2> QED BY <1>0, <2>1, <2>2, <2>3
<1> QED BY <1>1, <1>2

(* The usage a request judges by was read just now, or as it is kept.      *)
LEMMA ReadBefore ==
  ASSUME LedgerInv, [Next]_vars, NEW r \in Requests, req'[r].phase = "dayUsed"
  PROVE  \/ req[r].phase = "dayUsed" /\ req'[r].used = req[r].used
         \/ /\ req[r].phase = "locked" /\ UNCHANGED <<rows, usage>>
            /\ req'[r].used = Used(ScopeOf[r], {req[r].date})
<1> DEFINE Goal == \/ req[r].phase = "dayUsed" /\ req'[r].used = req[r].used
                   \/ /\ req[r].phase = "locked" /\ UNCHANGED <<rows, usage>>
                      /\ req'[r].used = Used(ScopeOf[r], {req[r].date})
<1>0. req \in [Requests -> Call]
  BY DEF LedgerInv, TypeOK
<1> USE <1>0
<1>1. ASSUME NEW q \in Requests, Reserve(q) \/ Extend(q) \/ Begin(q) PROVE Goal
  BY <1>1, OpenCall
<1>2. ASSUME NEW q \in Requests, ReadMonthlyUsed(q) PROVE Goal
  BY <1>2, UsedRead DEF ReadMonthlyUsed, ReadUsed
<1>3. ASSUME NEW q \in Requests, ReadDailyUsed(q) PROVE Goal
  <2>1. CASE q # r
    BY <1>3, <2>1, UsedRead
  <2>2. CASE q = r
    <3>1. PICK u : u = Used(ScopeOf[r], {req[r].date})
      OBVIOUS
    <3>2. /\ req[r].phase = "locked" /\ UNCHANGED <<rows, usage>>
          /\ req' = [req EXCEPT ![r] = [@ EXCEPT !.phase = "dayUsed", !.used = u]]
      BY <1>3, <2>2, <3>1 DEF ReadDailyUsed, ReadUsed
    <3>3. req'[r].used = u
      BY <3>2 DEF Call
    <3> QED BY <3>1, <3>2, <3>3
  <2> QED BY <2>1, <2>2
<1>4. ASSUME NEW q \in Requests,
             \/ ExtendGone(q) \/ Deny(q) \/ Enter(q) \/ RenewFails(q) \/ RecordUsage(q)
             \/ Finalize(q) \/ FinalizeFails(q) \/ Abandon(q) \/ Locked(q) \/ Commit(q)
      PROVE Goal
  BY <1>4 DEF ExtendGone, Deny, Enter, RenewFails, RecordUsage, Finalize, FinalizeFails,
     Abandon, Locked, Commit, Outside, Call
<1>5. ASSUME NEW q \in Requests, JudgeDaily(q) \/ JudgeMonthly(q) \/ Cancel(q) \/ PoolTimeout(q)
      PROVE Goal
  BY <1>5
  DEF JudgeDaily, JudgeMonthly, Judge, Cancel, PoolTimeout, RolledBack, Outside, Call
<1>6. ASSUME NEW w \in Workers, Crash(w) PROVE Goal
  BY <1>6 DEF Crash, Outside, Call
<1>7. CASE UNCHANGED req
  BY <1>7
<1> QED
  BY <1>1, <1>2, <1>3, <1>4, <1>5, <1>6, <1>7
  DEF Next, Transaction, vars, RenewStart, RenewBegin, RenewCommit, SetWorkspaceQuota,
      ChangePlan, CleanupExpired, Tick

(* A request misses no more than the reservations there were when it read  *)
(* the usage.                                                              *)
LEMMA MissedStep ==
  ASSUME SteadyDay, LedgerInv, SteadyInv, [Next]_vars, NEW r \in Requests
  PROVE  Missed(r)'
<1>1. PICK s : s = ScopeOf[r] /\ s \in Scopes
  BY ScopeAssumption
<1>0. /\ RowsLast /\ TypeOK /\ Settings.daily \in Nat
      /\ Cardinality(Live(s)) <= Settings.daily
      /\ Cardinality(Live(s)) \in Nat /\ Cardinality(Spent(s)) \in Nat
      /\ Cardinality(Taken(s)) \in Nat /\ Cardinality(Taken(s)') \in Nat
  BY <1>1, LimitAssumption, TakenUnits, UnitsFinite
  DEF SteadyInv, LiveBounded, LedgerInv, SteadyDay, Limits, Limit
<1>2. ASSUME req[r].phase \in Holding, ~Commit(r)
      PROVE  Cardinality(Taken(s)') <= Cardinality(Taken(s))
  <2>1. ASSUME NEW q \in Requests, ScopeOf[q] = s, Commit(q) PROVE FALSE
    <3>1. req[q].phase \in Holding
      BY <2>1 DEF Commit, Holding, Creating
    <3> QED BY <1>1, <1>2, <2>1, <3>1, HolderUnique
  <2> QED BY <1>0, <2>1, NothingTaken, TakenUnits, UnitsMonotone
<1>3. ASSUME req'[r].phase = "dayUsed"
      PROVE  Cardinality(Taken(s)') <= req'[r].used + Settings.daily
  <2>1. CASE req[r].phase = "dayUsed" /\ req'[r].used = req[r].used
    <3>1. Cardinality(Taken(s)') <= Cardinality(Taken(s))
      BY <1>2, <2>1 DEF Holding, Creating, Commit
    <3>2. Cardinality(Taken(s)) <= req[r].used + Settings.daily
      BY <1>1, <2>1 DEF SteadyInv, Missed
    <3>3. req[r].used \in Nat
      BY <1>0 DEF TypeOK, Call
    <3> QED BY <1>0, <2>1, <3>1, <3>2, <3>3
  <2>2. CASE /\ UNCHANGED <<rows, usage>>
             /\ req'[r].used = Used(ScopeOf[r], {req[r].date})
    <3>1. req[r].date = 0
      BY <1>0 DEF TypeOK, Call, Days, SteadyDay
    <3>2. Consumed(s, {0}) = Spent(s)
      BY <1>0, SteadyCounts, BoundAssumption
    <3>3. req'[r].used = Cardinality(Spent(s))
      BY <1>1, <2>2, <3>1, <3>2 DEF Used
    <3>4. Taken(s)' = Taken(s)
      BY <2>2 DEF Taken, Live, Spent, UnitsOf
    <3>5. Cardinality(Taken(s)) <= Cardinality(Live(s)) + Cardinality(Spent(s))
      <4>1. IsFiniteSet(Live(s)) /\ IsFiniteSet(Spent(s))
        BY TakenUnits, UnitsFinite
      <4>2. Cardinality(Live(s) \cap Spent(s)) \in Nat
        BY <4>1, FS_Subset, FS_CardinalityType
      <4>3. Cardinality(Taken(s)) =
              Cardinality(Live(s)) + Cardinality(Spent(s)) - Cardinality(Live(s) \cap Spent(s))
        BY <4>1, FS_Union DEF Taken
      <4> QED BY <1>0, <4>2, <4>3
    <3> QED BY <1>0, <3>3, <3>4, <3>5
  <2> QED BY <1>3, <2>1, <2>2, ReadBefore
<1>4. ASSUME req'[r].phase \in {"dayOk", "monthUsed", "admitted"}
      PROVE  Cardinality(Taken(s)') + req'[r].amount <= 2 * Settings.daily
  <2>1. PICK n, u, t, limit :
          /\ n = req[r].amount /\ u = req[r].used /\ t = req[r].txnow
          /\ limit = req[r].limits.daily
    OBVIOUS
  <2>2. n \in Nat /\ u \in Nat /\ t \in Nat /\ limit \in Limit /\ req[r].date = 0
    BY <1>0, <2>1, BoundAssumption DEF TypeOK, Call, Limits, Days, SteadyDay
  <2>3. /\ req[r].phase \in Holding /\ ~Commit(r) /\ req'[r].amount = n
        /\ \/ req[r].phase \in {"dayOk", "monthUsed", "admitted"}
           \/ req[r].phase = "dayUsed" /\ Fits(r, {req[r].date}, req[r].limits.daily)
    BY <1>4, <2>1, JudgedBefore
  <2>4. Cardinality(Taken(s)') <= Cardinality(Taken(s))
    BY <1>2, <2>3
  <2>5. CASE req[r].phase \in {"dayOk", "monthUsed", "admitted"}
    <3>1. Cardinality(Taken(s)) + n <= 2 * Settings.daily
      BY <1>1, <2>1, <2>5 DEF SteadyInv, Missed
    <3> QED BY <1>0, <2>2, <2>3, <2>4, <3>1
  <2>6. CASE req[r].phase = "dayUsed" /\ Fits(r, {req[r].date}, req[r].limits.daily)
    <3>1. t <= MaxClock
      BY <1>0, <2>1, <2>2, <2>6, BoundAssumption
      DEF LedgerInv, SnapshotPast, Creating, TypeOK
    <3>2. limit # NoLimit /\ limit \in Nat /\ limit <= Settings.daily
      BY <2>1, <2>2, <2>6 DEF SteadyInv, LimitsTight, Creating, Limit
    <3>3. Reserved(s, {0}, t) = Cardinality(Live(s))
      BY <1>0, <2>2, <3>1, SteadyCounts DEF Reserved
    <3>4. u + Cardinality(Live(s)) + n <= limit
      BY <1>1, <2>1, <2>2, <2>6, <3>2, <3>3 DEF Fits
    <3>5. Cardinality(Taken(s)) <= u + Settings.daily
      BY <1>1, <2>1, <2>6 DEF SteadyInv, Missed
    <3> QED BY <1>0, <2>2, <2>3, <2>4, <3>2, <3>4, <3>5
  <2> QED BY <2>3, <2>5, <2>6
<1> QED BY <1>1, <1>3, <1>4 DEF Missed

(* What the advisory lock is worth on a day on which no reservation        *)
(* expires, none is overused and no limit is lifted: the tokens used and   *)
(* still reserved in a scope stay within twice the daily limit, for every  *)
(* number of requests, although usage and reservations are read apart and  *)
(* settled without the lock.                                               *)
THEOREM Oversubscription ==
  ASSUME SteadyDay PROVE Spec => []OversubscriptionBounded
<1>1. Init => SteadyInv
  <2> SUFFICES ASSUME Init PROVE SteadyInv
    OBVIOUS
  <2>1. RowsLast /\ NothingRevived
    BY DEF Init, RowsLast, NothingRevived, InUse, Serving, Creating, NoRow, Outside
  <2>2. LimitsTight
    BY DEF Init, LimitsTight, Tight, NoLimits, Creating, Outside
  <2>3. ASSUME NEW s PROVE Live(s) = {} /\ Taken(s) = {}
    <3>1. Live(s) = {}
      BY DEF Init, Live, UnitsOf, Units, NoRow
    <3>2. Spent(s) = {}
      BY DEF Init, Spent, Units
    <3> QED BY <3>1, <3>2 DEF Taken
  <2>4. Settings.daily \in Nat /\ Cardinality({}) = 0
    BY LimitAssumption, FS_EmptySet DEF SteadyDay, Limits, Limit
  <2>a. ASSUME NEW s \in Scopes PROVE Cardinality(Live(s)) = 0 /\ Cardinality(Taken(s)) = 0
    BY <2>3, <2>4, Zenon
  <2>5. LiveBounded /\ TakenBounded
    BY <2>4, <2>a DEF LiveBounded, TakenBounded
  <2>6. \A q \in Requests : Missed(q)
    BY DEF Init, Missed, Outside
  <2> QED BY <2>1, <2>2, <2>5, <2>6 DEF SteadyInv
<1>2. LedgerInv /\ SteadyInv /\ [Next]_vars => SteadyInv'
  <2> SUFFICES ASSUME LedgerInv, SteadyInv, [Next]_vars PROVE SteadyInv'
    OBVIOUS
  <2>1. RowsLast' /\ NothingRevived' /\ LimitsTight'
    BY RowsLastStep, NothingRevivedStep, LimitsTightStep DEF SteadyInv
  <2>2. LiveBounded' /\ TakenBounded'
    BY LiveBoundedStep, TakenBoundedStep
  <2>3. \A q \in Requests : Missed(q)'
    BY MissedStep
  <2> QED BY <2>1, <2>2, <2>3 DEF SteadyInv
<1>3. LedgerInv /\ SteadyInv => OversubscriptionBounded
  <2> SUFFICES ASSUME LedgerInv, SteadyInv, NEW s \in Scopes, NEW d \in Days
               PROVE  Committed(s, {d}) <= 2 * Settings.daily
    BY DEF OversubscriptionBounded
  <2>1. d = 0
    BY DEF Days, SteadyDay
  <2>2. clock \in Nat /\ clock <= MaxClock /\ TypeOK /\ RowsLast
    BY BoundAssumption DEF LedgerInv, TypeOK, SteadyInv
  <2>3. Counted(s, {0}, clock) = Live(s) /\ Consumed(s, {0}) = Spent(s)
    BY <2>2, SteadyCounts
  <2>4. PICK C : /\ C = Consumed(s, {d}) \cup
                          {u \in Counted(s, {d}, clock) : req[u[1]].phase # "recorded"}
                 /\ C \subseteq Taken(s)
    BY <2>1, <2>3 DEF Taken
  <2>5. Cardinality(C) <= Cardinality(Taken(s))
    BY <2>4, TakenUnits, UnitsMonotone
  <2>6. Cardinality(C) \in Nat /\ Cardinality(Taken(s)) \in Nat /\ Settings.daily \in Nat
    BY <2>4, TakenUnits, UnitsFinite, LimitAssumption DEF SteadyDay, Limits, Limit
  <2>7. Cardinality(Taken(s)) <= 2 * Settings.daily
    BY DEF SteadyInv, TakenBounded
  <2>8. Committed(s, {d}) = Cardinality(C)
    BY <2>4 DEF Committed
  <2> QED BY <2>5, <2>6, <2>7, <2>8
<1> QED
  BY <1>1, <1>2, <1>3, LedgerInvariant, PTL DEF Spec
=============================================================================
