----------------------------- MODULE QuotaLedger -----------------------------
(***************************************************************************)
(* The token-quota ledger on PostgreSQL: QuotaService (reserve, extend,    *)
(* settle, release, renew, workspace overrides) over                       *)
(* PostgresQuotaRepository, at the grain of one action per database round  *)
(* trip.  Requests of several workers run it concurrently.                 *)
(*                                                                         *)
(* A reservation is created once per request, so a request also names its  *)
(* row of quota_reservations, and its entry of the usage table.  SQL sums  *)
(* are cardinalities of sets of token units <<request, i>>.                *)
(***************************************************************************)
EXTENDS Naturals, FiniteSets

CONSTANTS
  Requests,      \* requests, one reservation each
  Scopes,        \* aggregation dimensions: workspace ids, or API-key hashes
  ScopeOf,       \* the dimension a request is judged in
  Workers,       \* worker processes
  WorkerOf,      \* the worker that serves a request
  PoolSize,      \* connections of a worker's pool (pool_size + max_overflow)
  Amounts,       \* tokens a reserve or an extend may ask for
  Settings,      \* limits of the settings: [daily, monthly]
  Plans,         \* limits a subscription plan may carry (workspace scopes)
  Overrides,     \* limits an administrator may write (workspace scopes)
  NoLimit,       \* None: the dimension inherits, or is not limited
  Nobody,        \* no holder of an advisory lock
  TTL,           \* reservation_ttl_seconds, in clock ticks
  MaxTokens,     \* bound: tokens of one reservation, and of one usage record
  MaxOveruse,    \* bound: tokens used beyond the reservation
  MaxClock,      \* bound: clock ticks
  MaxDay,        \* bound: last day
  DayOf,         \* the UTC date at each tick of the clock
  DaysPerMonth   \* days that share a monthly limit

Days == 0..MaxDay
Limit == Nat \cup {NoLimit}
Limits == [daily : Limit, monthly : Limit]
NoLimits == [daily |-> NoLimit, monthly |-> NoLimit]

ASSUME RequestsFinite == IsFiniteSet(Requests)
ASSUME ScopeAssumption == ScopeOf \in [Requests -> Scopes]
ASSUME WorkerAssumption == WorkerOf \in [Requests -> Workers]
ASSUME AmountAssumption == Amounts \subseteq 1..MaxTokens
ASSUME LimitAssumption ==
  /\ NoLimit \notin Nat
  /\ Settings \in Limits
  /\ Plans \subseteq Limits
  /\ Overrides \subseteq Limits
ASSUME NobodyAssumption == Nobody \notin Requests
ASSUME BoundAssumption ==
  /\ MaxTokens \in Nat /\ MaxOveruse \in Nat
  /\ MaxClock \in Nat /\ MaxDay \in Nat
  /\ DayOf \in [0..MaxClock -> Days]
  /\ TTL \in Nat \ {0} /\ DaysPerMonth \in Nat \ {0} /\ PoolSize \in Nat \ {0}

VARIABLES
  rows,      \* quota_reservations
  usage,     \* what each request has written to daily_usage
  plan,      \* token limits of the scope's live subscription
  override,  \* workspace_quotas
  lock,      \* pg_advisory_xact_lock: scope -> holder
  req,       \* the coroutine that serves each request
  renewal,   \* the renewal its lifecycle's task is in the middle of
  revived,   \* history: <<q, x>>, row x had expired for q, and was renewed
             \* after q judged its reservations
  clock

vars == <<rows, usage, plan, override, lock, req, renewal, revived, clock>>

Creating == {"waiting", "locked", "dayUsed", "dayOk", "monthUsed", "admitted"}
Holding  == Creating \ {"waiting"}
Judging  == {"dayOk", "monthUsed", "admitted"}
Denied   == {"dailyDenied", "monthlyDenied"}
Serving  == {"running", "stopping", "recorded"}
Ended    == {"done", "abandoned", "crashed"}
Phases   == {"idle", "ready", "reserved"} \cup Creating \cup Denied \cup Serving
              \cup Ended

Row == [present : BOOLEAN, tokens : 0..MaxTokens, date : Days, expires : Nat]
Record == [tokens : 0..(MaxTokens + MaxOveruse), date : Days]
Call == [phase : Phases, op : {"create", "extend"}, amount : 0..MaxTokens,
         date : Days, limits : Limits, txnow : Nat, used : Nat]
Renewal == [at : {"idle", "computed", "begun", "ended"}, expires : Nat, txnow : Nat]

NoRow == [present |-> FALSE, tokens |-> 0, date |-> 0, expires |-> 0]
NoRenewal == [at |-> "idle", expires |-> 0, txnow |-> 0]

(* A coroutine that is in none of the repository's transactions: what it   *)
(* had read or computed there is gone.                                     *)
Outside(p) == [phase |-> p, op |-> "create", amount |-> 0, date |-> 0,
               limits |-> NoLimits, txnow |-> 0, used |-> 0]

Init ==
  /\ rows = [q \in Requests |-> NoRow]
  /\ usage = [q \in Requests |-> [tokens |-> 0, date |-> 0]]
  /\ plan = [s \in Scopes |-> NoLimits]
  /\ override = [s \in Scopes |-> NoLimits]
  /\ lock = [s \in Scopes |-> Nobody]
  /\ req = [q \in Requests |-> Outside("idle")]
  /\ renewal = [q \in Requests |-> NoRenewal]
  /\ revived = {}
  /\ clock = 0

-----------------------------------------------------------------------------
(* Queries.                                                                *)

(* datetime.now(UTC) as a date: usage_date of reserve and of record_chat.  *)
today == DayOf[clock]

Month(d) == {e \in Days : e \div DaysPerMonth = d \div DaysPerMonth}

(* The token units of the reservations of scope s, dated in D, that have   *)
(* not expired by time t; and SELECT SUM(reserved_tokens) over them.       *)
Counted(s, D, t) ==
  {u \in Requests \X (1..MaxTokens) :
     LET row == rows[u[1]] IN
       /\ row.present
       /\ ScopeOf[u[1]] = s
       /\ row.date \in D
       /\ row.expires > t
       /\ u[2] <= row.tokens}

Reserved(s, D, t) == Cardinality(Counted(s, D, t))

(* get_total_tokens_for_* and get_monthly_usage*: tokens already used.     *)
Consumed(s, D) ==
  {u \in Requests \X (1..(MaxTokens + MaxOveruse)) :
     /\ ScopeOf[u[1]] = s
     /\ usage[u[1]].date \in D
     /\ u[2] <= usage[u[1]].tokens}

Used(s, D) == Cardinality(Consumed(s, D))

(* _resolve_limits: override, else subscription plan, else settings.       *)
FirstSet(a, b) == IF a = NoLimit THEN b ELSE a
Effective(s) ==
  [daily |-> FirstSet(override[s].daily, FirstSet(plan[s].daily, Settings.daily)),
   monthly |-> FirstSet(override[s].monthly,
                        FirstSet(plan[s].monthly, Settings.monthly))]

(* Mutation: usage on record is not added to the sum.                      *)
FitsWithoutUsage(q, D, limit) ==
  \/ limit = NoLimit
  \/ Reserved(ScopeOf[q], D, req[q].txnow) + req[q].amount <= limit

Fits(q, D, limit) ==
  \/ limit = NoLimit
  \/ req[q].used + Reserved(ScopeOf[q], D, req[q].txnow) + req[q].amount <= limit

(* An open transaction holds a connection of its worker's pool, a renewal  *)
(* another one; every other statement needs a free one.                    *)
FreeConnection(q) ==
  LET Colleagues == {r \in Requests : WorkerOf[r] = WorkerOf[q]} IN
    Cardinality({r \in Colleagues : req[r].phase \in Creating})
      + Cardinality({r \in Colleagues : renewal[r].at = "begun"}) < PoolSize

(* What q judged before belongs to a transaction that is over.             *)
Forget(q) == revived' = {p \in revived : p[1] # q}

-----------------------------------------------------------------------------
(* Opening the transaction.                                                *)

(* QuotaService.reserve: the date, the amount and the limits are fixed     *)
(* before the repository is called.  Quota is off when the settings carry  *)
(* no limit.                                                               *)
Reserve(q) ==
  /\ req[q].phase = "idle"
  /\ Settings # NoLimits
  /\ \E amount \in Amounts :
       req' = [req EXCEPT ![q] = [@ EXCEPT !.phase = "ready", !.op = "create",
                                           !.amount = amount, !.date = today,
                                           !.limits = Effective(ScopeOf[q])]]
  /\ UNCHANGED <<rows, usage, plan, override, lock, renewal, revived, clock>>

(* The first statement of create_reservation starts the transaction: now() *)
(* is frozen here, before the wait for the advisory lock.                  *)
Begin(q) ==
  /\ req[q].phase = "ready" /\ FreeConnection(q)
  /\ req' = [req EXCEPT ![q] = [@ EXCEPT !.phase = "waiting", !.txnow = clock]]
  /\ Forget(q)
  /\ UNCHANGED <<rows, usage, plan, override, lock, renewal, clock>>

(* QuotaService.extend up to the first SELECT of extend_reservation, which *)
(* finds the row and starts the transaction.  (A missing row is the        *)
(* NOT_FOUND of ExtendGone.)                                               *)
Extend(q) ==
  /\ req[q].phase = "running" /\ FreeConnection(q)
  /\ rows[q].present
  /\ \E amount \in Amounts :
       /\ rows[q].tokens + amount <= MaxTokens
       /\ req' = [req EXCEPT ![q] = [@ EXCEPT !.phase = "waiting", !.op = "extend",
                                              !.amount = amount, !.txnow = clock,
                                              !.date = rows[q].date,
                                              !.limits = Effective(ScopeOf[q])]]
  /\ Forget(q)
  /\ UNCHANGED <<rows, usage, plan, override, lock, renewal, clock>>

(* extend_reservation finds no row: NOT_FOUND, the model call is refused.  *)
ExtendGone(q) ==
  /\ req[q].phase = "running"
  /\ ~rows[q].present
  /\ req' = [req EXCEPT ![q].phase = "stopping"]
  /\ UNCHANGED <<rows, usage, plan, override, lock, renewal, revived, clock>>

(* Mutation: no advisory lock.                                             *)
LockedAtOnce(q) ==
  /\ req[q].phase = "waiting"
  /\ req' = [req EXCEPT ![q].phase = "locked"]
  /\ lock' = [lock EXCEPT ![ScopeOf[q]] = q]
  /\ UNCHANGED <<rows, usage, plan, override, renewal, revived, clock>>

(* The advisory lock is granted; an extend then selects its row FOR UPDATE *)
(* and gives up with NOT_FOUND when it is gone or expired by now().        *)
Locked(q) ==
  /\ req[q].phase = "waiting"
  /\ lock[ScopeOf[q]] = Nobody
  /\ IF req[q].op = "extend" /\ ~(rows[q].present /\ rows[q].expires > req[q].txnow)
     THEN /\ req' = [req EXCEPT ![q] = Outside("stopping")]
          /\ UNCHANGED lock
     ELSE /\ req' = [req EXCEPT ![q].phase = "locked"]
          /\ lock' = [lock EXCEPT ![ScopeOf[q]] = q]
  /\ UNCHANGED <<rows, usage, plan, override, renewal, revived, clock>>

-----------------------------------------------------------------------------
(* Judging, under the lock: usage is read in a session of its own, which   *)
(* takes a second connection, then the reservations in this transaction.   *)
(* Neither is read where no limit applies.                                 *)

Unlock(q) == lock' = [lock EXCEPT ![ScopeOf[q]] = Nobody]

(* Leaving without a commit: a reserve goes on to phase p, an extend stops  *)
(* the run that asked for it.                                              *)
RolledBack(q, p) ==
  req' = [req EXCEPT ![q] = Outside(IF req[q].op = "create" THEN p ELSE "stopping")]

ReadUsed(q, from, to, D, limit) ==
  /\ req[q].phase = from
  /\ limit = NoLimit \/ FreeConnection(q)
  /\ req' = [req EXCEPT ![q] = [@ EXCEPT !.phase = to, !.used = Used(ScopeOf[q], D)]]
  /\ UNCHANGED <<rows, usage, plan, override, lock, renewal, revived, clock>>

Judge(q, from, to, denied, D, limit) ==
  /\ req[q].phase = from
  /\ IF Fits(q, D, limit)
     THEN req' = [req EXCEPT ![q].phase = to] /\ UNCHANGED lock
     ELSE RolledBack(q, denied) /\ Unlock(q)
  /\ UNCHANGED <<rows, usage, plan, override, renewal, revived, clock>>

ReadDailyUsed(q)   == ReadUsed(q, "locked", "dayUsed", {req[q].date},
                               req[q].limits.daily)
JudgeDaily(q)      == Judge(q, "dayUsed", "dayOk", "dailyDenied", {req[q].date},
                            req[q].limits.daily)
ReadMonthlyUsed(q) == ReadUsed(q, "dayOk", "monthUsed", Month(req[q].date),
                               req[q].limits.monthly)
JudgeMonthly(q)    == Judge(q, "monthUsed", "admitted", "monthlyDenied",
                            Month(req[q].date), req[q].limits.monthly)

(* _raise_daily_limit, _raise_monthly_limit: the refusal is logged, then   *)
(* raised.                                                                 *)
Deny(q) ==
  /\ req[q].phase \in Denied
  /\ req' = [req EXCEPT ![q].phase = "done"]
  /\ UNCHANGED <<rows, usage, plan, override, lock, renewal, revived, clock>>

(* Mutation: the pool waits for ever.                                      *)
PoolTimeoutNever(q) == FALSE /\ UNCHANGED vars

(* No connection within the pool's timeout: the call fails, the            *)
(* transaction rolls back.                                                 *)
PoolTimeout(q) ==
  /\ req[q].phase \in {"ready", "locked", "dayOk"} /\ ~FreeConnection(q)
  /\ RolledBack(q, "done")
  /\ IF req[q].phase \in Holding THEN Unlock(q) ELSE UNCHANGED lock
  /\ UNCHANGED <<rows, usage, plan, override, renewal, revived, clock>>

(* INSERT or UPDATE, commit; the commit releases the lock.  The expiry of  *)
(* a new row was computed by the worker at time t, before the INSERT.      *)
Written(q, t) ==
  IF req[q].op = "create"
  THEN [present |-> TRUE, tokens |-> req[q].amount, date |-> req[q].date,
        expires |-> t + TTL]
  ELSE [rows[q] EXCEPT !.tokens = @ + req[q].amount]

(* An extend whose lease was lost meanwhile returns to a run that stops.   *)
Commit(q) ==
  /\ req[q].phase = "admitted"
  /\ \E t \in req[q].txnow..clock : rows' = [rows EXCEPT ![q] = Written(q, t)]
  /\ req' = [req EXCEPT ![q] = Outside(IF req[q].op = "create" THEN "reserved"
                                      ELSE IF renewal[q].at = "ended" THEN "stopping"
                                      ELSE "running")]
  /\ Unlock(q)
  /\ UNCHANGED <<usage, plan, override, renewal, revived, clock>>

(* reserve returns and the caller enters its ReservationLifecycle: at once *)
(* for a plain request, when the body is first iterated for a stream.      *)
Enter(q) ==
  /\ req[q].phase = "reserved"
  /\ req' = [req EXCEPT ![q].phase = "running"]
  /\ UNCHANGED <<rows, usage, plan, override, lock, renewal, revived, clock>>

-----------------------------------------------------------------------------
(* The reservation in use.                                                 *)

(* The row is locked FOR UPDATE by the extend of its own request.          *)
RowLocked(q) == req[q].op = "extend" /\ req[q].phase \in Holding

InUse(q) ==
  \/ req[q].phase \in Serving
  \/ req[q].op = "extend" /\ req[q].phase \in Creating

(* The renewal task of the lifecycle wakes up: renew_reservation computes  *)
(* the new expiry by the worker's clock and asks the pool for a session.   *)
RenewStart(q) ==
  /\ InUse(q) /\ renewal[q].at = "idle"
  /\ renewal' = [renewal EXCEPT ![q] = [at |-> "computed", expires |-> clock + TTL,
                                        txnow |-> 0]]
  /\ UNCHANGED <<rows, usage, plan, override, lock, req, revived, clock>>

(* The UPDATE is sent: it starts the transaction, and now() is frozen.     *)
RenewBegin(q) ==
  /\ renewal[q].at = "computed" /\ FreeConnection(q)
  /\ renewal' = [renewal EXCEPT ![q] = [@ EXCEPT !.at = "begun", !.txnow = clock]]
  /\ UNCHANGED <<rows, usage, plan, override, lock, req, revived, clock>>

(* Those who judged without row x, because it had expired for them.        *)
JudgedWithout(x) ==
  {r \in Requests : req[r].phase \in Judging /\ rows[x].expires <= req[r].txnow}

(* Mutation: the UPDATE does not ask whether the row is still alive.       *)
RenewCommitUnchecked(q) ==
  /\ renewal[q].at = "begun" /\ ~RowLocked(q)
  /\ rows[q].present
  /\ rows' = [rows EXCEPT ![q].expires = renewal[q].expires]
  /\ renewal' = [renewal EXCEPT ![q] = NoRenewal]
  /\ revived' = revived \cup {<<r, q>> : r \in JudgedWithout(q)}
  /\ UNCHANGED <<usage, plan, override, lock, req, clock>>

(* UPDATE ... WHERE expires_at > now(), once the row's lock is free, and   *)
(* its COMMIT.  In between the row is locked: nobody changes it and nobody *)
(* sees the new expiry, so both are one step, which may come long after    *)
(* the expiry was computed and now() was frozen.                           *)
RenewCommit(q) ==
  /\ renewal[q].at = "begun" /\ ~RowLocked(q)
  /\ rows[q].present /\ rows[q].expires > renewal[q].txnow
  /\ rows' = [rows EXCEPT ![q].expires = renewal[q].expires]
  /\ renewal' = [renewal EXCEPT ![q] = NoRenewal]
  /\ revived' = revived \cup {<<r, q>> : r \in JudgedWithout(q)}
  /\ UNCHANGED <<usage, plan, override, lock, req, clock>>

(* The UPDATE finds no live row, the pool has no session, or the database  *)
(* fails: the task ends and the operation in flight is cancelled.  One     *)
(* that holds the lock is cancelled by Cancel, or commits before that; a   *)
(* request past its last operation does not look any more.                 *)
RenewFails(q) ==
  /\ renewal[q].at \in {"computed", "begun"}
  /\ renewal' = [renewal EXCEPT ![q] = [NoRenewal EXCEPT !.at = "ended"]]
  /\ req' = IF req[q].phase \in Holding \cup {"recorded"} THEN req
            ELSE [req EXCEPT ![q] = Outside("stopping")]
  /\ UNCHANGED <<rows, usage, plan, override, lock, revived, clock>>

(* _stop_renewal: the task is cancelled and awaited; its session closes.   *)
StopRenewal(q) == renewal' = [renewal EXCEPT ![q] = NoRenewal]

(* UsageCollector.record_chat after the operation, dated when it is        *)
(* written, not when the reservation was made.                             *)
RecordUsage(q) ==
  /\ req[q].phase \in {"running", "stopping"} /\ FreeConnection(q)
  /\ \E n \in 0..(rows[q].tokens + MaxOveruse) :
       usage' = [usage EXCEPT ![q] = [tokens |-> n, date |-> today]]
  /\ req' = [req EXCEPT ![q].phase = "recorded"]
  /\ UNCHANGED <<rows, plan, override, lock, renewal, revived, clock>>

(* settle and release: both DELETE the row, without the advisory lock.  A  *)
(* failed or cancelled operation is released with no usage on record.      *)
Finalize(q) ==
  /\ req[q].phase \in Serving /\ FreeConnection(q)
  /\ rows' = [rows EXCEPT ![q] = NoRow]
  /\ req' = [req EXCEPT ![q].phase = "done"]
  /\ StopRenewal(q)
  /\ UNCHANGED <<usage, plan, override, lock, revived, clock>>

(* The database fails the DELETE of settle and that of the release in      *)
(* __aexit__: the request ends, the row stays until it expires.            *)
FinalizeFails(q) ==
  /\ req[q].phase \in Serving
  /\ req' = [req EXCEPT ![q].phase = "abandoned"]
  /\ StopRenewal(q)
  /\ UNCHANGED <<rows, usage, plan, override, lock, revived, clock>>

(* Mutation: a cancelled extend ends the request without a release.        *)
CancelUnreleased(q) ==
  /\ req[q].phase \in Creating \cup {"ready"}
  /\ req' = [req EXCEPT ![q] = Outside("done")]
  /\ IF req[q].phase \in Holding THEN Unlock(q) ELSE UNCHANGED lock
  /\ UNCHANGED <<rows, usage, plan, override, renewal, revived, clock>>

(* The caller is cancelled inside the repository: the session closes, the  *)
(* transaction rolls back and its locks go.                                *)
Cancel(q) ==
  /\ req[q].phase \in Creating \cup {"ready"}
  /\ RolledBack(q, "done")
  /\ IF req[q].phase \in Holding THEN Unlock(q) ELSE UNCHANGED lock
  /\ UNCHANGED <<rows, usage, plan, override, renewal, revived, clock>>

(* The caller is cancelled, its client leaves before the stream starts, or *)
(* the answer to the commit is lost, after the INSERT was committed and    *)
(* before the lifecycle is entered: nobody holds the reservation any more. *)
Abandon(q) ==
  /\ req[q].phase = "reserved"
  /\ req' = [req EXCEPT ![q].phase = "abandoned"]
  /\ UNCHANGED <<rows, usage, plan, override, lock, renewal, revived, clock>>

(* A worker process dies with its requests; PostgreSQL rolls back their    *)
(* transactions and keeps their rows.                                      *)
Crash(w) ==
  LET Dying == {q \in Requests : /\ WorkerOf[q] = w
                                 /\ req[q].phase \notin {"idle"} \cup Ended} IN
  /\ Dying # {}
  /\ req' = [q \in Requests |-> IF q \in Dying THEN Outside("crashed") ELSE req[q]]
  /\ lock' = [s \in Scopes |-> IF lock[s] \in Dying THEN Nobody ELSE lock[s]]
  /\ renewal' = [q \in Requests |-> IF q \in Dying THEN NoRenewal ELSE renewal[q]]
  /\ UNCHANGED <<rows, usage, plan, override, revived, clock>>

-----------------------------------------------------------------------------
(* Administration and time.                                                *)

(* cleanup_expired: one DELETE; a row locked FOR UPDATE makes it wait.     *)
CleanupExpired ==
  /\ \A q \in Requests : ~RowLocked(q)
  /\ \E q \in Requests : rows[q].present /\ rows[q].expires < clock
  /\ rows' = [q \in Requests |->
                [rows[q] EXCEPT !.present = @ /\ ~(rows[q].expires < clock)]]
  /\ UNCHANGED <<usage, plan, override, lock, req, renewal, revived, clock>>

SetWorkspaceQuota(s) ==
  /\ \E l \in Overrides : override[s] # l /\ override' = [override EXCEPT ![s] = l]
  /\ UNCHANGED <<rows, usage, plan, lock, req, renewal, revived, clock>>

(* A subscription starts, changes plan, or stops counting (billing).       *)
ChangePlan(s) ==
  /\ \E l \in Plans : plan[s] # l /\ plan' = [plan EXCEPT ![s] = l]
  /\ UNCHANGED <<rows, usage, override, lock, req, renewal, revived, clock>>

Tick ==
  /\ clock < MaxClock
  /\ clock' = clock + 1
  /\ UNCHANGED <<rows, usage, plan, override, lock, req, renewal, revived>>

Transaction(q) ==
  \/ Begin(q) \/ Locked(q)
  \/ ReadDailyUsed(q) \/ JudgeDaily(q) \/ ReadMonthlyUsed(q) \/ JudgeMonthly(q)
  \/ Commit(q) \/ PoolTimeout(q)

Next ==
  \/ \E q \in Requests :
       \/ Reserve(q) \/ Extend(q) \/ ExtendGone(q)
       \/ Transaction(q)
       \/ Deny(q) \/ Enter(q)
       \/ RenewStart(q) \/ RenewBegin(q) \/ RenewCommit(q) \/ RenewFails(q)
       \/ RecordUsage(q) \/ Finalize(q) \/ FinalizeFails(q)
       \/ Cancel(q) \/ Abandon(q)
  \/ \E w \in Workers : Crash(w)
  \/ \E s \in Scopes : SetWorkspaceQuota(s) \/ ChangePlan(s)
  \/ CleanupExpired \/ Tick

Spec == Init /\ [][Next]_vars

(* The database answers and hands the advisory lock to its waiters in      *)
(* turn; a wait for a connection is bounded by the pool's timeout.         *)
FairSpec ==
  Spec /\ \A q \in Requests : WF_vars(Transaction(q)) /\ SF_vars(Locked(q))

-----------------------------------------------------------------------------
(* Properties.                                                             *)

TypeOK ==
  /\ rows \in [Requests -> Row]
  /\ usage \in [Requests -> Record]
  /\ plan \in [Scopes -> Limits]
  /\ override \in [Scopes -> Limits]
  /\ lock \in [Scopes -> Requests \cup {Nobody}]
  /\ req \in [Requests -> Call]
  /\ renewal \in [Requests -> Renewal]
  /\ revived \subseteq Requests \X Requests
  /\ clock \in 0..MaxClock

Within(n, limit) == limit = NoLimit \/ n <= limit

(* The reservations that q could know of: all that count, less the ones    *)
(* revived behind its back.                                                *)
Known(q, D, t) == {u \in Counted(ScopeOf[q], D, t) : <<q, u[1]>> \notin revived}

(* A reserve or an extend that is admitted never lifts the unexpired       *)
(* reservations of its scope over the daily or the monthly limit it was    *)
(* judged by, however other requests' reads, commits, renewals, deletions  *)
(* and crashes interleave: what the advisory lock is for                   *)
(* (create_reservation and extend_reservation judge, then write).  Only    *)
(* rows that had expired before the transaction began, and that a renewal  *)
(* begun even earlier wrote after the judgement, may come on top.          *)
AdmissionWithinLimits ==
  [][\A q \in Requests :
       (rows'[q].present /\ (~rows[q].present \/ rows'[q].tokens # rows[q].tokens))
         => /\ Within(Cardinality(Known(q, {rows[q].date}, clock))', req[q].limits.daily)
            /\ Within(Cardinality(Known(q, Month(rows[q].date), clock))',
                      req[q].limits.monthly)]_vars

(* The same with every unexpired reservation counted.  The code does not   *)
(* keep it: a renewal in flight when its lease expires is written after    *)
(* somebody else was given the room.                                       *)
AdmissionExact ==
  [][\A q \in Requests :
       (rows'[q].present /\ (~rows[q].present \/ rows'[q].tokens # rows[q].tokens))
         => Within(Reserved(ScopeOf[q], {rows[q].date}, clock)', req[q].limits.daily)]_vars

(* A reservation that other requests no longer count counts again only by  *)
(* a renewal that the database began before it expired and that still has  *)
(* a live task: what the WHERE clause of renew_reservation and the await   *)
(* in _stop_renewal are for.  Renewals that begin late revive nothing.     *)
ExpiredStaysExpired ==
  [][\A q \in Requests :
       (rows[q].present /\ rows[q].expires <= clock
          /\ rows'[q].present /\ rows'[q].expires > clock')
         => /\ InUse(q) /\ renewal[q].at = "begun"
            /\ renewal[q].txnow < rows[q].expires]_vars

(* A renewal may be written late, with an expiry computed long before, but *)
(* never takes time from the lease it renews.                              *)
NeverShortened ==
  [][\A q \in Requests :
       rows[q].present /\ rows'[q].present => rows[q].expires <= rows'[q].expires]_vars

(* What a judgement may rely on: admissions respect the limits they were   *)
(* judged by, a lease comes back only by a renewal under way before it     *)
(* expired, and none is cut short.                                         *)
LeasesHold == AdmissionWithinLimits /\ ExpiredStaysExpired /\ NeverShortened

(* A row outlives its request only when the worker crashed, the caller was *)
(* cancelled before it entered the lifecycle, or the DELETE failed:        *)
(* refusals, cancellations, failed extends, lost leases and settlement     *)
(* leave no reservation behind.                                            *)
NoLeakedReservation ==
  \A q \in Requests :
    rows[q].present => req[q].phase \in {"reserved", "abandoned", "crashed"} \/ InUse(q)

(* Tokens that are used or still may be: usage on record, and reservations *)
(* of requests that have not recorded theirs.                              *)
Committed(s, D) ==
  Cardinality(Consumed(s, D)
                \cup {u \in Counted(s, D, clock) : req[u[1]].phase # "recorded"})

(* "The lock already prevents oversubscription": usage plus outstanding    *)
(* reservations of a day stay within the daily limit (limits unchanged).   *)
NoOversubscription ==
  \A s \in Scopes, d \in Days : Within(Committed(s, {d}), Settings.daily)

(* What the code does guarantee on a day on which no reservation expires,  *)
(* none is overused and no limit is lifted: a reserve that misses the      *)
(* usage of settling requests misses at most one limit's worth.            *)
OversubscriptionBounded ==
  Settings.daily # NoLimit =>
    \A s \in Scopes, d \in Days : Committed(s, {d}) <= 2 * Settings.daily

(* A transaction that waits for the advisory lock gets an answer, also     *)
(* when the waiters have taken every connection the holder needs to read   *)
(* the usage: the pool's timeout breaks that circle.                       *)
EveryWaitEnds ==
  \A q \in Requests : req[q].phase = "waiting" ~> req[q].phase \notin Creating

-----------------------------------------------------------------------------
(* The inductive invariant behind AdmissionWithinLimits.                   *)

(* The advisory lock excludes: a transaction past the lock is its holder.  *)
LockHeld ==
  \A q \in Requests : req[q].phase \in Holding => lock[ScopeOf[q]] = q

(* now() of an open transaction lies in the past.                          *)
SnapshotPast ==
  \A q \in Requests : req[q].phase \in Creating => req[q].txnow <= clock

(* What a judgement has established stays true until the commit.           *)
Room(q, D, limit) ==
  limit # NoLimit => Cardinality(Known(q, D, req[q].txnow)) + req[q].amount <= limit

RoomFound(q) ==
  /\ req[q].phase \in Judging
       => Room(q, {req[q].date}, req[q].limits.daily)
  /\ req[q].phase = "admitted"
       => Room(q, Month(req[q].date), req[q].limits.monthly)

Judged == \A q \in Requests : RoomFound(q)

(* A create finds no row of its own, an extend finds the row it judged.    *)
OwnRow(q) ==
  /\ req[q].phase \in {"idle", "ready"} => ~rows[q].present
  /\ req[q].phase = "ready" => req[q].op = "create"
  /\ req[q].phase \in Creating /\ req[q].op = "create" => ~rows[q].present
  /\ req[q].phase \in Creating /\ req[q].op = "extend" =>
       /\ rows[q].date = req[q].date
       /\ rows[q].tokens + req[q].amount <= MaxTokens
  /\ RowLocked(q) => rows[q].present

RowShape == \A q \in Requests : OwnRow(q)

(* A renewal under way belongs to a reservation in use, and what it will   *)
(* write is no earlier than the expiry on record.                          *)
OwnRenewal(q) ==
  /\ rows[q].expires <= clock + TTL
  /\ renewal[q].at # "idle" => InUse(q)
  /\ renewal[q].at \in {"computed", "begun"} => rows[q].expires <= renewal[q].expires
  /\ renewal[q].at \in {"computed", "begun"} => renewal[q].expires <= clock + TTL

RenewalShape == \A q \in Requests : OwnRenewal(q)

(* While one reserve or extend of a scope is between its lock and its      *)
(* commit, no other is, and the room it found is still there: create_      *)
(* and extend_reservation may judge and write in separate statements.      *)
LedgerInv == TypeOK /\ LockHeld /\ SnapshotPast /\ Judged /\ RowShape /\ RenewalShape

=============================================================================
