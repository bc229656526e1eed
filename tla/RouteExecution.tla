------------------------- MODULE RouteExecution -------------------------
(***************************************************************************)
(* POST /api/v1/execute-route: the handler of api/mod.rs and              *)
(* RouteExecutionService::execute_route_with_quota (db/service.rs) with    *)
(* the statements of db/operations.rs, run by concurrent requests over one *)
(* connection pool against Postgres at READ COMMITTED.                     *)
(*                                                                         *)
(* Statements work on the transaction's own rows until COMMIT.  The upsert *)
(* of get_or_create locks the user's quota row (or the index entry of a    *)
(* row being created) until the transaction ends, which is what makes the  *)
(* check and the later update see the same value.  A call that is answered *)
(* before its transaction is over (an early return, a dropped request)     *)
(* leaves a ROLLBACK, or the COMMIT it was waiting for, on its connection; *)
(* the transaction keeps its lock until Postgres has seen that.  Amounts   *)
(* are in units of 1e-8 USD, the scale of estimated_fee_usd.               *)
(*                                                                         *)
(* models.rs reads NUMERIC columns into f64, which sqlx 0.7 refuses:       *)
(* NumericDecodes = FALSE is the code as it stands, in which every call    *)
(* ends at its first statement.  With TRUE the types are taken as mended,  *)
(* and the rest of the transaction comes into play.                        *)
(***************************************************************************)
EXTENDS Integers, FiniteSets, Functions

CONSTANTS Tasks,           \* requests to execute a route, one call each
          Users,
          Fees,            \* estimated_fee_usd values of the requests
          Limit,           \* daily_limit_usd given to a new quota row
          PoolSize,        \* max_connections of the pool
          NumericDecodes,  \* whether f64 fields take NUMERIC columns
          None

Cent == 1000000

ASSUME ExecutionAssumption ==
  /\ Fees \subseteq Nat
  /\ Limit \in Nat /\ Limit % Cent = 0
  /\ PoolSize \in Nat \ {0} /\ NumericDecodes \in BOOLEAN
  /\ None \notin Tasks /\ None \notin Nat

\* Whether the request names an anchor: both its domain and a transaction id.
Anchors == {"none", "named"}
Jobs == [user : Users, fee : Fees, anchor : Anchors]
ASSUME NoneIsNoJob == None \notin Jobs

Events == {"route_created", "quota_updated", "anchor_transaction_created",
           "route_executed"}

\* The rows one call writes: its route, its history, its anchor transaction.
Rows == [route : {"absent", "pending", "executed"}, history : SUBSET Events,
         anchor : Anchors]
NoRows == [route |-> "absent", history |-> {}, anchor |-> "none"]

Working == {"Insert", "Quota", "Check", "Charge", "Anchor", "Status", "Commit",
            "Committed"}
Steps   == {"New", "Begin"} \cup Working \cup {"Ok", "Refused", "Failed", "Invalid"}

VARIABLES step,   \* per call, the statement it is about to run, or its answer
          job,    \* per call, the request
          rows,   \* committed rows of each call
          quota,  \* committed used_today_usd of each user, None without a row
          draft,  \* per call, the rows its open transaction has written
          seen,   \* per call, used_today_usd as its transaction last returned it
          lock,   \* per user, the call whose transaction holds the quota row
          wire    \* per answered call, what its connection has yet to do

vars == <<step, job, rows, quota, draft, seen, lock, wire>>

TypeOK ==
  /\ step \in [Tasks -> Steps]
  /\ job \in [Tasks -> Jobs \cup {None}]
  /\ \A t \in Tasks : job[t] = None <=> step[t] \in {"New", "Invalid"}
  /\ rows \in [Tasks -> Rows] /\ draft \in [Tasks -> Rows]
  /\ quota \in [Users -> Nat \cup {None}]
  /\ seen \in [Tasks -> Nat]
  /\ lock \in [Users -> Tasks \cup {None}]
  /\ wire \in [Tasks -> {"nothing", "ROLLBACK", "COMMIT"}]

Init ==
  /\ step = [t \in Tasks |-> "New"]
  /\ job = [t \in Tasks |-> None]
  /\ rows = [t \in Tasks |-> NoRows] /\ draft = [t \in Tasks |-> NoRows]
  /\ quota = [u \in Users |-> None]
  /\ seen = [t \in Tasks |-> 0]
  /\ lock = [u \in Users |-> None]
  /\ wire = [t \in Tasks |-> "nothing"]

\* A transaction is open at its working steps, and until the pool's task has
\* emptied the connection of a call that was answered.
Connected == {t \in Tasks : step[t] \in Working \/ wire[t] # "nothing"}
Usage(u)  == IF quota[u] = None THEN 0 ELSE quota[u]

\* Mutant: truncation instead of rounding.
ToCentsTruncated(x) == (x \div Cent) * Cent

\* Assignment to a NUMERIC(18, 2) column rounds to whole cents.
ToCents(x) == ((x + 500000) \div Cent) * Cent

Go(t, s)     == step' = [step EXCEPT ![t] = s]
Log(t, e)    == [draft[t] EXCEPT !.history = @ \cup {e}]
Unlocked(t)  == [u \in Users |-> IF lock[u] = t THEN None ELSE lock[u]]

-----------------------------------------------------------------------------
\* execute_route_handler refuses zero amounts and negative fees.
Submit(t, j) ==
  /\ step[t] = "New"
  /\ job' = [job EXCEPT ![t] = j]
  /\ Go(t, "Begin")
  /\ UNCHANGED <<rows, quota, draft, seen, lock, wire>>

RejectRequest(t) ==
  /\ step[t] = "New"
  /\ Go(t, "Invalid")
  /\ UNCHANGED <<job, rows, quota, draft, seen, lock, wire>>

\* db.begin() takes a connection out of the pool.
Begin(t) ==
  /\ step[t] = "Begin"
  /\ Cardinality(Connected) < PoolSize
  /\ Go(t, "Insert")
  /\ UNCHANGED <<job, rows, quota, draft, seen, lock, wire>>

\* acquire_timeout expires, or the request is dropped while it waits.
NoConnection(t) ==
  /\ step[t] = "Begin"
  /\ Go(t, "Failed")
  /\ UNCHANGED <<job, rows, quota, draft, seen, lock, wire>>

\* The call is answered with its transaction still open.
Leave(t, answer, left) ==
  /\ Go(t, answer)
  /\ wire' = [wire EXCEPT ![t] = left]
  /\ UNCHANGED <<job, rows, quota, draft, seen, lock>>

\* INSERT .. RETURNING *, whose row is decoded, and the first history entry.
CreateWithHistory(t) ==
  /\ step[t] = "Insert"
  /\ IF NumericDecodes
     THEN /\ draft' = [draft EXCEPT ![t] =
                         [Log(t, "route_created") EXCEPT !.route = "pending"]]
          /\ Go(t, "Quota")
          /\ UNCHANGED <<job, rows, quota, seen, lock, wire>>
     ELSE Leave(t, "Failed", "ROLLBACK")

\* Mutant: ON CONFLICT DO NOTHING and a plain SELECT, which lock nothing.
GetOrCreateQuotaUnlocked(t) ==
  /\ step[t] = "Quota"
  /\ seen' = [seen EXCEPT ![t] = Usage(job[t].user)]
  /\ Go(t, "Check")
  /\ UNCHANGED <<job, rows, quota, draft, lock, wire>>

\* INSERT .. ON CONFLICT DO UPDATE waits for, then takes, the row lock, and
\* returns the value committed last.
GetOrCreateQuota(t) ==
  LET u == job[t].user IN
  /\ step[t] = "Quota"
  /\ lock[u] = None
  /\ lock' = [lock EXCEPT ![u] = t]
  /\ seen' = [seen EXCEPT ![t] = Usage(u)]
  /\ Go(t, "Check")
  /\ UNCHANGED <<job, rows, quota, draft, wire>>

\* Mutant: a fee that exactly exhausts the limit is refused.
OverOrEqual(t) == seen[t] + job[t].fee >= Limit

Over(t) == seen[t] + job[t].fee > Limit

\* Mutant: the refused route is kept as an audit record.
RefuseAndCommit(t) ==
  step[t] = "Check" /\ Over(t) /\ Leave(t, "Refused", "COMMIT")

\* The early return drops the transaction, which queues its ROLLBACK.
Refuse(t) ==
  step[t] = "Check" /\ Over(t) /\ Leave(t, "Refused", "ROLLBACK")

WithinQuota(t) ==
  /\ step[t] = "Check"
  /\ ~Over(t)
  /\ Go(t, "Charge")
  /\ UNCHANGED <<job, rows, quota, draft, seen, lock, wire>>

\* Mutant: the update runs on a second connection of the pool.
UpdateUsageElsewhere(t) ==
  LET u == job[t].user IN
  /\ step[t] = "Charge"
  /\ Cardinality(Connected) < PoolSize
  /\ lock[u] \in {t, None}
  /\ lock' = [lock EXCEPT ![u] = t]
  /\ seen' = [seen EXCEPT ![t] = ToCents(Usage(u) + job[t].fee)]
  /\ draft' = [draft EXCEPT ![t] = Log(t, "quota_updated")]
  /\ Go(t, "Anchor")
  /\ UNCHANGED <<job, rows, quota, wire>>

\* update_usage (an UPDATE, which needs the row lock too) and its history.
UpdateUsage(t) ==
  LET u == job[t].user IN
  /\ step[t] = "Charge"
  /\ lock[u] \in {t, None}
  /\ lock' = [lock EXCEPT ![u] = t]
  /\ seen' = [seen EXCEPT ![t] = ToCents(Usage(u) + job[t].fee)]
  /\ draft' = [draft EXCEPT ![t] = Log(t, "quota_updated")]
  /\ Go(t, "Anchor")
  /\ UNCHANGED <<job, rows, quota, wire>>

CreateAnchor(t) ==
  /\ step[t] = "Anchor"
  /\ draft' = IF job[t].anchor = "named"
              THEN [draft EXCEPT ![t] =
                     [Log(t, "anchor_transaction_created") EXCEPT !.anchor = "named"]]
              ELSE draft
  /\ Go(t, "Status")
  /\ UNCHANGED <<job, rows, quota, seen, lock, wire>>

UpdateStatus(t) ==
  /\ step[t] = "Status"
  /\ draft' = [draft EXCEPT ![t] = [Log(t, "route_executed") EXCEPT !.route = "executed"]]
  /\ Go(t, "Commit")
  /\ UNCHANGED <<job, rows, quota, seen, lock, wire>>

\* What COMMIT does in the database: the rows become visible together.
TakeEffect(t) ==
  /\ rows' = [rows EXCEPT ![t] = draft[t]]
  /\ quota' = [quota EXCEPT ![job[t].user] = seen[t]]

\* The end of a transaction, either way.
EndTransaction(t) ==
  /\ draft' = [draft EXCEPT ![t] = NoRows]
  /\ lock' = Unlocked(t)

Commit(t) ==
  /\ step[t] = "Commit"
  /\ TakeEffect(t) /\ EndTransaction(t)
  /\ Go(t, "Committed")
  /\ UNCHANGED <<job, seen, wire>>

Acknowledge(t) ==
  /\ step[t] = "Committed"
  /\ Go(t, "Ok")
  /\ UNCHANGED <<job, rows, quota, draft, seen, lock, wire>>

\* A statement fails (`?`), or TimeoutLayer answers 408 and drops the request at
\* an await.  At the last await the COMMIT is out, and its answer lost.
Abandon(t) ==
  /\ step[t] \in Working
  /\ Leave(t, "Failed", CASE step[t] = "Commit" -> "COMMIT"
                          [] step[t] = "Committed" -> "nothing"
                          [] OTHER -> "ROLLBACK")

\* Postgres reads what an answered call has left: a COMMIT takes effect, unless
\* it was lost with the connection; anything else ends the transaction.
Settle(t) ==
  /\ wire[t] # "nothing"
  /\ wire' = [wire EXCEPT ![t] = "nothing"]
  /\ \/ wire[t] = "COMMIT" /\ TakeEffect(t)
     \/ UNCHANGED <<rows, quota>>
  /\ EndTransaction(t)
  /\ UNCHANGED <<step, job, seen>>

Work(t) ==
  \/ Begin(t) \/ CreateWithHistory(t) \/ GetOrCreateQuota(t)
  \/ Refuse(t) \/ WithinQuota(t) \/ UpdateUsage(t)
  \/ CreateAnchor(t) \/ UpdateStatus(t) \/ Commit(t) \/ Acknowledge(t)
  \/ Settle(t)

Next ==
  \E t \in Tasks :
    \/ \E j \in Jobs : Submit(t, j)
    \/ RejectRequest(t) \/ NoConnection(t) \/ Abandon(t) \/ Work(t)

Spec == Init /\ [][Next]_vars

\* Postgres answers statements, grants free locks and the pool hands out free
\* connections, which its tasks empty; no timeout is relied on.
FairSpec == Spec /\ \A t \in Tasks : WF_vars(Work(t))

\* The same, of a database whose statements succeed and answer in time.
HealthyNext ==
  \E t \in Tasks :
    (\E j \in Jobs : Submit(t, j)) \/ RejectRequest(t) \/ Work(t)
HealthySpec == Init /\ [][HealthyNext]_vars /\ \A t \in Tasks : WF_vars(Work(t))

-----------------------------------------------------------------------------
\* No interleaving of a user's requests takes the usage on record past the
\* limit that each of them checked.
WithinLimit == \A u \in Users : Usage(u) <= Limit

Complete(t) ==
  rows[t] = [route |-> "executed",
             history |-> IF job[t].anchor = "named" THEN Events
                         ELSE Events \ {"anchor_transaction_created"},
             anchor |-> job[t].anchor]

\* service.rs:102: all operations succeed together or none does; other
\* requests never see a pending route or part of a history.
AllOrNothing == \A t \in Tasks : rows[t] = NoRows \/ Complete(t)

\* The user's committed routes among some calls, and what they cost.
EnteredFor(u, tasks) == {t \in tasks : rows[t] # NoRows /\ job[t].user = u}
Charged(u, tasks)    == SumFunction([t \in EnteredFor(u, tasks) |-> job[t].fee])

Distance(x, y) == IF x < y THEN y - x ELSE x - y

\* The usage on record follows the fees of the committed routes to within half
\* a cent per route: rounding is the only difference, no charge is lost or
\* counted twice.
UsageFollowsRoutes ==
  \A u \in Users :
    2 * Distance(Usage(u), Charged(u, Tasks)) <= Cent * Cardinality(EnteredFor(u, Tasks))

\* The transaction implements the one-step ledger: also when the answer comes
\* first and the COMMIT after it.
Told(s) == CASE s = "Ok" -> "ok" [] s = "Refused" -> "refused"
             [] s \in {"Failed", "Invalid"} -> "failed" [] OTHER -> "none"

Ledger == INSTANCE QuotaLedger WITH
  used    <- [u \in Users |-> Usage(u)],
  request <- job,
  entered <- {t \in Tasks : rows[t] # NoRows},
  answer  <- [t \in Tasks |-> Told(step[t])]

ImplementsLedger == Ledger!Spec

\* tests/transaction_atomicity_tests.rs:79, "Route creation should succeed": with
\* a healthy database a request is recorded, or refused by its quota.
HealthyCallsSucceed ==
  \A t \in Tasks : step[t] = "Begin" ~> step[t] \in {"Ok", "Refused"}

\* Every accepted request is answered, even when the pool is exhausted by
\* requests that wait for one another's quota row.
CallsEnd ==
  \A t \in Tasks : step[t] = "Begin" ~> step[t] \in {"Ok", "Refused", "Failed"}
=============================================================================
