---------------------- MODULE RouteExecutionProofs ----------------------
(* For any number of users and concurrent requests: the usage on record    *)
(* stays within the limit, a route is entered whole or not at all, and the *)
(* transaction implements the one-step ledger.                             *)
EXTENDS RouteExecution, FiniteSetTheorems, TLAPS

Locked == {"Check", "Charge", "Anchor", "Status", "Commit"}

\* Calls whose next step in the database is their COMMIT, answered or not.
Committing(t) == step[t] = "Commit" \/ wire[t] = "COMMIT"

\* Only an answered call leaves something on its connection.
WireInv ==
  \A t \in Tasks :
    /\ wire[t] # "nothing" => step[t] \in {"Refused", "Failed"}
    /\ wire[t] = "COMMIT" => step[t] = "Failed"

\* The row lock is held from the upsert to the end of the transaction, which
\* may come after the answer.
LockInv ==
  /\ \A t \in Tasks : step[t] \in Locked \/ wire[t] = "COMMIT" => lock[job[t].user] = t
  /\ \A u \in Users : \A t \in Tasks :
       lock[u] = t => /\ step[t] \in Locked \/ wire[t] # "nothing"
                      /\ job[t].user = u

\* Under the lock, what the transaction has seen is what is on record, and
\* once charged, what will be on record.
SeenInv ==
  \A t \in Tasks :
    /\ step[t] \in {"Check", "Charge"} => seen[t] = Usage(job[t].user)
    /\ step[t] = "Charge" => ~Over(t)
    /\ step[t] \in {"Anchor", "Status"} \/ Committing(t) =>
         /\ seen[t] = ToCents(Usage(job[t].user) + job[t].fee)
         /\ Usage(job[t].user) + job[t].fee <= Limit

\* What a transaction has written by the time it reaches a step.
Draft(r, h, a) == [route |-> r, history |-> h, anchor |-> a]
DraftOf(t) ==
  /\ step[t] \in {"New", "Begin", "Insert"} => draft[t] = NoRows
  /\ step[t] \in {"Quota", "Check", "Charge"}
       => draft[t] = Draft("pending", {"route_created"}, "none")
  /\ step[t] = "Anchor"
       => draft[t] = Draft("pending", {"route_created", "quota_updated"}, "none")
  /\ step[t] = "Status"
       => draft[t] = Draft("pending",
            IF job[t].anchor = "named" THEN Events \ {"route_executed"}
            ELSE {"route_created", "quota_updated"}, job[t].anchor)
  /\ Committing(t)
       => draft[t] = Draft("executed",
            IF job[t].anchor = "named" THEN Events
            ELSE Events \ {"anchor_transaction_created"}, job[t].anchor)
DraftInv == \A t \in Tasks : DraftOf(t)

\* Nothing is visible of a call whose COMMIT has not taken effect.
RowsInv ==
  \A t \in Tasks :
    /\ rows[t] # NoRows => step[t] \in {"Committed", "Ok", "Failed"} /\ wire[t] # "COMMIT"
    /\ step[t] = "Committed" => rows[t] # NoRows

IInv == /\ TypeOK /\ WireInv /\ LockInv /\ SeenInv /\ DraftInv /\ RowsInv
        /\ WithinLimit /\ AllOrNothing

\* Rounding to cents stays below a limit given in whole cents.
LEMMA RoundingWithinLimit ==
  \A x \in Nat : ToCents(x) \in Nat /\ (x <= Limit => ToCents(x) <= Limit)
  BY ExecutionAssumption DEF ToCents, Cent

\* The initial states satisfy the invariant.
LEMMA InitIInv == Init => IInv
  BY ExecutionAssumption, NoneIsNoJob
  DEF Init, IInv, TypeOK, WireInv, LockInv, SeenInv, DraftInv, DraftOf, RowsInv, WithinLimit,
      AllOrNothing, Usage, Steps, Working, Rows, NoRows, Anchors, Locked, Committing

\* What the statements write are rows.
LEMMA LogIsRows ==
  ASSUME TypeOK, NEW t \in Tasks, NEW e \in Events PROVE Log(t, e) \in Rows
  BY DEF TypeOK, Log, Rows

\* The empty table is a table.
LEMMA NoRowsIsRows == NoRows \in Rows
  BY DEF NoRows, Rows, Anchors

\* Ending a transaction leaves locks that are nobody's or a call's.
LEMMA UnlockedIsLock ==
  ASSUME TypeOK, NEW t \in Tasks PROVE Unlocked(t) \in [Users -> Tasks \cup {None}]
  BY DEF TypeOK, Unlocked

\* A patched table is a table.
LEMMA PatchIsRows ==
  \A r \in Rows :
    /\ \A x \in {"pending", "executed"} : [r EXCEPT !.route = x] \in Rows
    /\ \A a \in Anchors : [r EXCEPT !.anchor = a] \in Rows
  BY DEF Rows

\* The request a transaction works on.
LEMMA AtWork ==
  ASSUME TypeOK, NEW t \in Tasks, step[t] \in Working
  PROVE  /\ job[t] \in Jobs /\ job[t].user \in Users /\ job[t].anchor \in Anchors
         /\ job[t].fee \in Nat /\ Usage(job[t].user) \in Nat
<1>1. job[t] \in Jobs
  BY NoneIsNoJob DEF TypeOK, Working
<1>2. job[t].user \in Users /\ job[t].fee \in Nat /\ job[t].anchor \in Anchors
  BY <1>1, ExecutionAssumption DEF Jobs
<1>3. Usage(job[t].user) \in Nat
  BY <1>2 DEF TypeOK, Usage
<1> QED BY <1>1, <1>2, <1>3

\* What a transaction has found and written when its COMMIT is next.
LEMMA AboutToEnter ==
  ASSUME IInv, NEW t \in Tasks, Committing(t)
  PROVE  /\ job[t] \in Jobs /\ job[t] # None /\ job[t].user \in Users
         /\ job[t].fee \in Nat /\ Usage(job[t].user) \in Nat /\ seen[t] \in Nat
         /\ seen[t] = ToCents(Usage(job[t].user) + job[t].fee)
         /\ Usage(job[t].user) + job[t].fee <= Limit /\ seen[t] <= Limit
         /\ rows[t] = NoRows
         /\ draft[t] = Draft("executed",
              IF job[t].anchor = "named" THEN Events
              ELSE Events \ {"anchor_transaction_created"}, job[t].anchor)
         /\ draft[t] # NoRows
<1>1. job[t] \in Jobs
  BY NoneIsNoJob DEF IInv, TypeOK, WireInv, Committing
<1>2. job[t].user \in Users /\ job[t].fee \in Nat /\ job[t] # None
  BY <1>1, NoneIsNoJob, ExecutionAssumption DEF Jobs
<1>3. Usage(job[t].user) \in Nat /\ seen[t] \in Nat
  BY <1>2 DEF IInv, TypeOK, Usage
<1>4. /\ seen[t] = ToCents(Usage(job[t].user) + job[t].fee)
      /\ Usage(job[t].user) + job[t].fee <= Limit
  BY DEF IInv, SeenInv
<1>5. seen[t] <= Limit
  BY <1>2, <1>3, <1>4, RoundingWithinLimit
<1>6. rows[t] = NoRows
  BY DEF IInv, RowsInv, Committing
<1>7. draft[t] = Draft("executed",
              IF job[t].anchor = "named" THEN Events
              ELSE Events \ {"anchor_transaction_created"}, job[t].anchor)
  BY DEF IInv, DraftInv, DraftOf
<1>8. draft[t] # NoRows
  BY <1>7 DEF Draft, NoRows
<1> QED BY <1>1, <1>2, <1>3, <1>4, <1>5, <1>6, <1>7, <1>8

\* The steps of one request.
Acts(t) ==
  \/ \E j \in Jobs : Submit(t, j)
  \/ RejectRequest(t) \/ NoConnection(t) \/ Abandon(t) \/ Work(t)

\* A request moves alone: what the others are at and have written stays.
LEMMA OneMoves ==
  ASSUME TypeOK, NEW t \in Tasks, Acts(t), NEW p \in Tasks, p # t
  PROVE  step'[p] = step[p] /\ wire'[p] = wire[p] /\ draft'[p] = draft[p] /\ job'[p] = job[p]
  BY DEF TypeOK, Acts, Work, Go, Leave, EndTransaction, Submit, RejectRequest, NoConnection,
         Abandon, Begin, CreateWithHistory, GetOrCreateQuota, Refuse, WithinQuota, UpdateUsage,
         CreateAnchor, UpdateStatus, Commit, Acknowledge, Settle

\* Every step keeps the types.
LEMMA StepType == IInv /\ [Next]_vars => TypeOK'
<1> SUFFICES ASSUME IInv, [Next]_vars PROVE TypeOK'
  OBVIOUS
<1> USE ExecutionAssumption, NoneIsNoJob, RoundingWithinLimit
    DEF IInv, TypeOK, Go, Steps, Working
<1>2. ASSUME NEW t \in Tasks, NEW j \in Jobs, Submit(t, j) PROVE TypeOK'
  BY <1>2 DEF Submit
<1>3. ASSUME NEW t \in Tasks, RejectRequest(t) PROVE TypeOK'
  BY <1>3 DEF RejectRequest
<1>4. ASSUME NEW t \in Tasks, Begin(t) PROVE TypeOK'
  BY <1>4 DEF Begin
<1>5. ASSUME NEW t \in Tasks, NoConnection(t) PROVE TypeOK'
  BY <1>5 DEF NoConnection
<1>6. ASSUME NEW t \in Tasks, CreateWithHistory(t) PROVE TypeOK'
  <2>1. CASE NumericDecodes
    <3>1. [Log(t, "route_created") EXCEPT !.route = "pending"] \in Rows
      BY LogIsRows, PatchIsRows DEF Events
    <3> QED BY <1>6, <2>1, <3>1 DEF CreateWithHistory
  <2>2. CASE ~NumericDecodes
    BY <1>6, <2>2 DEF CreateWithHistory, Leave
  <2> QED BY <2>1, <2>2
<1>7. ASSUME NEW t \in Tasks, GetOrCreateQuota(t) PROVE TypeOK'
  BY <1>7 DEF GetOrCreateQuota, Usage, Jobs
<1>8. ASSUME NEW t \in Tasks, Refuse(t) PROVE TypeOK'
  BY <1>8 DEF Refuse, Leave
<1>9. ASSUME NEW t \in Tasks, WithinQuota(t) PROVE TypeOK'
  BY <1>9 DEF WithinQuota
<1>10. ASSUME NEW t \in Tasks, UpdateUsage(t) PROVE TypeOK'
  <2>1. job[t].user \in Users /\ ToCents(Usage(job[t].user) + job[t].fee) \in Nat
    BY <1>10, AtWork DEF UpdateUsage
  <2>2. Log(t, "quota_updated") \in Rows
    BY LogIsRows DEF Events
  <2> QED BY <1>10, <2>1, <2>2 DEF UpdateUsage
<1>11. ASSUME NEW t \in Tasks, CreateAnchor(t) PROVE TypeOK'
  BY <1>11, LogIsRows, PatchIsRows DEF CreateAnchor, Events, Anchors
<1>12. ASSUME NEW t \in Tasks, UpdateStatus(t) PROVE TypeOK'
  BY <1>12, LogIsRows, PatchIsRows DEF UpdateStatus, Events
<1>13. ASSUME NEW t \in Tasks, Commit(t) PROVE TypeOK'
  <2>1. job[t].user \in Users
    BY <1>13, AtWork DEF Commit
  <2>2. /\ step' \in [Tasks -> Steps]
        /\ \A p \in Tasks : job'[p] = None <=> step'[p] \in {"New", "Invalid"}
    BY <1>13 DEF Commit, TakeEffect, EndTransaction
  <2>3. rows' \in [Tasks -> Rows] /\ draft' \in [Tasks -> Rows]
    BY <1>13, NoRowsIsRows DEF Commit, TakeEffect, EndTransaction
  <2>4. /\ quota' \in [Users -> Nat \cup {None}]
        /\ lock' \in [Users -> Tasks \cup {None}]
    BY <1>13, <2>1, UnlockedIsLock DEF Commit, TakeEffect, EndTransaction
  <2> QED BY <1>13, <2>2, <2>3, <2>4 DEF Commit, TakeEffect, EndTransaction
<1>14. ASSUME NEW t \in Tasks, Abandon(t) PROVE TypeOK'
  BY <1>14 DEF Abandon, Leave
<1>16. ASSUME NEW t \in Tasks, Acknowledge(t) PROVE TypeOK'
  BY <1>16 DEF Acknowledge
<1>17. ASSUME NEW t \in Tasks, Settle(t) PROVE TypeOK'
  <2>1. draft' \in [Tasks -> Rows] /\ lock' \in [Users -> Tasks \cup {None}]
    BY <1>17, NoRowsIsRows, UnlockedIsLock DEF Settle, EndTransaction
  <2>2. rows' \in [Tasks -> Rows] /\ quota' \in [Users -> Nat \cup {None}]
    BY <1>17 DEF Settle, TakeEffect
  <2> QED BY <1>17, <2>1, <2>2 DEF Settle
<1>15. CASE UNCHANGED vars
  BY <1>15 DEF vars
<1> QED
  BY <1>2, <1>3, <1>4, <1>5, <1>6, <1>7, <1>8, <1>9,
     <1>10, <1>11, <1>12, <1>13, <1>14, <1>15, <1>16, <1>17 DEF Next, Work

\* How a statement extends a draft.
LEMMA Extending ==
  \A r, h, a, x :
    /\ [Draft(r, h, a) EXCEPT !.route = x] = Draft(x, h, a)
    /\ [Draft(r, h, a) EXCEPT !.anchor = x] = Draft(r, h, x)
  BY DEF Draft

\* A log entry extends a draft.
LEMMA Logging ==
  ASSUME NEW t \in Tasks, NEW r, NEW h, NEW a, NEW e, draft[t] = Draft(r, h, a)
  PROVE  Log(t, e) = Draft(r, h \cup {e}, a)
  BY DEF Log, Draft

\* A log entry and the change of the route it tells of.
LEMMA Marking ==
  ASSUME NEW t \in Tasks, NEW r, NEW h, NEW a, NEW e, NEW x, draft[t] = Draft(r, h, a)
  PROVE  [Log(t, e) EXCEPT !.route = x] = Draft(x, h \cup {e}, a)
<1>1. Log(t, e) = Draft(r, h \cup {e}, a)
  BY Logging
<1>2. \A k : [Draft(r, k, a) EXCEPT !.route = x] = Draft(x, k, a)
  BY DEF Draft
<1> QED BY <1>1, <1>2

\* A transaction locks with its upsert and unlocks with its end.
LEMMA StepLock == IInv /\ [Next]_vars => LockInv'
<1> SUFFICES ASSUME IInv, [Next]_vars PROVE LockInv'
  OBVIOUS
<1>0. TypeOK /\ TypeOK'
  BY StepType DEF IInv
<1> USE <1>0, ExecutionAssumption, NoneIsNoJob DEF IInv, TypeOK, WireInv, LockInv, Go, Locked, Working, Jobs
<1>2. ASSUME NEW t \in Tasks, NEW j \in Jobs, Submit(t, j) PROVE LockInv'
  BY <1>2 DEF Submit
<1>3. ASSUME NEW t \in Tasks, RejectRequest(t) PROVE LockInv'
  BY <1>3 DEF RejectRequest
<1>4. ASSUME NEW t \in Tasks, Begin(t) PROVE LockInv'
  BY <1>4 DEF Begin
<1>5. ASSUME NEW t \in Tasks, NoConnection(t) PROVE LockInv'
  BY <1>5 DEF NoConnection
<1>6. ASSUME NEW t \in Tasks, CreateWithHistory(t) PROVE LockInv'
  BY <1>6 DEF CreateWithHistory, Leave
<1>7. ASSUME NEW t \in Tasks, GetOrCreateQuota(t) PROVE LockInv'
  BY <1>7 DEF GetOrCreateQuota
<1>8. ASSUME NEW t \in Tasks, Refuse(t) PROVE LockInv'
  BY <1>8 DEF Refuse, Leave
<1>9. ASSUME NEW t \in Tasks, WithinQuota(t) PROVE LockInv'
  BY <1>9 DEF WithinQuota
<1>10. ASSUME NEW t \in Tasks, UpdateUsage(t) PROVE LockInv'
  BY <1>10 DEF UpdateUsage
<1>11. ASSUME NEW t \in Tasks, CreateAnchor(t) PROVE LockInv'
  BY <1>11 DEF CreateAnchor
<1>12. ASSUME NEW t \in Tasks, UpdateStatus(t) PROVE LockInv'
  BY <1>12 DEF UpdateStatus
<1>13. ASSUME NEW t \in Tasks, Commit(t) PROVE LockInv'
  BY <1>13 DEF Commit, TakeEffect, EndTransaction, Unlocked
<1>14. ASSUME NEW t \in Tasks, Abandon(t) PROVE LockInv'
  BY <1>14 DEF Abandon, Leave
<1>16. ASSUME NEW t \in Tasks, Acknowledge(t) PROVE LockInv'
  BY <1>16 DEF Acknowledge
<1>17. ASSUME NEW t \in Tasks, Settle(t) PROVE LockInv'
  BY <1>17 DEF Settle, TakeEffect, EndTransaction, Unlocked
<1>15. CASE UNCHANGED vars
  BY <1>15 DEF vars
<1> QED
  BY <1>2, <1>3, <1>4, <1>5, <1>6, <1>7, <1>8,
     <1>9, <1>10, <1>11, <1>12, <1>13, <1>14, <1>15, <1>16, <1>17 DEF Next, Work

\* Nothing changes the usage of a user whose quota row is locked.
LEMMA StepSeen == IInv /\ [Next]_vars => SeenInv'
<1> SUFFICES ASSUME IInv, [Next]_vars PROVE SeenInv'
  OBVIOUS
<1>0. TypeOK /\ TypeOK'
  BY StepType DEF IInv
<1> USE <1>0, ExecutionAssumption, NoneIsNoJob DEF IInv, TypeOK, WireInv, LockInv, SeenInv, Go,
      Locked, Committing, Working, Jobs, Usage, Over
<1>2. ASSUME NEW t \in Tasks, NEW j \in Jobs, Submit(t, j) PROVE SeenInv'
  BY <1>2 DEF Submit
<1>3. ASSUME NEW t \in Tasks, RejectRequest(t) PROVE SeenInv'
  BY <1>3 DEF RejectRequest
<1>4. ASSUME NEW t \in Tasks, Begin(t) PROVE SeenInv'
  BY <1>4 DEF Begin
<1>5. ASSUME NEW t \in Tasks, NoConnection(t) PROVE SeenInv'
  BY <1>5 DEF NoConnection
<1>6. ASSUME NEW t \in Tasks, CreateWithHistory(t) PROVE SeenInv'
  BY <1>6 DEF CreateWithHistory, Leave
<1>7. ASSUME NEW t \in Tasks, GetOrCreateQuota(t) PROVE SeenInv'
  BY <1>7 DEF GetOrCreateQuota
<1>8. ASSUME NEW t \in Tasks, Refuse(t) PROVE SeenInv'
  BY <1>8 DEF Refuse, Leave
<1>9. ASSUME NEW t \in Tasks, WithinQuota(t) PROVE SeenInv'
  BY <1>9 DEF WithinQuota
<1>10. ASSUME NEW t \in Tasks, UpdateUsage(t) PROVE SeenInv'
  <2>1. ~Over(t) /\ seen[t] = Usage(job[t].user)
    BY <1>10 DEF UpdateUsage
  <2>2. Usage(job[t].user) + job[t].fee <= Limit
    <3>1. Usage(job[t].user) \in Nat /\ job[t].fee \in Nat
      BY <1>10, AtWork DEF UpdateUsage
    <3> QED BY <2>1, <3>1 DEF Over
  <2>3. seen'[t] = ToCents(Usage(job[t].user) + job[t].fee)
    BY <1>10 DEF UpdateUsage
  <2> QED BY <1>10, <2>2, <2>3 DEF UpdateUsage
<1>11. ASSUME NEW t \in Tasks, CreateAnchor(t) PROVE SeenInv'
  BY <1>11 DEF CreateAnchor
<1>12. ASSUME NEW t \in Tasks, UpdateStatus(t) PROVE SeenInv'
  BY <1>12 DEF UpdateStatus
<1>13. ASSUME NEW t \in Tasks, Commit(t) PROVE SeenInv'
  BY <1>13 DEF Commit, TakeEffect, EndTransaction
<1>14. ASSUME NEW t \in Tasks, Abandon(t) PROVE SeenInv'
  BY <1>14 DEF Abandon, Leave
<1>16. ASSUME NEW t \in Tasks, Acknowledge(t) PROVE SeenInv'
  BY <1>16 DEF Acknowledge
<1>17. ASSUME NEW t \in Tasks, Settle(t) PROVE SeenInv'
  BY <1>17 DEF Settle, TakeEffect, EndTransaction, Unlocked
<1>15. CASE UNCHANGED vars
  BY <1>15 DEF vars
<1> QED
  BY <1>2, <1>3, <1>4, <1>5, <1>6, <1>7, <1>8,
     <1>9, <1>10, <1>11, <1>12, <1>13, <1>14, <1>15, <1>16, <1>17 DEF Next, Work

\* An answered call moves no further.
LEMMA StepWire == IInv /\ [Next]_vars => WireInv'
<1> SUFFICES ASSUME IInv, [Next]_vars PROVE WireInv'
  OBVIOUS
<1> USE DEF IInv, TypeOK, WireInv, Go, Working
<1>1. ASSUME NEW t \in Tasks, Refuse(t) \/ Abandon(t) \/ CreateWithHistory(t)
      PROVE  WireInv'
  BY <1>1 DEF Refuse, Abandon, CreateWithHistory, Leave
<1>2. ASSUME NEW t \in Tasks, Settle(t) PROVE WireInv'
  BY <1>2 DEF Settle
<1>3. ASSUME NEW t \in Tasks, Acts(t), wire' = wire PROVE WireInv'
  <2>1. wire[t] = "nothing"
    BY <1>3 DEF Acts, Work, Submit, RejectRequest, NoConnection, Abandon, Begin,
                CreateWithHistory, GetOrCreateQuota, Refuse, WithinQuota, UpdateUsage,
                CreateAnchor, UpdateStatus, Commit, Acknowledge, Settle
  <2> QED BY <1>3, <2>1, OneMoves
<1>4. ASSUME NEW t \in Tasks, Acts(t), wire' # wire PROVE WireInv'
  <2>1. Refuse(t) \/ Abandon(t) \/ CreateWithHistory(t) \/ Settle(t)
    BY <1>4 DEF Acts, Work, Submit, RejectRequest, NoConnection, Begin, GetOrCreateQuota,
                WithinQuota, UpdateUsage, CreateAnchor, UpdateStatus, Commit, Acknowledge
  <2> QED BY <2>1, <1>1, <1>2
<1>5. ASSUME UNCHANGED vars PROVE WireInv'
  BY <1>5 DEF vars
<1> QED BY <1>3, <1>4, <1>5 DEF Next, Acts

\* A transaction writes its rows in the order of its statements.
LEMMA StepDraft == IInv /\ [Next]_vars => DraftInv'
<1> SUFFICES ASSUME IInv, [Next]_vars PROVE DraftInv'
  OBVIOUS
<1>0. TypeOK /\ TypeOK'
  BY StepType DEF IInv
<1> USE <1>0, ExecutionAssumption, NoneIsNoJob DEF IInv, WireInv, DraftInv, TypeOK, Go, Working
<1>2. ASSUME NEW t \in Tasks, NEW j \in Jobs, Submit(t, j) PROVE DraftOf(t)'
  BY <1>2 DEF DraftOf, Committing, Submit
<1>3. ASSUME NEW t \in Tasks, RejectRequest(t) PROVE DraftOf(t)'
  BY <1>3 DEF DraftOf, Committing, RejectRequest
<1>4. ASSUME NEW t \in Tasks, Begin(t) PROVE DraftOf(t)'
  BY <1>4 DEF DraftOf, Committing, Begin
<1>5. ASSUME NEW t \in Tasks, NoConnection(t) PROVE DraftOf(t)'
  BY <1>5 DEF DraftOf, Committing, NoConnection
<1>6. ASSUME NEW t \in Tasks, CreateWithHistory(t) PROVE DraftOf(t)'
  <2>1. CASE NumericDecodes
    <3>1. draft[t] = Draft("absent", {}, "none")
      BY <1>6 DEF CreateWithHistory, NoRows, Draft, DraftOf
    <3>2. Log(t, "route_created") = Draft("absent", {} \cup {"route_created"}, "none")
      BY <3>1, Logging
    <3>3. {} \cup {"route_created"} = {"route_created"}
      OBVIOUS
    <3>4. draft'[t] = Draft("pending", {"route_created"}, "none")
      BY <1>6, <2>1, <3>2, <3>3, Extending DEF CreateWithHistory
    <3> QED BY <1>6, <2>1, <3>4 DEF DraftOf, Committing, CreateWithHistory
  <2>2. CASE ~NumericDecodes
    BY <1>6, <2>2 DEF DraftOf, Committing, CreateWithHistory, Leave
  <2> QED BY <2>1, <2>2
<1>7. ASSUME NEW t \in Tasks, GetOrCreateQuota(t) PROVE DraftOf(t)'
  BY <1>7 DEF DraftOf, Committing, GetOrCreateQuota
<1>8. ASSUME NEW t \in Tasks, Refuse(t) PROVE DraftOf(t)'
  BY <1>8 DEF DraftOf, Committing, Refuse, Leave
<1>9. ASSUME NEW t \in Tasks, WithinQuota(t) PROVE DraftOf(t)'
  BY <1>9 DEF DraftOf, Committing, WithinQuota
<1>10. ASSUME NEW t \in Tasks, UpdateUsage(t) PROVE DraftOf(t)'
  <2>1. draft'[t] = Draft("pending", {"route_created", "quota_updated"}, "none")
    <3>1. draft[t] = Draft("pending", {"route_created"}, "none")
      BY <1>10 DEF UpdateUsage, DraftOf
    <3>2. {"route_created"} \cup {"quota_updated"} = {"route_created", "quota_updated"}
      OBVIOUS
    <3> QED BY <1>10, <3>1, <3>2, Logging DEF UpdateUsage
  <2> QED BY <1>10, <2>1 DEF DraftOf, Committing, UpdateUsage
<1>11. ASSUME NEW t \in Tasks, CreateAnchor(t) PROVE DraftOf(t)'
  <2>1. job[t].anchor \in Anchors
    BY <1>11, AtWork DEF CreateAnchor
  <2>2. draft'[t] = Draft("pending",
              IF job[t].anchor = "named" THEN Events \ {"route_executed"}
              ELSE {"route_created", "quota_updated"}, job[t].anchor)
    <3>1. draft[t] = Draft("pending", {"route_created", "quota_updated"}, "none")
      BY <1>11 DEF CreateAnchor, DraftOf
    <3>2. Log(t, "anchor_transaction_created")
            = Draft("pending", Events \ {"route_executed"}, "none")
      <4>1. {"route_created", "quota_updated"} \cup {"anchor_transaction_created"}
              = Events \ {"route_executed"}
        BY DEF Events
      <4> QED BY <3>1, <4>1, Logging
    <3> QED BY <1>11, <2>1, <3>1, <3>2, Extending DEF CreateAnchor, Anchors
  <2> QED BY <1>11, <2>2 DEF DraftOf, Committing, CreateAnchor
<1>12. ASSUME NEW t \in Tasks, UpdateStatus(t) PROVE DraftOf(t)'
  <2>1. draft'[t] = Draft("executed",
              IF job[t].anchor = "named" THEN Events
              ELSE Events \ {"anchor_transaction_created"}, job[t].anchor)
    <3> DEFINE h == IF job[t].anchor = "named" THEN Events \ {"route_executed"}
                    ELSE {"route_created", "quota_updated"}
    <3>1. draft[t] = Draft("pending", h, job[t].anchor)
      BY <1>12 DEF UpdateStatus, DraftOf
    <3>2. h \cup {"route_executed"}
            = IF job[t].anchor = "named" THEN Events
              ELSE Events \ {"anchor_transaction_created"}
      BY DEF Events
    <3> HIDE DEF h
    <3>3. draft'[t] = [Log(t, "route_executed") EXCEPT !.route = "executed"]
      BY <1>12 DEF UpdateStatus
    <3> QED BY <3>1, <3>2, <3>3, Marking
  <2> QED BY <1>12, <2>1 DEF DraftOf, Committing, UpdateStatus
<1>13. ASSUME NEW t \in Tasks, Commit(t) PROVE DraftOf(t)'
  BY <1>13 DEF DraftOf, Committing, Commit, EndTransaction
<1>14. ASSUME NEW t \in Tasks, Abandon(t) PROVE DraftOf(t)'
  BY <1>14 DEF DraftOf, Committing, Abandon, Leave
<1>16. ASSUME NEW t \in Tasks, Acknowledge(t) PROVE DraftOf(t)'
  BY <1>16 DEF DraftOf, Committing, Acknowledge
<1>17. ASSUME NEW t \in Tasks, Settle(t) PROVE DraftOf(t)'
  BY <1>17 DEF DraftOf, Committing, Settle, EndTransaction
<1>15. ASSUME UNCHANGED vars PROVE DraftInv'
  BY <1>15 DEF vars, DraftOf, Committing
<1>18. ASSUME NEW t \in Tasks, Acts(t) PROVE DraftInv'
  <2>1. DraftOf(t)'
    BY <1>18, <1>2, <1>3, <1>4, <1>5, <1>6, <1>7, <1>8,
       <1>9, <1>10, <1>11, <1>12, <1>13, <1>14, <1>16, <1>17 DEF Acts, Work
  <2>2. ASSUME NEW p \in Tasks, p # t PROVE DraftOf(p)'
    <3>1. step'[p] = step[p] /\ wire'[p] = wire[p] /\ draft'[p] = draft[p] /\ job'[p] = job[p]
      BY <1>18, <2>2, OneMoves
    <3>2. DraftOf(p)
      OBVIOUS
    <3> QED BY <3>1, <3>2 DEF DraftOf, Committing
  <2> QED BY <2>1, <2>2
<1> QED
  BY <1>15, <1>18 DEF Next, Acts

\* Only a COMMIT that takes effect makes rows visible.
LEMMA StepRows == IInv /\ [Next]_vars => RowsInv'
<1> SUFFICES ASSUME IInv, [Next]_vars PROVE RowsInv'
  OBVIOUS
<1>0. TypeOK /\ TypeOK'
  BY StepType DEF IInv
<1> USE <1>0, ExecutionAssumption, NoneIsNoJob DEF IInv, TypeOK, WireInv, RowsInv, Go, Working
<1>2. ASSUME NEW t \in Tasks, NEW j \in Jobs, Submit(t, j) PROVE RowsInv'
  BY <1>2 DEF Submit
<1>3. ASSUME NEW t \in Tasks, RejectRequest(t) PROVE RowsInv'
  BY <1>3 DEF RejectRequest
<1>4. ASSUME NEW t \in Tasks, Begin(t) PROVE RowsInv'
  BY <1>4 DEF Begin
<1>5. ASSUME NEW t \in Tasks, NoConnection(t) PROVE RowsInv'
  BY <1>5 DEF NoConnection
<1>6. ASSUME NEW t \in Tasks, CreateWithHistory(t) PROVE RowsInv'
  BY <1>6 DEF CreateWithHistory, Leave
<1>7. ASSUME NEW t \in Tasks, GetOrCreateQuota(t) PROVE RowsInv'
  BY <1>7 DEF GetOrCreateQuota
<1>8. ASSUME NEW t \in Tasks, Refuse(t) PROVE RowsInv'
  BY <1>8 DEF Refuse, Leave
<1>9. ASSUME NEW t \in Tasks, WithinQuota(t) PROVE RowsInv'
  BY <1>9 DEF WithinQuota
<1>10. ASSUME NEW t \in Tasks, UpdateUsage(t) PROVE RowsInv'
  BY <1>10 DEF UpdateUsage
<1>11. ASSUME NEW t \in Tasks, CreateAnchor(t) PROVE RowsInv'
  BY <1>11 DEF CreateAnchor
<1>12. ASSUME NEW t \in Tasks, UpdateStatus(t) PROVE RowsInv'
  BY <1>12 DEF UpdateStatus
<1>13. ASSUME NEW t \in Tasks, Commit(t) PROVE RowsInv'
  <2>1. draft[t] # NoRows /\ wire[t] = "nothing"
    BY <1>13, AboutToEnter DEF Commit, Committing
  <2> QED BY <1>13, <2>1 DEF Commit, TakeEffect
<1>14. ASSUME NEW t \in Tasks, Abandon(t) PROVE RowsInv'
  <2>1. CASE step[t] = "Commit"
    <3>1. rows[t] = NoRows
      BY <2>1, AboutToEnter DEF Committing
    <3> QED BY <1>14, <2>1, <3>1 DEF Abandon, Leave
  <2>2. CASE step[t] = "Committed"
    BY <1>14, <2>2 DEF Abandon, Leave
  <2>3. CASE step[t] \notin {"Commit", "Committed"}
    BY <1>14, <2>3 DEF Abandon, Leave
  <2> QED BY <2>1, <2>2, <2>3
<1>16. ASSUME NEW t \in Tasks, Acknowledge(t) PROVE RowsInv'
  BY <1>16 DEF Acknowledge
<1>17. ASSUME NEW t \in Tasks, Settle(t) PROVE RowsInv'
  BY <1>17 DEF Settle, TakeEffect
<1>15. CASE UNCHANGED vars
  BY <1>15 DEF vars
<1> QED
  BY <1>2, <1>3, <1>4, <1>5, <1>6, <1>7, <1>8,
     <1>9, <1>10, <1>11, <1>12, <1>13, <1>14, <1>15, <1>16, <1>17 DEF Next, Work

\* The effect of a COMMIT is a complete route, within the limit.
LEMMA EnteringIsVisible ==
  ASSUME IInv, NEW t \in Tasks, Committing(t), TakeEffect(t), job' = job
  PROVE  (WithinLimit /\ AllOrNothing)'
<1>1. WithinLimit'
  BY AboutToEnter, ExecutionAssumption
  DEF TakeEffect, IInv, TypeOK, WithinLimit, Usage
<1>2. rows'[t] = draft[t]
  BY DEF TakeEffect, IInv, TypeOK
<1>3. Complete(t)'
  BY <1>2, AboutToEnter DEF Complete, Draft
<1>4. \A p \in Tasks : p # t => rows'[p] = rows[p]
  BY DEF TakeEffect, IInv, TypeOK
<1>5. \A p \in Tasks : p # t => (rows'[p] = NoRows \/ Complete(p)')
  BY <1>4 DEF IInv, AllOrNothing, Complete
<1> QED BY <1>1, <1>3, <1>5 DEF AllOrNothing

\* What becomes visible is complete and within the limit.
LEMMA StepVisible == IInv /\ [Next]_vars => (WithinLimit /\ AllOrNothing)'
<1> SUFFICES ASSUME IInv, [Next]_vars PROVE (WithinLimit /\ AllOrNothing)'
  OBVIOUS
<1>0. TypeOK /\ TypeOK'
  BY StepType DEF IInv
<1> USE <1>0, ExecutionAssumption, NoneIsNoJob DEF IInv, TypeOK, WireInv, RowsInv,
      WithinLimit, AllOrNothing, Complete, Usage, Go, Working
<1>2. ASSUME NEW t \in Tasks, NEW j \in Jobs, Submit(t, j) PROVE (WithinLimit /\ AllOrNothing)'
  BY <1>2 DEF Submit
<1>3. ASSUME NEW t \in Tasks, RejectRequest(t) PROVE (WithinLimit /\ AllOrNothing)'
  BY <1>3 DEF RejectRequest
<1>4. ASSUME NEW t \in Tasks, Begin(t) PROVE (WithinLimit /\ AllOrNothing)'
  BY <1>4 DEF Begin
<1>5. ASSUME NEW t \in Tasks, NoConnection(t) PROVE (WithinLimit /\ AllOrNothing)'
  BY <1>5 DEF NoConnection
<1>6. ASSUME NEW t \in Tasks, CreateWithHistory(t) PROVE (WithinLimit /\ AllOrNothing)'
  BY <1>6 DEF CreateWithHistory, Leave
<1>7. ASSUME NEW t \in Tasks, GetOrCreateQuota(t) PROVE (WithinLimit /\ AllOrNothing)'
  BY <1>7 DEF GetOrCreateQuota
<1>8. ASSUME NEW t \in Tasks, Refuse(t) PROVE (WithinLimit /\ AllOrNothing)'
  BY <1>8 DEF Refuse, Leave
<1>9. ASSUME NEW t \in Tasks, WithinQuota(t) PROVE (WithinLimit /\ AllOrNothing)'
  BY <1>9 DEF WithinQuota
<1>10. ASSUME NEW t \in Tasks, UpdateUsage(t) PROVE (WithinLimit /\ AllOrNothing)'
  BY <1>10 DEF UpdateUsage
<1>11. ASSUME NEW t \in Tasks, CreateAnchor(t) PROVE (WithinLimit /\ AllOrNothing)'
  BY <1>11 DEF CreateAnchor
<1>12. ASSUME NEW t \in Tasks, UpdateStatus(t) PROVE (WithinLimit /\ AllOrNothing)'
  BY <1>12 DEF UpdateStatus
<1>13. ASSUME NEW t \in Tasks, Commit(t) PROVE (WithinLimit /\ AllOrNothing)'
  BY <1>13, EnteringIsVisible DEF Commit, Committing
<1>14. ASSUME NEW t \in Tasks, Abandon(t) PROVE (WithinLimit /\ AllOrNothing)'
  BY <1>14 DEF Abandon, Leave
<1>16. ASSUME NEW t \in Tasks, Acknowledge(t) PROVE (WithinLimit /\ AllOrNothing)'
  BY <1>16 DEF Acknowledge
<1>17. ASSUME NEW t \in Tasks, Settle(t) PROVE (WithinLimit /\ AllOrNothing)'
  <2>1. CASE wire[t] = "COMMIT" /\ TakeEffect(t)
    BY <1>17, <2>1, EnteringIsVisible DEF Settle, Committing
  <2>2. CASE UNCHANGED <<rows, quota>>
    BY <1>17, <2>2 DEF Settle
  <2> QED BY <1>17, <2>1, <2>2 DEF Settle
<1>15. CASE UNCHANGED vars
  BY <1>15 DEF vars
<1> QED
  BY <1>2, <1>3, <1>4, <1>5, <1>6, <1>7, <1>8,
     <1>9, <1>10, <1>11, <1>12, <1>13, <1>14, <1>15, <1>16, <1>17 DEF Next, Work

\* The invariant holds in every behaviour.
LEMMA Inductive == Spec => []IInv
<1>1. IInv /\ [Next]_vars => IInv'
  BY StepType, StepWire, StepLock, StepSeen, StepDraft, StepRows, StepVisible DEF IInv
<1> QED BY InitIInv, <1>1, PTL DEF Spec

\* However many requests of a user run at once, the usage on record never
\* passes the limit that db/service.rs:40 checks in each of them.
THEOREM LimitHolds == Spec => []WithinLimit
<1>1. IInv => WithinLimit
  BY DEF IInv
<1> QED BY Inductive, <1>1, PTL

\* A route, its history and its anchor transaction become visible together
\* or not at all, whatever fails and whenever (db/service.rs:102).
THEOREM RoutesAreAtomic == Spec => []AllOrNothing
<1>1. IInv => AllOrNothing
  BY DEF IInv
<1> QED BY Inductive, <1>1, PTL

\* What the ledger sees of a call in a state of the transaction.
Used    == [u \in Users |-> Usage(u)]
Entered == {t \in Tasks : rows[t] # NoRows}
Answers == [t \in Tasks |-> Told(step[t])]

\* The effect of a COMMIT is the ledger's step, whether the caller still waits
\* for the answer or was told that the call failed.
LEMMA EnteringExecutes ==
  ASSUME IInv, NEW t \in Tasks, Committing(t), TakeEffect(t), job' = job,
         Answers' = Answers, Answers[t] \in {"none", "failed"}
  PROVE  Ledger!Execute(t)
<1>1. Ledger!Fits(job[t])
  BY AboutToEnter DEF Ledger!Fits
<1>2. Used' = [Used EXCEPT ![job[t].user] = seen[t]]
  BY AboutToEnter, ExecutionAssumption DEF TakeEffect, Used, Usage, IInv, TypeOK
<1>3. Used[job[t].user] = Usage(job[t].user)
  BY AboutToEnter DEF Used
<1>4. Entered' = Entered \cup {t} /\ t \notin Entered
  BY AboutToEnter DEF TakeEffect, Entered, IInv, TypeOK
<1>5. Ledger!ToCents(Used[job[t].user] + job[t].fee) = seen[t]
  BY <1>3, AboutToEnter DEF ToCents, Cent, Ledger!ToCents, Ledger!Cent
<1> QED BY <1>1, <1>2, <1>4, <1>5, AboutToEnter
        DEF Ledger!Execute, Used, Entered, Answers

\* The transaction implements the one-step ledger: every step is one of its
\* steps, or changes nothing that a caller or another request can see.  A COMMIT
\* that takes effect after the caller was told of a failure is one of them.
THEOREM ExecutionImplementsLedger == Spec => ImplementsLedger
<1>1. Init => Ledger!Init
  BY DEF Init, Ledger!Init, Usage, Told
<1>2. IInv /\ [Next]_vars => [Ledger!Next]_(Ledger!vars)
  <2> SUFFICES ASSUME IInv, [Next]_vars PROVE [Ledger!Next]_(Ledger!vars)
    OBVIOUS
  <2>0. TypeOK /\ TypeOK'
    BY StepType DEF IInv
  <2> USE <2>0, ExecutionAssumption, NoneIsNoJob DEF TypeOK, Ledger!vars, Go
  <2>2. ASSUME NEW t \in Tasks, NEW j \in Jobs, Submit(t, j)
        PROVE  Ledger!Ask(t, j)
    BY <2>2 DEF Submit, Usage, Told, IInv, Ledger!Ask
  <2>3. ASSUME NEW t \in Tasks, Begin(t) PROVE UNCHANGED Ledger!vars
    BY <2>3 DEF Begin, Usage, Told
  <2>4. ASSUME NEW t \in Tasks, CreateWithHistory(t) PROVE [Ledger!Next]_(Ledger!vars)
    <3>1. CASE NumericDecodes
      BY <2>4, <3>1 DEF CreateWithHistory, Usage, Told
    <3>2. CASE ~NumericDecodes
      <4>1. Ledger!Fail(t)
        <5>1. step[t] = "Insert" /\ step' = [step EXCEPT ![t] = "Failed"]
          BY <2>4, <3>2 DEF CreateWithHistory, Leave
        <5>2. UNCHANGED <<rows, quota, job>>
          BY <2>4, <3>2 DEF CreateWithHistory, Leave
        <5> QED BY <5>1, <5>2 DEF Usage, Told, Ledger!Fail
      <4> QED BY <4>1 DEF Ledger!Next
    <3> QED BY <3>1, <3>2
  <2>5. ASSUME NEW t \in Tasks, GetOrCreateQuota(t) PROVE UNCHANGED Ledger!vars
    BY <2>5 DEF GetOrCreateQuota, Usage, Told
  <2>6. ASSUME NEW t \in Tasks, WithinQuota(t) PROVE UNCHANGED Ledger!vars
    BY <2>6 DEF WithinQuota, Usage, Told
  <2>7. ASSUME NEW t \in Tasks, UpdateUsage(t) PROVE UNCHANGED Ledger!vars
    BY <2>7 DEF UpdateUsage, Usage, Told
  <2>8. ASSUME NEW t \in Tasks, CreateAnchor(t) PROVE UNCHANGED Ledger!vars
    BY <2>8 DEF CreateAnchor, Usage, Told
  <2>9. ASSUME NEW t \in Tasks, UpdateStatus(t) PROVE UNCHANGED Ledger!vars
    BY <2>9 DEF UpdateStatus, Usage, Told
  <2>10. ASSUME NEW t \in Tasks, RejectRequest(t) PROVE Ledger!Fail(t)
    BY <2>10 DEF RejectRequest, Usage, Told, Working, Ledger!Fail
  <2>11. ASSUME NEW t \in Tasks, NoConnection(t) PROVE Ledger!Fail(t)
    BY <2>11 DEF NoConnection, Usage, Told, Working, Ledger!Fail
  <2>12. ASSUME NEW t \in Tasks, Abandon(t) PROVE Ledger!Fail(t)
    BY <2>12 DEF Abandon, Leave, Usage, Told, Working, Ledger!Fail
  <2>13. ASSUME NEW t \in Tasks, Refuse(t) PROVE Ledger!Refuse(t)
    <3>1. step[t] = "Check" /\ rows[t] = NoRows
      BY <2>13 DEF Refuse, IInv, RowsInv
    <3>2. /\ job[t].user \in Users /\ job[t].fee \in Nat /\ Usage(job[t].user) \in Nat
          /\ seen[t] = Usage(job[t].user) /\ seen[t] + job[t].fee > Limit
          /\ job[t] # None
      BY <2>13, <3>1, AtWork DEF Refuse, Working, IInv, SeenInv, Over
    <3>3. ~Ledger!Fits(job[t])
      BY <3>2 DEF Ledger!Fits
    <3>4. Answers[t] = "none" /\ Answers' = [Answers EXCEPT ![t] = "refused"]
      BY <2>13, <3>1 DEF Refuse, Leave, Told, Answers
    <3>5. UNCHANGED <<Used, job, Entered>> /\ t \notin Entered
      BY <2>13, <3>1 DEF Refuse, Leave, Used, Entered, Usage
    <3> QED BY <3>2, <3>3, <3>4, <3>5
            DEF Ledger!Refuse, Used, Entered, Answers
  <2>14. ASSUME NEW t \in Tasks, Commit(t) PROVE Ledger!Execute(t)
    <3>1. Answers' = Answers /\ Answers[t] = "none"
      BY <2>14 DEF Commit, Answers, Told
    <3> QED BY <2>14, <3>1, EnteringExecutes DEF Commit, Committing
  <2>19. ASSUME NEW t \in Tasks, Acknowledge(t) PROVE Ledger!Confirm(t)
    <3>1. rows[t] # NoRows
      BY <2>19 DEF Acknowledge, IInv, RowsInv
    <3>2. Answers[t] = "none" /\ Answers' = [Answers EXCEPT ![t] = "ok"]
      BY <2>19 DEF Acknowledge, Answers, Told
    <3> QED BY <2>19, <3>1, <3>2 DEF Acknowledge, Ledger!Confirm, Answers, Usage
  <2>20. ASSUME NEW t \in Tasks, Settle(t) PROVE [Ledger!Execute(t)]_(Ledger!vars)
    <3>1. CASE wire[t] = "COMMIT" /\ TakeEffect(t)
      <4>1. Answers' = Answers
        BY <2>20 DEF Settle, Answers
      <4>2. Answers[t] = "failed"
        BY <3>1 DEF IInv, WireInv, Answers, Told
      <4>3. Ledger!Execute(t)
        BY <2>20, <3>1, <4>1, <4>2, EnteringExecutes DEF Settle, Committing
      <4> QED BY <4>3
    <3>2. CASE UNCHANGED <<rows, quota>>
      BY <2>20, <3>2 DEF Settle, Usage, Told
    <3> QED BY <2>20, <3>1, <3>2 DEF Settle
  <2>15. CASE UNCHANGED vars
    BY <2>15 DEF vars, Usage, Told
  <2> HIDE DEF Ledger!vars
  <2>16. ASSUME NEW t \in Tasks, NEW j \in Jobs, Submit(t, j)
         PROVE  [Ledger!Next]_(Ledger!vars)
    <3>1. j \in Ledger!Jobs
      BY DEF Jobs, Anchors, Ledger!Jobs
    <3> QED BY <2>2, <2>16, <3>1 DEF Ledger!Next
  <2>17. ASSUME NEW t \in Tasks, Work(t) PROVE [Ledger!Next]_(Ledger!vars)
    <3>1. CASE Refuse(t) \/ Commit(t) \/ Acknowledge(t)
      BY <3>1, <2>13, <2>14, <2>19 DEF Ledger!Next
    <3>2. CASE Settle(t)
      BY <3>2, <2>20 DEF Ledger!Next
    <3>3. CASE ~(Refuse(t) \/ Commit(t) \/ Acknowledge(t) \/ Settle(t))
      BY <2>17, <3>3, <2>3, <2>4, <2>5, <2>6, <2>7, <2>8, <2>9 DEF Work
    <3> QED BY <3>1, <3>2, <3>3
  <2>18. ASSUME NEW t \in Tasks, RejectRequest(t) \/ NoConnection(t) \/ Abandon(t)
         PROVE  [Ledger!Next]_(Ledger!vars)
    BY <2>10, <2>11, <2>12, <2>18 DEF Ledger!Next
  <2> QED BY <2>15, <2>16, <2>17, <2>18 DEF Next
<1> QED BY <1>1, <1>2, Inductive, PTL DEF Spec, ImplementsLedger, Ledger!Spec
-----------------------------------------------------------------------------
(* Sums.  SumFunctionOnSet folds a function over a finite set, in an order  *)
(* the library leaves open; here it is seen not to depend on that order.    *)

\* The element that the library's fold takes first.
Pick(s) == CHOOSE x \in s : TRUE

\* The subsets of S of at most n elements.
Level(S, n)    == {s \in SUBSET S : Cardinality(s) <= n}

\* g folds the sum of f over every member of D.
Folds(g, D, f) == g = [s \in D |-> IF s = {} THEN 0 ELSE f[Pick(s)] + g[s \ {Pick(s)}]]

\* The least counterexample, which stands in for induction below.
LEMMA LessThanDescends ==
  ASSUME NEW T, T \subseteq Nat, T # {}
  PROVE  \E x \in T : \A y \in T : ~(y < x)
<1>1. \E x \in T : \A y \in T : ~(<<y, x>> \in OpToRel(<, Nat))
  BY WFMin, NatLessThanWellFounded
<1> QED BY <1>1 DEF OpToRel

\* What is left after the first element is smaller by one.
LEMMA Picked ==
  ASSUME NEW s, s # {}, IsFiniteSet(s)
  PROVE  /\ Pick(s) \in s /\ IsFiniteSet(s \ {Pick(s)})
         /\ Cardinality(s) \in Nat \ {0}
         /\ Cardinality(s \ {Pick(s)}) = Cardinality(s) - 1
<1>1. Pick(s) \in s
  BY DEF Pick
<1>2. Cardinality(s) \in Nat /\ Cardinality(s) # 0
  BY FS_CardinalityType, FS_EmptySet
<1> QED BY <1>1, <1>2, FS_RemoveElement

\* The recursion of the fold has a solution: level by level, up to the whole set.
LEMMA FoldExists ==
  ASSUME NEW S, IsFiniteSet(S), NEW f
  PROVE  \E g : Folds(g, SUBSET S, f)
<1> DEFINE Bad == {n \in Nat : ~ \E g : Folds(g, Level(S, n), f)}
<1>0. \A s \in SUBSET S : IsFiniteSet(s) /\ Cardinality(s) \in Nat
  BY FS_Subset, FS_CardinalityType
<1>1. 0 \notin Bad
  <2>1. \A s \in Level(S, 0) : s = {}
    BY <1>0, FS_EmptySet DEF Level
  <2>2. Folds([s \in Level(S, 0) |-> 0], Level(S, 0), f)
    BY <2>1 DEF Folds
  <2> QED BY <2>2
<1>2. ASSUME NEW n \in Nat, n + 1 \in Bad PROVE n \in Bad
  <2> SUFFICES ASSUME NEW g, Folds(g, Level(S, n), f) PROVE FALSE
    OBVIOUS
  <2> DEFINE h == [s \in Level(S, n + 1) |->
                     IF s = {} THEN 0 ELSE f[Pick(s)] + g[s \ {Pick(s)}]]
  <2>1. Level(S, n) \subseteq Level(S, n + 1)
    BY <1>0 DEF Level
  <2>2. \A s \in Level(S, n) : h[s] = g[s]
    BY <2>1 DEF Folds
  <2>3. \A s \in Level(S, n + 1) : s # {} => s \ {Pick(s)} \in Level(S, n)
    BY <1>0, Picked DEF Level
  <2>4. Folds(h, Level(S, n + 1), f)
    BY <2>2, <2>3 DEF Folds
  <2> QED BY <1>2, <2>4
<1>3. Bad = {}
  <2> SUFFICES ASSUME Bad # {} PROVE FALSE
    OBVIOUS
  <2>1. PICK n \in Bad : \A m \in Bad : ~(m < n)
    <3>1. Bad \subseteq Nat
      OBVIOUS
    <3> HIDE DEF Bad
    <3> QED BY <3>1, LessThanDescends
  <2>2. n \in Nat
    OBVIOUS
  <2>3. n - 1 \in Nat /\ n - 1 < n /\ (n - 1) + 1 = n
    BY <1>1, <2>1, <2>2
  <2> HIDE DEF Bad
  <2> QED BY <1>2, <2>1, <2>3
<1>4. Cardinality(S) \in Nat
  BY FS_CardinalityType
<1>5. Level(S, Cardinality(S)) = SUBSET S
  BY FS_Subset DEF Level
<1> QED BY <1>3, <1>4, <1>5

\* The solution that the library's fold chooses.
TheFold(S, f) == CHOOSE g : Folds(g, SUBSET S, f)

\* The library's sum is that solution, at the whole set.
LEMMA SumUnfolds ==
  ASSUME NEW S, NEW f
  PROVE SumFunctionOnSet(f, S) = TheFold(S, f)[S]
  BY Zenon DEF SumFunctionOnSet, FoldFunctionOnSet, MapThenFoldSet, TheFold, Folds, Pick

\* The chosen solution does satisfy the recursion.
LEMMA TheFoldFolds ==
  ASSUME NEW S, IsFiniteSet(S), NEW f
  PROVE  Folds(TheFold(S, f), SUBSET S, f)
  BY FoldExists, Zenon DEF TheFold

\* Two folds agree where both are defined.
LEMMA FoldsAgree ==
  ASSUME NEW S, IsFiniteSet(S), NEW T \in SUBSET S, NEW f, NEW f2, \A x \in T : f[x] = f2[x]
  PROVE  SumFunctionOnSet(f2, T) = TheFold(S, f)[T]
<1> DEFINE g == TheFold(S, f)
           h == TheFold(T, f2)
           Bad == {Cardinality(s) : s \in {s \in SUBSET T : g[s] # h[s]}}
<1>0. \A s \in SUBSET T : IsFiniteSet(s) /\ Cardinality(s) \in Nat
  BY FS_Subset, FS_CardinalityType
<1>1. /\ \A s \in SUBSET T : g[s] = IF s = {} THEN 0 ELSE f[Pick(s)] + g[s \ {Pick(s)}]
      /\ \A s \in SUBSET T : h[s] = IF s = {} THEN 0 ELSE f2[Pick(s)] + h[s \ {Pick(s)}]
  <2>1. Folds(g, SUBSET S, f)
    BY TheFoldFolds
  <2>2. Folds(h, SUBSET T, f2)
    BY TheFoldFolds, FS_Subset
  <2> HIDE DEF g, h
  <2> QED BY <2>1, <2>2 DEF Folds
<1> HIDE DEF g, h
<1>2. ASSUME NEW s \in SUBSET T, g[s] # h[s]
      PROVE  \E r \in SUBSET T : g[r] # h[r] /\ Cardinality(r) < Cardinality(s)
  <2>1. s # {}
    BY <1>1, <1>2
  <2>2. /\ Pick(s) \in s /\ Cardinality(s) \in Nat
        /\ Cardinality(s \ {Pick(s)}) = Cardinality(s) - 1
    BY <1>0, <2>1, Picked
  <2>3. g[s \ {Pick(s)}] # h[s \ {Pick(s)}]
    BY <1>1, <1>2, <2>1, <2>2
  <2> QED BY <2>2, <2>3
<1>3. Bad = {}
  <2> SUFFICES ASSUME Bad # {} PROVE FALSE
    OBVIOUS
  <2>1. Bad \subseteq Nat
    BY <1>0
  <2>2. PICK n \in Bad : \A m \in Bad : ~(m < n)
    <3> HIDE DEF Bad
    <3> QED BY <2>1, LessThanDescends
  <2> QED BY <1>2, <2>2
<1>4. g[T] = h[T]
  BY <1>3
<1> QED BY <1>4, SumUnfolds DEF g, h

\* Functions that agree on a set have the same sum over it.
LEMMA SumSame ==
  ASSUME NEW S, IsFiniteSet(S), NEW f, NEW f2, \A x \in S : f[x] = f2[x]
  PROVE  SumFunctionOnSet(f2, S) = SumFunctionOnSet(f, S)
<1>1. SumFunctionOnSet(f2, S) = TheFold(S, f)[S]
  BY FoldsAgree
<1> QED BY <1>1, SumUnfolds

\* The sum over a set with one element more.
LEMMA SumPick ==
  ASSUME NEW S, IsFiniteSet(S), S # {}, NEW f
  PROVE  SumFunctionOnSet(f, S) = f[Pick(S)] + SumFunctionOnSet(f, S \ {Pick(S)})
<1>1. Folds(TheFold(S, f), SUBSET S, f)
  BY TheFoldFolds
<1>2. TheFold(S, f)[S] = f[Pick(S)] + TheFold(S, f)[S \ {Pick(S)}]
  BY <1>1 DEF Folds
<1>3. TheFold(S, f)[S \ {Pick(S)}] = SumFunctionOnSet(f, S \ {Pick(S)})
  BY FoldsAgree
<1> QED BY <1>2, <1>3, SumUnfolds

\* The sum over nothing.
LEMMA SumEmpty == \A f : SumFunctionOnSet(f, {}) = 0
<1> TAKE f
<1>1. Folds(TheFold({}, f), SUBSET {}, f)
  BY TheFoldFolds, FS_EmptySet
<1>2. TheFold({}, f)[{}] = 0
  BY <1>1 DEF Folds
<1> QED BY <1>2, SumUnfolds

\* A sum of integers is an integer.
LEMMA SumIsInt ==
  ASSUME NEW S, IsFiniteSet(S), NEW f, \A x \in S : f[x] \in Int
  PROVE  SumFunctionOnSet(f, S) \in Int
<1> DEFINE Bad == {Cardinality(s) : s \in {s \in SUBSET S : SumFunctionOnSet(f, s) \notin Int}}
<1>0. \A s \in SUBSET S : IsFiniteSet(s) /\ Cardinality(s) \in Nat
  BY FS_Subset, FS_CardinalityType
<1>1. ASSUME NEW s \in SUBSET S, SumFunctionOnSet(f, s) \notin Int
      PROVE  \E r \in SUBSET S : SumFunctionOnSet(f, r) \notin Int /\ Cardinality(r) < Cardinality(s)
  <2>1. s # {}
    BY <1>1, SumEmpty
  <2>2. /\ Pick(s) \in s /\ Cardinality(s) \in Nat
        /\ Cardinality(s \ {Pick(s)}) = Cardinality(s) - 1
    BY <1>0, <2>1, Picked
  <2>3. SumFunctionOnSet(f, s) = f[Pick(s)] + SumFunctionOnSet(f, s \ {Pick(s)})
    BY <1>0, <2>1, SumPick
  <2>4. SumFunctionOnSet(f, s \ {Pick(s)}) \notin Int
    BY <1>1, <2>2, <2>3
  <2> QED BY <2>2, <2>4
<1>2. Bad = {}
  <2> SUFFICES ASSUME Bad # {} PROVE FALSE
    OBVIOUS
  <2>1. Bad \subseteq Nat
    BY <1>0
  <2>2. PICK n \in Bad : \A m \in Bad : ~(m < n)
    <3> HIDE DEF Bad
    <3> QED BY <2>1, LessThanDescends
  <2> QED BY <1>1, <2>2
<1> QED BY <1>2

\* Whatever order the elements are picked in.
LEMMA SumAdd ==
  ASSUME NEW S, IsFiniteSet(S), NEW f, \A x \in S : f[x] \in Int, NEW a \in S
  PROVE  SumFunctionOnSet(f, S) = f[a] + SumFunctionOnSet(f, S \ {a})
<1> DEFINE Odd(s, x) == SumFunctionOnSet(f, s) # f[x] + SumFunctionOnSet(f, s \ {x})
           Bad == {Cardinality(s) : s \in {s \in SUBSET S : \E x \in s : Odd(s, x)}}
<1>0. \A s \in SUBSET S : /\ IsFiniteSet(s) /\ Cardinality(s) \in Nat
                        /\ SumFunctionOnSet(f, s) \in Int
  <2>1. \A s \in SUBSET S : IsFiniteSet(s) /\ Cardinality(s) \in Nat
    BY FS_Subset, FS_CardinalityType
  <2> QED BY <2>1, SumIsInt
<1>1. ASSUME NEW s \in SUBSET S, NEW x \in s, Odd(s, x)
      PROVE  \E r \in SUBSET S : (\E y \in r : Odd(r, y)) /\ Cardinality(r) < Cardinality(s)
  <2> DEFINE p == Pick(s)
  <2>1. /\ p \in s /\ Cardinality(s) \in Nat
        /\ Cardinality(s \ {p}) = Cardinality(s) - 1
    BY <1>0, Picked
  <2>2. SumFunctionOnSet(f, s) = f[p] + SumFunctionOnSet(f, s \ {p})
    BY <1>0, SumPick
  <2> HIDE DEF p
  <2>3. x # p
    BY <1>1, <2>2
  <2>4. s \ {p} \in SUBSET S /\ s \ {x} \in SUBSET S /\ (s \ {p}) \ {x} \in SUBSET S
    OBVIOUS
  <2>5. (s \ {p}) \ {x} = (s \ {x}) \ {p}
    OBVIOUS
  <2>6. Cardinality(s \ {x}) = Cardinality(s) - 1
    BY <1>0, FS_RemoveElement
  <2>a. Cardinality(s \ {p}) < Cardinality(s) /\ Cardinality(s \ {x}) < Cardinality(s)
    BY <2>1, <2>6
  <2>b. x \in s \ {p} /\ p \in s \ {x}
    BY <2>1, <2>3
  <2>7. CASE Odd(s \ {p}, x)
    <3> HIDE DEF Odd
    <3> QED BY <2>4, <2>7, <2>a, <2>b
  <2>8. CASE Odd(s \ {x}, p)
    <3> HIDE DEF Odd
    <3> QED BY <2>4, <2>8, <2>a, <2>b
  <2>9. CASE ~Odd(s \ {p}, x) /\ ~Odd(s \ {x}, p)
    <3>1. SumFunctionOnSet(f, s \ {p}) = f[x] + SumFunctionOnSet(f, (s \ {p}) \ {x})
      BY <2>9
    <3>2. SumFunctionOnSet(f, s \ {x}) = f[p] + SumFunctionOnSet(f, (s \ {p}) \ {x})
      BY <2>5, <2>9
    <3>3. f[p] \in Int /\ f[x] \in Int
      BY <2>1
    <3>5. SumFunctionOnSet(f, (s \ {p}) \ {x}) \in Int
      BY <1>0, <2>1, <2>4
    <3>4. SumFunctionOnSet(f, s) = f[x] + SumFunctionOnSet(f, s \ {x})
      BY <2>2, <3>1, <3>2, <3>3, <3>5
    <3> QED BY <1>1, <3>4
  <2> QED BY <2>7, <2>8, <2>9
<1>2. Bad = {}
  <2> SUFFICES ASSUME Bad # {} PROVE FALSE
    OBVIOUS
  <2>1. Bad \subseteq Nat
    BY <1>0
  <2>2. PICK n \in Bad : \A m \in Bad : ~(m < n)
    <3> HIDE DEF Bad
    <3> QED BY <2>1, LessThanDescends
  <2>3. PICK s \in SUBSET S : (\E x \in s : Odd(s, x)) /\ Cardinality(s) = n
    BY <2>2
  <2>4. PICK r \in SUBSET S : (\E y \in r : Odd(r, y)) /\ Cardinality(r) < n
    BY <1>1, <2>3
  <2> QED BY <2>2, <2>4
<1> QED BY <1>2

-----------------------------------------------------------------------------
(* Usage and fees.                                                          *)

\* The bound on the usage needs the sums to be over finite sets.
Follows ==
  /\ \A u \in Users : IsFiniteSet(EnteredFor(u, Tasks))
  /\ UsageFollowsRoutes

\* Rounding moves an amount by at most half a cent.
LEMMA RoundingIsHalfACent == \A x \in Nat : 2 * Distance(ToCents(x), x) <= Cent
  BY DEF Distance, ToCents, Cent

\* Errors of one charge add up to at most those of the charges.
LEMMA ErrorsAdd ==
  ASSUME NEW x \in Int, NEW c \in Int, NEW fee \in Int, NEW y \in Int, NEW n \in Int,
         2 * Distance(x, c) <= Cent * n, 2 * Distance(y, x + fee) <= Cent
  PROVE  2 * Distance(y, fee + c) <= Cent * (n + 1)
  BY DEF Distance, Cent

\* What a user's committed routes cost is a number.
LEMMA ChargedIsInt ==
  ASSUME IInv, Follows, NEW u \in Users
  PROVE  /\ \A t \in EnteredFor(u, Tasks) : job[t].fee \in Int
         /\ Charged(u, Tasks) \in Int
<1> DEFINE f == [t \in EnteredFor(u, Tasks) |-> job[t].fee]
<1>1. \A t \in EnteredFor(u, Tasks) : job[t].fee \in Int
  <2> SUFFICES ASSUME NEW t \in EnteredFor(u, Tasks) PROVE job[t].fee \in Int
    OBVIOUS
  <2>1. t \in Tasks /\ step[t] \in {"Committed", "Ok", "Failed"}
    BY DEF EnteredFor, IInv, RowsInv
  <2>2. job[t] \in Jobs
    BY <2>1 DEF IInv, TypeOK
  <2>3. job[t].fee \in Fees
    BY <2>2 DEF Jobs
  <2>4. job[t].fee \in Nat
    BY <2>3, ExecutionAssumption
  <2> QED BY <2>4
<1>2. SumFunctionOnSet(f, EnteredFor(u, Tasks)) \in Int
  BY <1>1, SumIsInt DEF Follows
<1>3. DOMAIN f = EnteredFor(u, Tasks)
  OBVIOUS
<1> QED BY <1>1, <1>2, <1>3 DEF Charged, SumFunction

\* Steps that enter no route leave usage and fees alone.
LEMMA NothingEntered ==
  ASSUME Follows, rows' = rows, quota' = quota,
         \A t \in Tasks : rows[t] # NoRows => job'[t] = job[t]
  PROVE  Follows'
<1>1. ASSUME NEW u \in Users
      PROVE  /\ EnteredFor(u, Tasks)' = EnteredFor(u, Tasks)
             /\ Charged(u, Tasks)' = Charged(u, Tasks)
             /\ Usage(u)' = Usage(u)
  <2>1. EnteredFor(u, Tasks)' = EnteredFor(u, Tasks)
    BY DEF EnteredFor
  <2>2. \A t \in EnteredFor(u, Tasks) : job'[t] = job[t]
    BY DEF EnteredFor
  <2>3. [t \in EnteredFor(u, Tasks)' |-> job'[t].fee] = [t \in EnteredFor(u, Tasks) |-> job[t].fee]
    BY <2>1, <2>2
  <2> QED BY <2>1, <2>3 DEF Charged, Usage
<1> QED BY <1>1 DEF Follows, UsageFollowsRoutes

\* A commit enters one route and charges its fee, rounded once.
LEMMA EnteringFollows ==
  ASSUME IInv, Follows, NEW t \in Tasks, Committing(t), TakeEffect(t), job' = job
  PROVE  Follows'
<1>0. rows[t] = NoRows
  BY AboutToEnter
<1>1. PICK u \in Users : u = job[t].user
  BY AboutToEnter
<1> DEFINE E == EnteredFor(u, Tasks)
           f == [p \in E |-> job[p].fee]
           g == [p \in E \cup {t} |-> job[p].fee]
<1>2. /\ job[t].fee \in Nat /\ Usage(u) \in Nat
      /\ seen[t] = ToCents(Usage(u) + job[t].fee) /\ seen[t] \in Nat
  BY <1>1, AboutToEnter
<1>3. rows'[t] # NoRows /\ (\A p \in Tasks : p # t => rows'[p] = rows[p]) /\ job' = job
  BY AboutToEnter DEF TakeEffect, IInv, TypeOK
<1>4. ASSUME NEW w \in Users, w # u
      PROVE  /\ EnteredFor(w, Tasks)' = EnteredFor(w, Tasks)
             /\ Charged(w, Tasks)' = Charged(w, Tasks)
             /\ Usage(w)' = Usage(w)
  <2>1. EnteredFor(w, Tasks)' = EnteredFor(w, Tasks)
    BY <1>0, <1>1, <1>3, <1>4 DEF EnteredFor
  <2>2. Charged(w, Tasks)' = Charged(w, Tasks)
    BY <1>3, <2>1 DEF Charged
  <2>3. Usage(w)' = Usage(w)
    BY <1>1, <1>4 DEF TakeEffect, Usage, IInv, TypeOK
  <2> QED BY <2>1, <2>2, <2>3
<1>5. EnteredFor(u, Tasks)' = E \cup {t} /\ t \notin E
  <2>1. EnteredFor(u, Tasks)' = {p \in Tasks : rows'[p] # NoRows /\ job[p].user = u}
    BY <1>3 DEF EnteredFor
  <2> QED BY <1>0, <1>1, <1>3, <2>1 DEF EnteredFor
<1>6. IsFiniteSet(E) /\ IsFiniteSet(E \cup {t}) /\ Cardinality(E) \in Nat
      /\ Cardinality(E \cup {t}) = Cardinality(E) + 1
  <2>1. IsFiniteSet(E)
    BY <1>2 DEF Follows
  <2> QED BY <1>5, <2>1, FS_AddElement, FS_CardinalityType
<1>7. Charged(u, Tasks) = SumFunctionOnSet(f, E) /\ Charged(u, Tasks) \in Int
      /\ \A p \in E : job[p].fee \in Int
  <2>1. DOMAIN f = E
    OBVIOUS
  <2> QED BY <1>2, <2>1, ChargedIsInt DEF Charged, SumFunction
<1>8. Charged(u, Tasks)' = SumFunctionOnSet(g, E \cup {t})
  <2>1. Charged(u, Tasks)' = SumFunction([p \in EnteredFor(u, Tasks)' |-> job'[p].fee])
    BY <1>3 DEF Charged
  <2>2. [p \in EnteredFor(u, Tasks)' |-> job'[p].fee] = g
    BY <1>3, <1>5
  <2>3. DOMAIN g = E \cup {t}
    OBVIOUS
  <2> HIDE DEF g
  <2> QED BY <2>1, <2>2, <2>3 DEF SumFunction
<1>9. SumFunctionOnSet(g, E \cup {t}) = job[t].fee + SumFunctionOnSet(f, E)
  <2>1. \A p \in E \cup {t} : g[p] = job[p].fee /\ g[p] \in Int
    BY <1>2, <1>7
  <2>2. \A p \in E : f[p] = g[p]
    OBVIOUS
  <2>3. (E \cup {t}) \ {t} = E
    BY <1>5
  <2> HIDE DEF f, g, E
  <2>4. SumFunctionOnSet(g, E \cup {t}) = g[t] + SumFunctionOnSet(g, (E \cup {t}) \ {t})
    BY <1>6, <2>1, SumAdd
  <2>5. SumFunctionOnSet(g, E) = SumFunctionOnSet(f, E)
    BY <1>6, <2>2, SumSame
  <2> QED BY <2>1, <2>3, <2>4, <2>5
<1>10. Usage(u)' = seen[t]
  BY <1>1, <1>2, ExecutionAssumption DEF TakeEffect, Usage, IInv, TypeOK
<1>11. 2 * Distance(Usage(u)', Charged(u, Tasks)') <= Cent * Cardinality(EnteredFor(u, Tasks)')
  <2>1. 2 * Distance(Usage(u), Charged(u, Tasks)) <= Cent * Cardinality(E)
    BY <1>2 DEF Follows, UsageFollowsRoutes
  <2>2. 2 * Distance(seen[t], Usage(u) + job[t].fee) <= Cent
    BY <1>2, RoundingIsHalfACent
  <2>3. Charged(u, Tasks)' = job[t].fee + Charged(u, Tasks)
    BY <1>7, <1>8, <1>9
  <2>4. 2 * Distance(seen[t], job[t].fee + Charged(u, Tasks)) <= Cent * (Cardinality(E) + 1)
    <3> HIDE DEF E
    <3> QED BY <1>2, <1>6, <1>7, <2>1, <2>2, ErrorsAdd
  <2> QED BY <1>5, <1>6, <1>10, <2>3, <2>4
<1>12. ASSUME NEW w \in Users
       PROVE  /\ IsFiniteSet(EnteredFor(w, Tasks)')
              /\ 2 * Distance(Usage(w)', Charged(w, Tasks)') <= Cent * Cardinality(EnteredFor(w, Tasks)')
  <2>1. CASE w = u
    BY <1>5, <1>6, <1>11, <2>1
  <2>2. CASE w # u
    BY <1>4, <2>2 DEF Follows, UsageFollowsRoutes
  <2> QED BY <2>1, <2>2
<1> QED BY <1>12 DEF Follows, UsageFollowsRoutes

\* Every step keeps the usage within its bound.
LEMMA StepFollows == IInv /\ Follows /\ [Next]_vars => Follows'
<1> SUFFICES ASSUME IInv, Follows, [Next]_vars PROVE Follows'
  OBVIOUS
<1> DEFINE Entering(t) == Committing(t) /\ TakeEffect(t) /\ job' = job
<1>1. CASE \E t \in Tasks : Entering(t)
  BY <1>1, EnteringFollows
<1>2. CASE ~ \E t \in Tasks : Entering(t)
  <2>0. \A t \in Tasks : Commit(t) => Entering(t)
    BY DEF Commit, Committing
  <2>1. rows' = rows /\ quota' = quota
    <3>1. \A t \in Tasks : Settle(t) => Entering(t) \/ (rows' = rows /\ quota' = quota)
      BY DEF Settle, Committing
    <3> HIDE DEF Entering
    <3> QED BY <1>2, <2>0, <3>1
        DEF Next, Work, vars, Submit, RejectRequest, NoConnection, Abandon, Leave,
            Begin, CreateWithHistory, GetOrCreateQuota, Refuse, WithinQuota,
            UpdateUsage, CreateAnchor, UpdateStatus, Acknowledge
  <2>2. \A t \in Tasks : rows[t] # NoRows => job'[t] = job[t]
    <3>1. CASE \E t \in Tasks, j \in Jobs : Submit(t, j)
      BY <3>1 DEF Submit, IInv, RowsInv, TypeOK
    <3>2. CASE ~ \E t \in Tasks, j \in Jobs : Submit(t, j)
      <4>1. job' = job
        <5> HIDE DEF Entering
        <5> QED BY <1>2, <2>0, <3>2
            DEF Next, Work, vars, RejectRequest, NoConnection, Abandon, Leave,
                Begin, CreateWithHistory, GetOrCreateQuota, Refuse, WithinQuota,
                UpdateUsage, CreateAnchor, UpdateStatus, Acknowledge, Settle
      <4> QED BY <4>1
    <3> QED BY <3>1, <3>2
  <2> QED BY <2>1, <2>2, NothingEntered
<1> QED BY <1>1, <1>2

\* For any number of requests and fees: what is on record for a user differs
\* from the fees of the committed routes by at most half a cent for each of
\* them, whatever was rolled back, refused or answered to nobody.
THEOREM UsageFollowsFees == Spec => []UsageFollowsRoutes
<1>1. Init => Follows
  <2> SUFFICES ASSUME Init PROVE Follows
    OBVIOUS
  <2>1. \A u \in Users : EnteredFor(u, Tasks) = {} /\ Usage(u) = 0
    BY DEF Init, EnteredFor, Usage
  <2>2. IsFiniteSet({}) /\ Cardinality({}) = 0
    BY FS_EmptySet
  <2>3. \A u \in Users : Charged(u, Tasks) = 0
    <3> TAKE u \in Users
    <3> DEFINE f == [t \in EnteredFor(u, Tasks) |-> job[t].fee]
    <3>1. DOMAIN f = {}
      BY <2>1
    <3>2. Charged(u, Tasks) = SumFunction(f)
      BY DEF Charged
    <3> HIDE DEF f
    <3> QED BY <3>1, <3>2, SumEmpty DEF SumFunction
  <2> QED BY <2>1, <2>2, <2>3 DEF Follows, UsageFollowsRoutes, Distance, Cent
<1>2. IInv /\ Follows /\ [Next]_vars => Follows'
  BY StepFollows
<1>3. Follows => UsageFollowsRoutes
  BY DEF Follows
<1> QED BY <1>1, <1>2, <1>3, Inductive, PTL DEF Spec
=============================================================================
