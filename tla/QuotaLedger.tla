--------------------------- MODULE QuotaLedger ---------------------------
(***************************************************************************)
(* What executing a route promises: one atomic step enters the route with  *)
(* its charge, within the user's limit, once for each call, or nothing     *)
(* happens.  Ok says that the route was entered, Refused that it was not    *)
(* and never will be, for want of room.  Failed says neither: the route may *)
(* have been entered, or may still be, when a COMMIT was under way.         *)
(***************************************************************************)
EXTENDS Integers

CONSTANTS Tasks, Users, Fees, Limit, None

Jobs == [user : Users, fee : Fees, anchor : {"none", "named"}]

\* NUMERIC(18, 2): amounts in units of 1e-8 USD, rounded to whole cents.
Cent == 1000000
ToCents(x) == ((x + 500000) \div Cent) * Cent

VARIABLES used,     \* per user, the usage on record
          request,  \* per call, the job it asks for, or None
          entered,  \* the calls whose route is in the ledger
          answer    \* per call, what its caller was told

vars == <<used, request, entered, answer>>

Init ==
  /\ used = [u \in Users |-> 0]
  /\ request = [t \in Tasks |-> None]
  /\ entered = {}
  /\ answer = [t \in Tasks |-> "none"]

Ask(t, job) ==
  /\ answer[t] = "none" /\ request[t] = None
  /\ request' = [request EXCEPT ![t] = job]
  /\ UNCHANGED <<used, entered, answer>>

Fits(job) == used[job.user] + job.fee <= Limit

Execute(t) ==
  LET job == request[t] IN
  /\ job # None /\ t \notin entered
  /\ answer[t] \in {"none", "failed"}
  /\ Fits(job)
  /\ used' = [used EXCEPT ![job.user] = ToCents(@ + job.fee)]
  /\ entered' = entered \cup {t}
  /\ UNCHANGED <<request, answer>>

Confirm(t) ==
  /\ answer[t] = "none" /\ t \in entered
  /\ answer' = [answer EXCEPT ![t] = "ok"]
  /\ UNCHANGED <<used, request, entered>>

Refuse(t) ==
  /\ answer[t] = "none" /\ request[t] # None /\ t \notin entered
  /\ ~Fits(request[t])
  /\ answer' = [answer EXCEPT ![t] = "refused"]
  /\ UNCHANGED <<used, request, entered>>

Fail(t) ==
  /\ answer[t] = "none"
  /\ answer' = [answer EXCEPT ![t] = "failed"]
  /\ UNCHANGED <<used, request, entered>>

Next ==
  \E t \in Tasks :
    \/ \E job \in Jobs : Ask(t, job)
    \/ Execute(t) \/ Confirm(t) \/ Refuse(t) \/ Fail(t)

Spec == Init /\ [][Next]_vars
=============================================================================
