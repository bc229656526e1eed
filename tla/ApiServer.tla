----------------------------- MODULE ApiServer -----------------------------
(***************************************************************************)
(* The HTTP pipeline of wow-engine/src/api around its handlers: the        *)
(* timeout layer outermost, then the Ed25519 layer of auth.rs, then the    *)
(* body and the handler.  Of the handlers, deposit and withdraw (anchor    *)
(* module sep24.rs) write to the tracker and are modelled whole; the       *)
(* public quote is one wait.  The tracker is also used as a library.       *)
(*                                                                         *)
(* Time is in ticks.  A request's age is measured from the timestamp it    *)
(* was signed with, which may lie in the future.                           *)
(***************************************************************************)
EXTENDS AnchorTracker

CONSTANTS Requests,       \* each is also the id of its transaction
          Callers,        \* of the tracker as a library
          KeyConfigured,  \* SIGNING_PUBLIC_KEY is set
          MaxAge,         \* DEFAULT_MAX_AGE_SECS
          RequestTimeout,
          MaxCrashes      \* bound on crashes

ASSUME ServerAssumption ==
  /\ Calls = Requests \cup Callers /\ Requests \cap Callers = {}
  /\ Ids = Requests /\ "pending" \in Versions
  /\ KeyConfigured \in BOOLEAN
  /\ MaxAge \in Nat /\ RequestTimeout \in Nat \ {0} /\ MaxCrashes \in Nat

VARIABLES req,     \* per request, where it stands
          hasDb,   \* the database was reachable when the process started
          crashes

server == <<req, hasDb, crashes>>
vars   == <<req, hasDb, crashes, tracker>>

Paths      == {"Quote", "Deposit"}
Public     == {"Quote"}
Signatures == {"Missing", "Invalid", "Valid"}
\* "Body": being read; "Planning": in the quote handler; "Storing": in
\* insert_transaction.
Waiting == {"Body", "Planning", "Storing"}
Answers == {"200", "400", "401", "408", "500", "Lost"}
Oldest  == MaxAge + RequestTimeout + 1

InFlight(r)  == req[r].phase \in Waiting
Protected(r) == KeyConfigured /\ req[r].path \notin Public

NotSent == [phase |-> "Idle", path |-> None, signature |-> None, age |-> 0, spent |-> 0]

Init ==
  /\ TrackerInit
  /\ req = [r \in Requests |-> NotSent]
  /\ hasDb \in BOOLEAN /\ crashes = 0

Answer(r, status) == req' = [req EXCEPT ![r].phase = status]

-----------------------------------------------------------------------------
InWindow(age) == age \in -MaxAge..MaxAge

\* verify, up to its await: the headers and the window.
Arrive(r, path, signature, age) ==
  LET passes == \/ path \in Public \/ ~KeyConfigured
                \/ signature # "Missing" /\ InWindow(age)
  IN /\ req[r] = NotSent
     /\ req' = [req EXCEPT ![r] =
          [phase |-> IF passes THEN "Body" ELSE "401", path |-> path,
           signature |-> signature, age |-> age, spent |-> 0]]
     /\ UNCHANGED <<hasDb, crashes, tracker>>

\* The body cannot be read, or the signature does not cover it.
RejectBody(r) ==
  /\ req[r].phase = "Body"
  /\ \/ Protected(r) /\ Answer(r, "401")
     \/ ~Protected(r) /\ Answer(r, "400")
  /\ UNCHANGED <<hasDb, crashes, tracker>>

\* The body is there, and what is in front of the handler lets it through.
Verified(r) == req[r].phase = "Body" /\ (Protected(r) => req[r].signature = "Valid")

\* The checks of a handler on its input, and deposits without a database.
RejectInput(r) ==
  /\ Verified(r)
  /\ \/ Answer(r, "400")
     \/ req[r].path = "Deposit" /\ ~hasDb /\ Answer(r, "500")
  /\ UNCHANGED <<hasDb, crashes, tracker>>

StartQuote(r) ==
  /\ Verified(r) /\ req[r].path = "Quote"
  /\ Answer(r, "Planning")
  /\ UNCHANGED <<hasDb, crashes, tracker>>

EndQuote(r) ==
  /\ req[r].phase = "Planning"
  /\ \E status \in {"200", "400", "500"} : Answer(r, status)
  /\ UNCHANGED <<hasDb, crashes, tracker>>

\* initiate_flow: a fresh id, entered as pending.
StartDeposit(r) ==
  /\ Verified(r) /\ req[r].path = "Deposit" /\ hasDb
  /\ Answer(r, "Storing") /\ BeginInsert(r, r, "pending")
  /\ UNCHANGED <<hasDb, crashes>>

EndDeposit(r) ==
  /\ req[r].phase = "Storing" /\ ~Busy(r)
  /\ Answer(r, IF call[r].phase = "Ok" THEN "200" ELSE "500")
  /\ UNCHANGED <<hasDb, crashes, tracker>>

\* The future of a request is dropped, and with it what it waits for.
Abandon(r, status) ==
  /\ Answer(r, status)
  /\ IF Busy(r) THEN Drop(r) ELSE UNCHANGED tracker
  /\ UNCHANGED <<hasDb, crashes>>

\* Mutant: the timeout layer lies inside the signature layer, which reads
\* the body of a protected request.
TimedInside(r) == InFlight(r) /\ (req[r].phase = "Body" => ~Protected(r))

\* The timeout layer lies around everything.
Timed(r) == InFlight(r)

Due(r) == Timed(r) /\ req[r].spent = RequestTimeout

TimeOut(r)    == Due(r) /\ Abandon(r, "408")
Disconnect(r) == InFlight(r) /\ Abandon(r, "Lost")

\* The timers that are due fire before time passes.
Tick ==
  LET upTo(n, i) == IF i < n THEN i + 1 ELSE i IN
  /\ \A r \in Requests : ~Due(r)
  /\ req' = [r \in Requests |-> IF ~InFlight(r) THEN req[r]
               ELSE [req[r] EXCEPT !.age = upTo(Oldest, @), !.spent = upTo(RequestTimeout, @)]]
  /\ UNCHANGED <<hasDb, crashes, tracker>>

\* The process dies and starts again, with or without the database.
Crash ==
  /\ crashes < MaxCrashes /\ crashes' = crashes + 1
  /\ req' = [r \in Requests |-> IF InFlight(r) THEN [req[r] EXCEPT !.phase = "Lost"] ELSE req[r]]
  /\ hasDb' \in BOOLEAN
  /\ Die

Answered == {r \in Requests : req[r].phase = "200" /\ req[r].path = "Deposit"}

\* A user of the library: it knows the ids that were answered.
UseLibrary(c) ==
  /\ hasDb
  /\ \/ \E r \in Answered :
          \/ \E tx \in Versions : BeginInsert(c, r, tx)
          \/ BeginGet(c, r)
     \/ Drop(c)
  /\ UNCHANGED server

\* Such a user of another engine on the same database.
OtherEngine(r, tx) ==
  /\ r \in Answered /\ UpsertElsewhere(r, tx)
  /\ UNCHANGED server

Next ==
  \/ Tick \/ Crash
  \/ \E r \in Requests :
       \/ \E path \in Paths, signature \in Signatures, age \in -(MaxAge + 1)..(MaxAge + 1) :
            Arrive(r, path, signature, age)
       \/ RejectBody(r) \/ RejectInput(r) \/ StartQuote(r) \/ EndQuote(r)
       \/ StartDeposit(r) \/ EndDeposit(r) \/ TimeOut(r) \/ Disconnect(r)
  \/ \E c \in Callers : UseLibrary(c)
  \/ \E r \in Requests, tx \in Versions : OtherEngine(r, tx)
  \/ \E c \in Calls : Proceed(c) /\ UNCHANGED server
  \/ \E id \in Ids : Expire(id) /\ UNCHANGED server

Spec == Init /\ [][Next]_vars

\* Nothing is assumed of clients, the anchor table or callers: timers fire.
FairSpec == Spec /\ WF_vars(Tick) /\ \A r \in Requests : WF_vars(TimeOut(r))

-----------------------------------------------------------------------------
\* auth.rs:166, auth.rs:18: the window is checked before the body is waited
\* for.  That a signature is never acted upon long after it was made takes
\* the timeout as well.
HandledIsRecent ==
  \A r \in Requests : Protected(r) /\ req[r].phase \in {"Planning", "Storing"} =>
    req[r].signature = "Valid" /\ req[r].age \in -MaxAge..(MaxAge + RequestTimeout)

\* sep24.rs:67: a deposit that was answered with its id is on record, however
\* its request ended and whatever restarted since.
OkIsRecorded ==
  \A r \in Requests : req[r].phase = "200" /\ req[r].path = "Deposit" => row[r] # None

\* api/mod.rs:185: every request is answered, even if its body never arrives
\* and the database never answers.
RequestsEnd == \A r \in Requests : InFlight(r) ~> ~InFlight(r)
=============================================================================
