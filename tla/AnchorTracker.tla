--------------------------- MODULE AnchorTracker ---------------------------
(***************************************************************************)
(* TrackerStore of wow-engine/src/anchor/tracker.rs: the SEP-24            *)
(* transactions in their table, read and written through a cache of the    *)
(* process.  A call yields at its statement and again before it changes    *)
(* the cache; a call that is dropped stops where it is.  Other engines on  *)
(* the same database write the same table, and nothing tells this cache.   *)
(***************************************************************************)
EXTENDS Integers

CONSTANTS Calls,    \* slots for calls of insert_transaction, get_transaction
          Ids,      \* of transactions
          Versions, \* what a transaction may be
          None

ASSUME TrackerAssumption == None \notin Versions /\ None \notin Ids

VARIABLES row,      \* sep24_transactions, None for an id it does not hold
          cache,    \* the moka cache, in the same form
          call,     \* per slot, where its call stands
          disturbed, \* history: ids of which two calls overlapped, of any
                     \* engines, or one stopped with its statement sent
          overtaken  \* history: ids another engine wrote after this one's
                     \* entry was made

tracker == <<row, cache, call, disturbed, overtaken>>

\* "Write", "Read": the statement is sent; "Store", "Fill": it has answered.
\* A call that does not run is "Idle", or ended "Ok", in "Error" or "Lost".
Running == {"Write", "Store", "Read", "Fill"}

At(phase, id, tx) == [phase |-> phase, id |-> id, tx |-> tx]
Ended(phase)      == At(phase, None, None)
Busy(c)           == call[c].phase \in Running

TrackerInit ==
  /\ row = [id \in Ids |-> None] /\ cache = [id \in Ids |-> None]
  /\ call = [c \in Calls |-> Ended("Idle")]
  /\ disturbed = {} /\ overtaken = {}

-----------------------------------------------------------------------------
Pending(id, calls) == \E d \in calls : Busy(d) /\ call[d].id = id

Begin(c, at) ==
  /\ call' = [call EXCEPT ![c] = at]
  /\ disturbed' = disturbed \cup {id \in {at.id} \ {None} : Pending(id, Calls \ {c})}

BeginInsert(c, id, tx) ==
  /\ ~Busy(c) /\ Begin(c, At("Write", id, tx))
  /\ UNCHANGED <<row, cache, overtaken>>

\* A hit answers at once.
BeginGet(c, id) ==
  /\ ~Busy(c) /\ Begin(c, IF cache[id] # None THEN Ended("Ok") ELSE At("Read", id, None))
  /\ UNCHANGED <<row, cache, overtaken>>

\* The upsert.
Write(c) ==
  /\ call[c].phase = "Write"
  /\ row' = [row EXCEPT ![call[c].id] = call[c].tx]
  /\ call' = [call EXCEPT ![c].phase = "Store"]
  /\ UNCHANGED <<cache, disturbed, overtaken>>

\* Mutant: an entry that is there is kept.
StoreIfAbsent(c) ==
  /\ call[c].phase = "Store"
  /\ cache' = [cache EXCEPT ![call[c].id] = IF @ = None THEN call[c].tx ELSE @]
  /\ call' = [call EXCEPT ![c] = Ended("Ok")]
  /\ overtaken' = overtaken \ {call[c].id}
  /\ UNCHANGED <<row, disturbed>>

Store(c) ==
  /\ call[c].phase = "Store"
  /\ cache' = [cache EXCEPT ![call[c].id] = call[c].tx]
  /\ call' = [call EXCEPT ![c] = Ended("Ok")]
  /\ overtaken' = overtaken \ {call[c].id}
  /\ UNCHANGED <<row, disturbed>>

Read(c) ==
  /\ call[c].phase = "Read"
  /\ call' = [call EXCEPT ![c] = IF row[@.id] = None THEN Ended("Ok")
                                 ELSE At("Fill", @.id, row[@.id])]
  /\ UNCHANGED <<row, cache, disturbed, overtaken>>

Fill(c) ==
  /\ call[c].phase = "Fill"
  /\ cache' = [cache EXCEPT ![call[c].id] = call[c].tx]
  /\ call' = [call EXCEPT ![c] = Ended("Ok")]
  /\ overtaken' = overtaken \ {call[c].id}
  /\ UNCHANGED <<row, disturbed>>

\* A call stops with its statement sent: an upsert may have been executed.
Stops(c, how) ==
  LET at == call[c] IN
  /\ call' = [call EXCEPT ![c] = Ended(how)]
  /\ row' \in {row} \cup (IF at.phase = "Write" THEN {[row EXCEPT ![at.id] = at.tx]} ELSE {})
  /\ disturbed' = IF at.phase \in {"Write", "Store"} THEN disturbed \cup {at.id}
                  ELSE disturbed
  /\ UNCHANGED <<cache, overtaken>>

\* Mutant: an error of the upsert is ignored.
StatementFailsSilently(c) ==
  /\ call[c].phase \in {"Write", "Read"}
  /\ call' = [call EXCEPT ![c].phase = IF @ = "Write" THEN "Store" ELSE "Fill"]
  /\ UNCHANGED <<row, cache, disturbed, overtaken>>

StatementFails(c) == call[c].phase \in {"Write", "Read"} /\ Stops(c, "Error")

Drop(c) == Busy(c) /\ Stops(c, "Lost")

\* time_to_idle: an entry nobody read for an hour is gone.
Expire(id) ==
  /\ cache[id] # None
  /\ cache' = [cache EXCEPT ![id] = None]
  /\ overtaken' = overtaken \ {id}
  /\ UNCHANGED <<row, call, disturbed>>

\* The upsert of another engine.
UpsertElsewhere(id, tx) ==
  /\ row' = [row EXCEPT ![id] = tx]
  /\ disturbed' = disturbed \cup (IF Pending(id, Calls) THEN {id} ELSE {})
  /\ overtaken' = overtaken \cup (IF cache[id] # None THEN {id} ELSE {})
  /\ UNCHANGED <<cache, call>>

\* The process dies with its cache and its calls.
Die ==
  /\ cache' = [id \in Ids |-> None]
  /\ call' = [c \in Calls |-> IF Busy(c) THEN Ended("Lost") ELSE call[c]]
  /\ row' \in {row} \cup {[row EXCEPT ![call[c].id] = call[c].tx] :
                            c \in {c \in Calls : call[c].phase = "Write"}}
  /\ disturbed' = {} /\ overtaken' = {}

Proceed(c) == Write(c) \/ Store(c) \/ Read(c) \/ Fill(c) \/ StatementFails(c)

-----------------------------------------------------------------------------
\* tracker.rs:97: an entry differs from the table only while an insert is
\* between the two, or since another engine wrote after the entry was made, or
\* once two calls for the id overlapped or one stopped halfway.  Calls of this
\* engine that ran one after the other left the two equal, and the next of them
\* to store the id makes up for what another engine wrote.
StaleIsRaced ==
  \A id \in Ids \ (disturbed \cup overtaken) : cache[id] \notin {None, row[id]} =>
    \E c \in Calls : call[c].phase = "Store" /\ call[c].id = id
=============================================================================
