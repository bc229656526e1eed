-------------------------- MODULE ApiServerProofs --------------------------
(* For any number of requests and callers, any window and any timeout:     *)
(* when the tracker's cache may stray from its table, what an answered     *)
(* deposit leaves behind, and how old a request that is handled can be.    *)
EXTENDS ApiServer, TLAPS

Entries == Versions \cup {None}
Phases  == Running \cup {"Idle", "Ok", "Error", "Lost"}
CallSet == [phase : Phases, id : Ids \cup {None}, tx : Entries]
ReqSet  == [phase : {"Idle"} \cup Waiting \cup Answers, path : Paths \cup {None},
            signature : Signatures \cup {None}, age : Int, spent : 0..RequestTimeout]

Types ==
  /\ row \in [Ids -> Entries] /\ cache \in [Ids -> Entries]
  /\ call \in [Calls -> CallSet]
  /\ req \in [Requests -> ReqSet]

\* A running call has a transaction's id, and once it knows one, a version.
CallsAreSound ==
  \A c \in Calls :
    /\ Busy(c) => call[c].id \in Ids
    /\ call[c].phase \in {"Write", "Store", "Fill"} => call[c].tx \in Versions

\* An undisturbed transaction has one call at a time, and what that call
\* brings to the cache is what the table holds.
CallsAreAlone ==
  \A id \in Ids \ disturbed, c \in Calls : Busy(c) /\ call[c].id = id =>
    /\ \A d \in Calls \ {c} : Busy(d) => call[d].id # id
    /\ call[c].phase \in {"Store", "Fill"} => call[c].tx = row[id]

\* A deposit waits for the call of its own id; after the upsert it has a row.
DepositAt(r) ==
  /\ \/ call[r].phase \in {"Write", "Store"} /\ call[r].id = r
     \/ call[r].phase \in {"Ok", "Error"}
  /\ call[r].phase \in {"Store", "Ok"} => row[r] # None

DepositsAreCalls == \A r \in Requests : req[r].phase = "Storing" => DepositAt(r)

\* Only quotes are planned.
QuotesPlan == \A r \in Requests : req[r].phase = "Planning" => req[r].path = "Quote"

\* A protected request was in the window when it arrived, and ages with its
\* timer; the handler runs only with a valid signature.
AgesAreSpent ==
  \A r \in Requests : Protected(r) /\ InFlight(r) =>
    /\ req[r].age - req[r].spent \in -MaxAge..MaxAge
    /\ req[r].phase # "Body" => req[r].signature = "Valid"

TrackerInv == CallsAreSound /\ CallsAreAlone /\ StaleIsRaced
ServerInv  == DepositsAreCalls /\ QuotesPlan /\ OkIsRecorded /\ AgesAreSpent

IInv == Types /\ TrackerInv /\ ServerInv

-----------------------------------------------------------------------------
(* The tracker.                                                             *)
TrackerTypes ==
  /\ row \in [Ids -> Entries] /\ cache \in [Ids -> Entries]
  /\ call \in [Calls -> CallSet]

Tracked == TrackerTypes /\ TrackerInv

\* The places a call can be at.
LEMMA Places ==
  ASSUME NEW phase \in Phases, NEW id \in Ids \cup {None}, NEW tx \in Entries
  PROVE  /\ At(phase, id, tx) \in CallSet
         /\ At(phase, id, tx).phase = phase
         /\ At(phase, id, tx).id = id /\ At(phase, id, tx).tx = tx
  BY DEF At, CallSet

\* A call that is not running says nothing of a transaction.
LEMMA EndedIsIdle ==
  ASSUME NEW phase \in {"Idle", "Ok", "Error", "Lost"}
  PROVE  /\ Ended(phase) \in CallSet /\ Ended(phase).phase = phase
         /\ phase \in Phases /\ phase \notin Running
<1>1. phase \in Phases /\ None \in Ids \cup {None} /\ None \in Entries /\ phase \notin Running
  BY DEF Phases, Entries, Running
<1> QED BY <1>1, Places DEF Ended

\* When one call changes, the others are where they were.
LEMMA OneCall ==
  ASSUME TrackerTypes, NEW c \in Calls, NEW at \in CallSet, call' = [call EXCEPT ![c] = at]
  PROVE  /\ call' \in [Calls -> CallSet] /\ call'[c] = at
         /\ \A d \in Calls \ {c} : call'[d] = call[d]
  BY DEF TrackerTypes

\* A call that begins for `id` disturbs it if another call is running for it.
LEMMA BeginStep ==
  ASSUME Tracked, NEW c \in Calls, ~Busy(c), NEW at \in CallSet,
         at.phase \in {"Write", "Read"} => at.id \in Ids,
         at.phase \in {"Write"} => at.tx \in Versions,
         at.phase \notin {"Store", "Fill"},
         Begin(c, at), UNCHANGED <<row, cache, overtaken>>
  PROVE  Tracked'
<1>1. call' = [call EXCEPT ![c] = at]
  BY DEF Begin
<1>2. TrackerTypes
  BY DEF Tracked
<1>3. /\ call' \in [Calls -> CallSet] /\ call'[c] = at
      /\ \A d \in Calls \ {c} : call'[d] = call[d]
  BY <1>1, <1>2, OneCall
<1>4. TrackerTypes'
  BY <1>2, <1>3 DEF TrackerTypes
<1>5. \A d \in Calls \ {c} : Busy(d)' <=> Busy(d)
  BY <1>3 DEF Busy
<1>6. CallsAreSound'
  BY <1>3, <1>5 DEF Tracked, TrackerInv, CallsAreSound, Busy, Running
<1>7. ASSUME NEW id \in Ids \ disturbed', NEW e \in Calls, Busy(e)', call'[e].id = id
      PROVE  /\ \A d \in Calls \ {e} : Busy(d)' => call'[d].id # id
             /\ call'[e].phase \in {"Store", "Fill"} => call'[e].tx = row'[id]
  <2>1. id \in Ids \ disturbed /\ id # None
    BY <1>7, TrackerAssumption DEF Begin
  <2>2. CASE e = c
    <3>1. at.id = id
      BY <1>3, <1>7, <2>2
    <3>2. \A d \in Calls \ {c} : Busy(d) => call[d].id # id
      BY <1>7, <2>1, <3>1 DEF Begin, Pending
    <3> QED BY <1>3, <1>5, <2>2, <3>2
  <2>3. CASE e # c
    <3>1. Busy(e) /\ call[e].id = id
      BY <1>3, <1>5, <1>7, <2>3
    <3>2. /\ \A d \in Calls \ {e} : Busy(d) => call[d].id # id
          /\ call[e].phase \in {"Store", "Fill"} => call[e].tx = row[id]
      BY <2>1, <3>1 DEF Tracked, TrackerInv, CallsAreAlone
    <3>3. at.id # id
      BY <1>7, <2>1, <2>3, <3>1 DEF Begin, Pending
    <3> QED BY <1>3, <1>5, <2>3, <3>2, <3>3
  <2> QED BY <2>2, <2>3
<1>8. CallsAreAlone'
  BY <1>7 DEF CallsAreAlone
<1>9. StaleIsRaced'
  <2> SUFFICES ASSUME NEW id \in Ids \ (disturbed' \cup overtaken'), cache'[id] \notin {None, row'[id]}
               PROVE  \E d \in Calls : call'[d].phase = "Store" /\ call'[d].id = id
    BY DEF StaleIsRaced
  <2>1. PICK d \in Calls : call[d].phase = "Store" /\ call[d].id = id
    BY DEF Tracked, TrackerInv, StaleIsRaced, Begin
  <2>2. d # c
    BY <2>1 DEF Busy, Running
  <2> QED BY <1>3, <2>1, <2>2
<1> QED BY <1>4, <1>6, <1>8, <1>9 DEF Tracked, TrackerInv

\* Both ways to begin.
LEMMA BeginsTracked ==
  ASSUME Tracked, NEW c \in Calls, NEW id \in Ids,
         (\E tx \in Versions : BeginInsert(c, id, tx)) \/ BeginGet(c, id)
  PROVE  Tracked' /\ UNCHANGED row
<1>1. ASSUME NEW tx \in Versions, BeginInsert(c, id, tx) PROVE Tracked' /\ UNCHANGED row
  <2> DEFINE at == At("Write", id, tx)
  <2>1. /\ at \in CallSet /\ at.phase = "Write" /\ at.id = id /\ at.tx = tx
    BY Places DEF Phases, Running, Entries
  <2>2. ~Busy(c) /\ Begin(c, at) /\ UNCHANGED <<row, cache, overtaken>>
    BY <1>1 DEF BeginInsert
  <2> HIDE DEF at
  <2> QED BY <2>1, <2>2, BeginStep
<1>2. ASSUME BeginGet(c, id) PROVE Tracked' /\ UNCHANGED row
  <2> DEFINE at == IF cache[id] # None THEN Ended("Ok") ELSE At("Read", id, None)
  <2>1. At("Read", id, None) \in CallSet /\ At("Read", id, None).phase = "Read"
        /\ At("Read", id, None).id = id
    BY Places DEF Phases, Running, Entries
  <2>2. at \in CallSet /\ at.phase \in {"Ok", "Read"} /\ (at.phase = "Read" => at.id = id)
    BY <2>1, EndedIsIdle
  <2>3. ~Busy(c) /\ Begin(c, at) /\ UNCHANGED <<row, cache, overtaken>>
    BY <1>2 DEF BeginGet
  <2> HIDE DEF at
  <2> QED BY <2>2, <2>3, BeginStep
<1> QED BY <1>1, <1>2

\* A transaction that has a row keeps one.
RowsStay == \A id \in Ids : row[id] # None => row'[id] # None

\* The upsert: the transaction's only call now holds what the table holds.
LEMMA WriteStep ==
  ASSUME Tracked, NEW c \in Calls, Write(c)
  PROVE  Tracked' /\ RowsStay /\ row'[call[c].id] # None
         /\ call'[c].phase = "Store" /\ call'[c].id = call[c].id
<1> DEFINE id == call[c].id
           tx == call[c].tx
           at == [call[c] EXCEPT !.phase = "Store"]
<1>1. /\ call[c] \in CallSet /\ call[c].phase = "Write" /\ Busy(c)
      /\ id \in Ids /\ tx \in Versions /\ tx # None
  BY TrackerAssumption
  DEF Write, Tracked, TrackerTypes, TrackerInv, CallsAreSound, Busy, Running
<1>2. at \in CallSet /\ at.phase = "Store" /\ at.id = id /\ at.tx = tx
  BY <1>1 DEF CallSet, Phases, Running
<1>3. /\ row' = [row EXCEPT ![id] = tx] /\ call' = [call EXCEPT ![c] = at]
      /\ cache' = cache /\ disturbed' = disturbed /\ overtaken' = overtaken
  BY <1>1 DEF Write, Tracked, TrackerTypes
<1> HIDE DEF id, tx, at
<1>4. /\ call' \in [Calls -> CallSet] /\ call'[c] = at
      /\ \A d \in Calls \ {c} : call'[d] = call[d]
  BY <1>2, <1>3, OneCall DEF Tracked
<1>5. /\ row' \in [Ids -> Entries] /\ row'[id] = tx
      /\ \A i \in Ids \ {id} : row'[i] = row[i]
  BY <1>1, <1>3 DEF Tracked, TrackerTypes, Entries
<1>6. TrackerTypes'
  BY <1>3, <1>4, <1>5 DEF Tracked, TrackerTypes
<1>7. CallsAreSound'
  BY <1>1, <1>2, <1>4 DEF Tracked, TrackerInv, CallsAreSound, Busy, Running
<1>8. ASSUME NEW i \in Ids \ disturbed, NEW e \in Calls, e # c, Busy(e)', call'[e].id = i
      PROVE  /\ Busy(e) /\ call[e].id = i /\ i # id
             /\ \A d \in Calls \ {e} : Busy(d) => call[d].id # i
             /\ call[e].phase \in {"Store", "Fill"} => call[e].tx = row[i]
  BY <1>1, <1>4, <1>8 DEF Tracked, TrackerInv, CallsAreAlone, Busy, id
<1>9. CallsAreAlone'
  <2> SUFFICES ASSUME NEW i \in Ids \ disturbed, NEW e \in Calls, Busy(e)', call'[e].id = i
               PROVE  /\ \A d \in Calls \ {e} : Busy(d)' => call'[d].id # i
                      /\ call'[e].phase \in {"Store", "Fill"} => call'[e].tx = row'[i]
    BY <1>3 DEF CallsAreAlone
  <2>1. CASE e = c
    <3>1. i = id
      BY <1>2, <1>4, <2>1
    <3>2. \A d \in Calls \ {c} : Busy(d) => call[d].id # id
      BY <1>1, <3>1 DEF Tracked, TrackerInv, CallsAreAlone, id
    <3> QED BY <1>2, <1>4, <1>5, <2>1, <3>1, <3>2 DEF Busy
  <2>2. CASE e # c
    BY <1>2, <1>4, <1>5, <1>8, <2>2 DEF Busy
  <2> QED BY <2>1, <2>2
<1>10. StaleIsRaced'
  <2> SUFFICES ASSUME NEW i \in Ids \ (disturbed \cup overtaken), cache[i] \notin {None, row'[i]}
               PROVE  \E d \in Calls : call'[d].phase = "Store" /\ call'[d].id = i
    BY <1>3 DEF StaleIsRaced
  <2>1. CASE i = id
    BY <1>2, <1>4, <2>1
  <2>2. CASE i # id
    <3>1. PICK d \in Calls : call[d].phase = "Store" /\ call[d].id = i
      BY <1>5, <2>2 DEF Tracked, TrackerInv, StaleIsRaced
    <3> QED BY <1>4, <2>2, <3>1 DEF id
  <2> QED BY <2>1, <2>2
<1> QED
  BY <1>1, <1>2, <1>4, <1>5, <1>6, <1>7, <1>9, <1>10 DEF Tracked, TrackerInv, RowsStay, id

\* A call that ends, and puts nothing but what it holds into the cache.
LEMMA EndStep ==
  ASSUME Tracked, NEW c \in Calls, NEW how \in {"Ok", "Error", "Lost"},
         call' = [call EXCEPT ![c] = Ended(how)],
         row' \in [Ids -> Entries], \A i \in Ids \ disturbed' : row'[i] = row[i],
         disturbed \subseteq disturbed',
         \/ /\ cache' = cache /\ overtaken' = overtaken
            /\ call[c].phase = "Store" => call[c].id \in disturbed'
         \/ /\ call[c].phase \in {"Store", "Fill"}
            /\ cache' = [cache EXCEPT ![call[c].id] = call[c].tx]
            /\ overtaken' = overtaken \ {call[c].id}
  PROVE  Tracked'
<1> DEFINE id == call[c].id
           tx == call[c].tx
           at == Ended(how)
<1>1. at \in CallSet /\ at.phase = how /\ how \notin Running
  BY EndedIsIdle
<1>2. call' = [call EXCEPT ![c] = at]
  OBVIOUS
<1> HIDE DEF at
<1>3. /\ call' \in [Calls -> CallSet] /\ call'[c] = at
      /\ \A d \in Calls \ {c} : call'[d] = call[d]
  BY <1>1, <1>2, OneCall DEF Tracked
<1>4. ~Busy(c)' /\ \A d \in Calls \ {c} : Busy(d)' <=> Busy(d)
  BY <1>1, <1>3 DEF Busy
<1>5. call[c].phase \in {"Store", "Fill"} =>
        /\ id \in Ids /\ tx \in Versions /\ Busy(c)
        /\ id \notin disturbed => tx = row[id]
  BY DEF Tracked, TrackerInv, CallsAreSound, CallsAreAlone, Busy, Running
<1>6. TrackerTypes'
  BY <1>3, <1>5 DEF Tracked, TrackerTypes, Entries
<1>7. CallsAreSound'
  BY <1>1, <1>3, <1>4 DEF Tracked, TrackerInv, CallsAreSound, Running
<1>8. CallsAreAlone'
  BY <1>3, <1>4 DEF Tracked, TrackerInv, CallsAreAlone
<1>9. StaleIsRaced'
  <2> SUFFICES ASSUME NEW i \in Ids \ (disturbed' \cup overtaken'), cache'[i] \notin {None, row'[i]}
               PROVE  \E d \in Calls : call'[d].phase = "Store" /\ call'[d].id = i
    BY DEF StaleIsRaced
  <2>1. cache'[i] = cache[i] /\ (call[c].phase = "Store" => id # i) /\ i \notin overtaken
    <3>1. CASE /\ cache' = cache /\ overtaken' = overtaken
               /\ call[c].phase = "Store" => id \in disturbed'
      BY <3>1
    <3>2. CASE /\ call[c].phase \in {"Store", "Fill"} /\ cache' = [cache EXCEPT ![id] = tx]
               /\ overtaken' = overtaken \ {id}
      <4>1. i # id
        BY <1>5, <3>2 DEF Tracked, TrackerTypes
      <4> QED BY <3>2, <4>1 DEF Tracked, TrackerTypes
    <3> QED BY <3>1, <3>2
  <2>2. PICK d \in Calls : call[d].phase = "Store" /\ call[d].id = i
    BY <2>1 DEF Tracked, TrackerInv, StaleIsRaced
  <2> QED BY <1>3, <2>1, <2>2
<1> QED BY <1>6, <1>7, <1>8, <1>9 DEF Tracked, TrackerInv

\* A row that was found is what the call brings to the cache.
LEMMA ReadStep ==
  ASSUME Tracked, NEW c \in Calls, Read(c)
  PROVE  Tracked' /\ UNCHANGED row
<1>0. UNCHANGED <<row, cache, disturbed, overtaken>>
  BY DEF Read
<1>1. CASE row[call[c].id] = None
  <2>1. call' = [call EXCEPT ![c] = Ended("Ok")] /\ call[c].phase = "Read"
    BY <1>1 DEF Read, Tracked, TrackerTypes
  <2> QED BY <1>0, <2>1, EndStep DEF Tracked, TrackerTypes
<1>2. CASE row[call[c].id] # None
  <2> DEFINE id == call[c].id
             at == At("Fill", id, row[id])
  <2>1. call[c].phase = "Read" /\ Busy(c) /\ id \in Ids /\ row[id] \in Versions
    BY <1>2 DEF Read, Tracked, TrackerTypes, TrackerInv, CallsAreSound, Busy, Running, Entries
  <2>2. at \in CallSet /\ at.phase = "Fill" /\ at.id = id /\ at.tx = row[id]
    BY <2>1, Places DEF Phases, Running, Entries
  <2>3. call' = [call EXCEPT ![c] = at]
    BY <1>2 DEF Read, Tracked, TrackerTypes
  <2> HIDE DEF id, at
  <2>4. /\ call' \in [Calls -> CallSet] /\ call'[c] = at
        /\ \A d \in Calls \ {c} : call'[d] = call[d]
    BY <2>2, <2>3, OneCall DEF Tracked
  <2>5. /\ Busy(c)' /\ call'[c].id = call[c].id
        /\ \A d \in Calls : Busy(d)' <=> Busy(d)
        /\ \A d \in Calls : call'[d].id = call[d].id
    BY <2>1, <2>2, <2>4 DEF Busy, Running, id
  <2>6. TrackerTypes' /\ CallsAreSound'
    BY <1>0, <2>1, <2>2, <2>4, <2>5
    DEF Tracked, TrackerTypes, TrackerInv, CallsAreSound
  <2>7. CallsAreAlone'
    BY <1>0, <2>2, <2>4, <2>5 DEF Tracked, TrackerInv, CallsAreAlone
  <2>8. StaleIsRaced'
    <3> SUFFICES ASSUME NEW i \in Ids \ (disturbed \cup overtaken), cache[i] \notin {None, row[i]}
                 PROVE  \E d \in Calls : call'[d].phase = "Store" /\ call'[d].id = i
      BY <1>0 DEF StaleIsRaced
    <3>1. PICK d \in Calls : call[d].phase = "Store" /\ call[d].id = i
      BY DEF Tracked, TrackerInv, StaleIsRaced
    <3> QED BY <2>1, <2>4, <3>1
  <2> QED BY <1>0, <2>6, <2>7, <2>8 DEF Tracked, TrackerInv
<1> QED BY <1>1, <1>2

\* A call that stops disturbs the transaction it was writing or storing.
LEMMA StopStep ==
  ASSUME Tracked, NEW c \in Calls, NEW how \in {"Error", "Lost"}, Busy(c), Stops(c, how)
  PROVE  Tracked' /\ RowsStay /\ call' = [call EXCEPT ![c] = Ended(how)]
<1>1. /\ call' = [call EXCEPT ![c] = Ended(how)] /\ cache' = cache /\ overtaken' = overtaken
      /\ disturbed' = IF call[c].phase \in {"Write", "Store"} THEN disturbed \cup {call[c].id}
                      ELSE disturbed
  BY DEF Stops
<1>2. /\ call[c].id \in Ids
      /\ call[c].phase = "Write" => call[c].tx \in Versions /\ call[c].tx # None
  BY TrackerAssumption DEF Tracked, TrackerInv, CallsAreSound
<1>3. \/ row' = row
      \/ call[c].phase = "Write" /\ row' = [row EXCEPT ![call[c].id] = call[c].tx]
  BY DEF Stops
<1>4. /\ row' \in [Ids -> Entries] /\ RowsStay
      /\ \A i \in Ids \ disturbed' : row'[i] = row[i]
  BY <1>1, <1>2, <1>3 DEF Tracked, TrackerTypes, Entries, RowsStay
<1>5. /\ disturbed \subseteq disturbed'
      /\ call[c].phase = "Store" => call[c].id \in disturbed'
  BY <1>1, <1>2
<1> QED BY <1>1, <1>4, <1>5, EndStep

\* Idle entries leave the cache; a restart empties it and ends every call.
LEMMA ForgetStep ==
  ASSUME Tracked, Die \/ \E id \in Ids : Expire(id)
  PROVE  Tracked' /\ RowsStay
<1>1. ASSUME NEW id \in Ids, Expire(id) PROVE Tracked' /\ RowsStay
  BY <1>1 DEF Expire, Tracked, TrackerTypes, Entries, TrackerInv, CallsAreSound, CallsAreAlone,
              StaleIsRaced, Busy, RowsStay
<1>2. CASE Die
  <2>1. \A c \in Calls : call'[c] = IF Busy(c) THEN Ended("Lost") ELSE call[c]
    BY <1>2 DEF Die
  <2>2. ASSUME NEW c \in Calls PROVE call'[c] \in CallSet /\ ~Busy(c)'
    BY <2>1, EndedIsIdle DEF Busy, Tracked, TrackerTypes
  <2>3. row' \in [Ids -> Entries] /\ RowsStay
    <3>1. CASE row' = row
      BY <3>1 DEF RowsStay, Tracked, TrackerTypes
    <3>2. ASSUME NEW c \in Calls, call[c].phase = "Write",
                 row' = [row EXCEPT ![call[c].id] = call[c].tx]
          PROVE  row' \in [Ids -> Entries] /\ RowsStay
      <4>1. call[c].id \in Ids /\ call[c].tx \in Versions /\ call[c].tx # None
        BY <3>2, TrackerAssumption DEF Tracked, TrackerInv, CallsAreSound, Busy, Running
      <4> QED BY <3>2, <4>1 DEF RowsStay, Tracked, TrackerTypes, Entries
    <3> QED BY <1>2, <3>1, <3>2 DEF Die
  <2>4. TrackerTypes'
    BY <1>2, <2>2, <2>3 DEF Die, TrackerTypes, Entries
  <2>5. TrackerInv'
    BY <1>2, <2>2 DEF Die, TrackerInv, CallsAreSound, CallsAreAlone, StaleIsRaced, Busy, Running
  <2> QED BY <2>3, <2>4, <2>5 DEF Tracked
<1> QED BY <1>1, <1>2

\* What another engine writes strays from an entry it overtakes, or from one
\* that a call is about to make.
LEMMA ElsewhereStep ==
  ASSUME Tracked, NEW id \in Ids, NEW tx \in Versions, UpsertElsewhere(id, tx)
  PROVE  Tracked' /\ RowsStay /\ UNCHANGED call
<1>1. /\ row' = [row EXCEPT ![id] = tx] /\ cache' = cache /\ call' = call
      /\ disturbed \subseteq disturbed' /\ overtaken \subseteq overtaken'
      /\ Pending(id, Calls) => id \in disturbed'
      /\ cache[id] # None => id \in overtaken'
  BY DEF UpsertElsewhere
<1>2. /\ row' \in [Ids -> Entries] /\ tx # None /\ row'[id] = tx
      /\ \A i \in Ids \ {id} : row'[i] = row[i]
  BY <1>1, TrackerAssumption DEF Tracked, TrackerTypes, Entries
<1>3. TrackerTypes' /\ RowsStay
  BY <1>1, <1>2 DEF Tracked, TrackerTypes, RowsStay
<1>4. CallsAreSound'
  BY <1>1 DEF Tracked, TrackerInv, CallsAreSound, Busy
<1>5. ASSUME NEW i \in Ids \ disturbed', NEW c \in Calls, Busy(c)', call'[c].id = i
      PROVE  /\ \A d \in Calls \ {c} : Busy(d)' => call'[d].id # i
             /\ call'[c].phase \in {"Store", "Fill"} => call'[c].tx = row'[i]
  <2>1. Busy(c) /\ call[c].id = i /\ \A d : Busy(d)' <=> Busy(d)
    BY <1>1, <1>5 DEF Busy
  <2>2. i # id
    BY <1>1, <1>5, <2>1 DEF Pending
  <2> QED BY <1>1, <1>2, <2>1, <2>2 DEF Tracked, TrackerInv, CallsAreAlone
<1>6. CallsAreAlone'
  BY <1>5 DEF CallsAreAlone
<1>7. StaleIsRaced'
  <2> SUFFICES ASSUME NEW i \in Ids \ (disturbed' \cup overtaken'), cache'[i] \notin {None, row'[i]}
               PROVE  \E c \in Calls : call'[c].phase = "Store" /\ call'[c].id = i
    BY DEF StaleIsRaced
  <2>1. i # id
    BY <1>1
  <2> QED BY <1>1, <1>2, <2>1 DEF Tracked, TrackerInv, StaleIsRaced
<1> QED BY <1>1, <1>3, <1>4, <1>6, <1>7 DEF Tracked, TrackerInv

\* A call goes on.
LEMMA ProceedStep ==
  ASSUME Tracked, NEW c \in Calls, Proceed(c)
  PROVE  Tracked' /\ RowsStay
<1>1. CASE Write(c)
  BY <1>1, WriteStep
<1>2. CASE Store(c) \/ Fill(c)
  <2>1. /\ call' = [call EXCEPT ![c] = Ended("Ok")] /\ UNCHANGED <<row, disturbed>>
        /\ call[c].phase \in {"Store", "Fill"}
        /\ cache' = [cache EXCEPT ![call[c].id] = call[c].tx]
        /\ overtaken' = overtaken \ {call[c].id}
    BY <1>2 DEF Store, Fill
  <2> QED BY <2>1, EndStep DEF RowsStay, Tracked, TrackerTypes
<1>3. CASE Read(c)
  BY <1>3, ReadStep DEF RowsStay
<1>4. CASE StatementFails(c)
  BY <1>4, StopStep DEF StatementFails, Busy, Running
<1> QED BY <1>1, <1>2, <1>3, <1>4 DEF Proceed

-----------------------------------------------------------------------------
(* The requests.                                                            *)

\* A deposit's call goes on to its upsert, to the cache, and to an answer.
LEMMA DepositProceeds ==
  ASSUME Tracked, NEW c \in Calls, Proceed(c), NEW r \in Requests, DepositAt(r)
  PROVE  DepositAt(r)'
<1>1. CASE c # r
  <2>1. RowsStay
    BY ProceedStep
  <2>2. call'[r] = call[r]
    BY <1>1, ServerAssumption
    DEF Proceed, Write, Store, Read, Fill, StatementFails, Stops, Tracked, TrackerTypes
  <2> QED BY <2>1, <2>2, ServerAssumption DEF DepositAt, RowsStay
<1>2. CASE c = r
  <2>1. CASE Write(c)
    BY <1>2, <2>1, WriteStep DEF DepositAt, Write
  <2>2. CASE Store(c)
    BY <1>2, <2>2, EndedIsIdle, ServerAssumption DEF DepositAt, Store, Tracked, TrackerTypes
  <2>3. CASE StatementFails(c)
    <3>1. call'[c] = Ended("Error")
      BY <2>3 DEF StatementFails, Stops, Tracked, TrackerTypes
    <3> QED BY <1>2, <3>1, EndedIsIdle DEF DepositAt
  <2> QED BY <1>2, <2>1, <2>2, <2>3 DEF Proceed, DepositAt, Read, Fill
<1> QED BY <1>1, <1>2

\* An answer changes where its request stands, and nothing else.
LEMMA AnswerEffect ==
  ASSUME req \in [Requests -> ReqSet], NEW r \in Requests,
         NEW status \in Waiting \cup Answers, Answer(r, status)
  PROVE  /\ req' \in [Requests -> ReqSet] /\ req'[r].phase = status
         /\ req'[r].path = req[r].path /\ req'[r].signature = req[r].signature
         /\ req'[r].age = req[r].age /\ req'[r].spent = req[r].spent
         /\ \A q \in Requests \ {r} : req'[q] = req[q]
<1> DEFINE new == [req[r] EXCEPT !.phase = status]
<1>1. /\ new \in ReqSet /\ new.phase = status
      /\ new.path = req[r].path /\ new.signature = req[r].signature
      /\ new.age = req[r].age /\ new.spent = req[r].spent
  BY DEF ReqSet
<1>2. req' = [req EXCEPT ![r] = new]
  BY DEF Answer
<1> HIDE DEF new
<1> QED BY <1>1, <1>2

\* What makes an answer sound.
LEMMA AnswerStep ==
  ASSUME Types, ServerInv, NEW r \in Requests, NEW status \in Waiting \cup Answers,
         Answer(r, status), RowsStay,
         \A q \in Requests \ {r} : DepositAt(q) => DepositAt(q)',
         status = "Storing" => DepositAt(r)',
         status = "Planning" => req[r].path = "Quote",
         status = "200" /\ req[r].path = "Deposit" => row'[r] # None,
         status \in Waiting => Verified(r) /\ status # "Body"
  PROVE  req' \in [Requests -> ReqSet] /\ ServerInv'
<1>1. /\ req' \in [Requests -> ReqSet] /\ req'[r].phase = status
      /\ req'[r].path = req[r].path /\ req'[r].signature = req[r].signature
      /\ req'[r].age = req[r].age /\ req'[r].spent = req[r].spent
      /\ \A q \in Requests \ {r} : req'[q] = req[q]
  BY AnswerEffect DEF Types
<1>2. DepositsAreCalls'
  BY <1>1 DEF ServerInv, DepositsAreCalls
<1>3. QuotesPlan'
  BY <1>1 DEF ServerInv, QuotesPlan
<1>4. OkIsRecorded'
  BY <1>1, ServerAssumption DEF ServerInv, OkIsRecorded, RowsStay
<1>5. AgesAreSpent'
  <2>1. ASSUME Protected(r)', InFlight(r)'
        PROVE  /\ Protected(r) /\ InFlight(r) /\ req[r].signature = "Valid"
    BY <1>1, <2>1 DEF Verified, Protected, InFlight, Waiting
  <2>2. \A q \in Requests \ {r} : /\ Protected(q)' <=> Protected(q)
                                  /\ InFlight(q)' <=> InFlight(q)
    BY <1>1 DEF Protected, InFlight
  <2> QED BY <1>1, <2>1, <2>2 DEF ServerInv, AgesAreSpent
<1> QED BY <1>1, <1>2, <1>3, <1>4, <1>5 DEF ServerInv

\* A request that arrives in the window is as old as it was signed for.
LEMMA ArriveStep ==
  ASSUME Types, ServerInv, NEW r \in Requests, NEW path \in Paths, NEW signature \in Signatures,
         NEW age \in -(MaxAge + 1)..(MaxAge + 1), Arrive(r, path, signature, age)
  PROVE  req' \in [Requests -> ReqSet] /\ ServerInv'
<1> DEFINE phase == IF \/ path \in Public \/ ~KeyConfigured
                       \/ signature # "Missing" /\ InWindow(age) THEN "Body" ELSE "401"
           new   == [phase |-> phase, path |-> path, signature |-> signature,
                     age |-> age, spent |-> 0]
<1>1. /\ new.phase = phase /\ new.path = path /\ new.signature = signature
      /\ new.age = age /\ new.spent = 0
  OBVIOUS
<1>2. new \in ReqSet
  <2>1. phase \in {"Idle"} \cup Waiting \cup Answers
    BY DEF Waiting, Answers
  <2>2. age \in Int /\ 0 \in 0..RequestTimeout
    BY ServerAssumption
  <2> HIDE DEF phase
  <2> QED BY <2>1, <2>2 DEF ReqSet
<1>3. req' = [req EXCEPT ![r] = new] /\ UNCHANGED tracker
  BY DEF Arrive
<1>4. phase \in {"Body", "401"}
      /\ (phase = "Body" => path \in Public \/ ~KeyConfigured \/ InWindow(age))
  OBVIOUS
<1> HIDE DEF new, phase
<1>5. /\ req' \in [Requests -> ReqSet] /\ req'[r] = new
      /\ \A q \in Requests \ {r} : req'[q] = req[q]
  BY <1>2, <1>3 DEF Types
<1>6. DepositsAreCalls' /\ QuotesPlan' /\ OkIsRecorded'
  BY <1>1, <1>3, <1>4, <1>5
  DEF ServerInv, DepositsAreCalls, DepositAt, QuotesPlan, OkIsRecorded, tracker
<1>7. AgesAreSpent'
  <2>1. Protected(r)' /\ InFlight(r)' => req'[r].age - req'[r].spent \in -MaxAge..MaxAge
    <3>1. Protected(r)' /\ InFlight(r)' => InWindow(age)
      BY <1>1, <1>4, <1>5 DEF Protected, InFlight, Waiting
    <3>2. InWindow(age) => age - 0 \in -MaxAge..MaxAge
      BY ServerAssumption DEF InWindow
    <3> QED BY <1>1, <1>5, <3>1, <3>2
  <2>2. InFlight(r)' => req'[r].phase = "Body"
    BY <1>1, <1>4, <1>5 DEF InFlight, Waiting
  <2>3. \A q \in Requests \ {r} : /\ Protected(q)' <=> Protected(q)
                                  /\ InFlight(q)' <=> InFlight(q)
    BY <1>5 DEF Protected, InFlight
  <2> QED BY <1>5, <2>1, <2>2, <2>3 DEF ServerInv, AgesAreSpent
<1> QED BY <1>5, <1>6, <1>7 DEF ServerInv

\* Time passes for the requests in flight, whose timers are not due.
LEMMA TickStep ==
  ASSUME Types, ServerInv, Tick
  PROVE  req' \in [Requests -> ReqSet] /\ ServerInv'
<1> DEFINE upTo(n, i) == IF i < n THEN i + 1 ELSE i
           later(q) == [q EXCEPT !.age = upTo(Oldest, @), !.spent = upTo(RequestTimeout, @)]
<1>1. /\ req' = [r \in Requests |-> IF ~InFlight(r) THEN req[r] ELSE later(req[r])]
      /\ UNCHANGED tracker
      /\ \A r \in Requests : InFlight(r) => req[r].spent # RequestTimeout
  BY DEF Tick, Due, Timed
<1>2. ASSUME NEW q \in ReqSet
      PROVE  /\ later(q).phase = q.phase /\ later(q).path = q.path
             /\ later(q).signature = q.signature
             /\ later(q).age = upTo(Oldest, q.age)
             /\ later(q).spent = upTo(RequestTimeout, q.spent)
  BY DEF ReqSet
<1>3. ASSUME NEW q \in ReqSet PROVE later(q) \in ReqSet
  <2>1. upTo(Oldest, q.age) \in Int /\ upTo(RequestTimeout, q.spent) \in 0..RequestTimeout
    BY ServerAssumption DEF ReqSet, Oldest
  <2>2. later(q) = [[q EXCEPT !.age = upTo(Oldest, q.age)]
                      EXCEPT !.spent = upTo(RequestTimeout, q.spent)]
    BY DEF ReqSet
  <2>3. \A p \in ReqSet, a \in Int : [p EXCEPT !.age = a] \in ReqSet
    BY DEF ReqSet
  <2>4. \A p \in ReqSet, s \in 0..RequestTimeout : [p EXCEPT !.spent = s] \in ReqSet
    BY DEF ReqSet
  <2> HIDE DEF upTo, later
  <2>5. [q EXCEPT !.age = upTo(Oldest, q.age)] \in ReqSet
    BY <2>1, <2>3
  <2>6. [[q EXCEPT !.age = upTo(Oldest, q.age)] EXCEPT !.spent = upTo(RequestTimeout, q.spent)]
          \in ReqSet
    BY <2>1, <2>4, <2>5
  <2> QED BY <2>2, <2>6, Zenon
<1> HIDE DEF later
<1>4. ASSUME NEW r \in Requests
      PROVE  /\ req'[r] \in ReqSet
             /\ req'[r].phase = req[r].phase /\ req'[r].path = req[r].path
             /\ req'[r].signature = req[r].signature
             /\ InFlight(r) => /\ req'[r].age = upTo(Oldest, req[r].age)
                               /\ req'[r].spent = upTo(RequestTimeout, req[r].spent)
  BY <1>1, <1>2, <1>3 DEF Types
<1>5. req' \in [Requests -> ReqSet]
  BY <1>1, <1>4
<1>6. DepositsAreCalls' /\ QuotesPlan' /\ OkIsRecorded'
  BY <1>1, <1>4 DEF ServerInv, DepositsAreCalls, DepositAt, QuotesPlan, OkIsRecorded, tracker
<1>7. ASSUME NEW r \in Requests, Protected(r)', InFlight(r)'
      PROVE  /\ req'[r].age - req'[r].spent \in -MaxAge..MaxAge
             /\ req'[r].phase # "Body" => req'[r].signature = "Valid"
  <2>1. Protected(r) /\ InFlight(r)
    BY <1>4, <1>7 DEF Protected, InFlight
  <2>2. /\ req[r].age - req[r].spent \in -MaxAge..MaxAge
        /\ req[r].phase # "Body" => req[r].signature = "Valid"
    BY <2>1 DEF ServerInv, AgesAreSpent
  <2>3. req[r].age \in Int /\ req[r].spent \in 0..RequestTimeout /\ req[r].spent # RequestTimeout
    BY <1>1, <2>1 DEF Types, ReqSet
  <2>4. req[r].age < Oldest /\ req[r].spent < RequestTimeout
    BY <2>2, <2>3, ServerAssumption DEF Oldest
  <2>5. req'[r].age = req[r].age + 1 /\ req'[r].spent = req[r].spent + 1
    BY <1>4, <2>1, <2>4
  <2> QED BY <1>4, <2>2, <2>3, <2>5, ServerAssumption
<1>8. AgesAreSpent'
  BY <1>7 DEF AgesAreSpent
<1> QED BY <1>5, <1>6, <1>8 DEF ServerInv

\* A restart loses what is in flight; what was answered stays on record.
LEMMA CrashStep ==
  ASSUME Types, TrackerInv, ServerInv, Crash
  PROVE  req' \in [Requests -> ReqSet] /\ ServerInv'
<1>1. \A r \in Requests : req'[r] = IF InFlight(r) THEN [req[r] EXCEPT !.phase = "Lost"] ELSE req[r]
  BY DEF Crash
<1>2. RowsStay
  BY ForgetStep DEF Crash, Tracked, Types, TrackerTypes
<1>3. \A q \in ReqSet : [q EXCEPT !.phase = "Lost"] \in ReqSet /\ [q EXCEPT !.phase = "Lost"].phase = "Lost"
  BY DEF ReqSet, Answers
<1>4. ASSUME NEW r \in Requests
      PROVE  req'[r] \in ReqSet /\ req'[r].phase \notin Waiting
             /\ (req'[r] = req[r] \/ req'[r].phase = "Lost")
  <2>1. req[r] \in ReqSet
    BY DEF Types
  <2>2. CASE InFlight(r)
    BY <1>1, <1>3, <2>1, <2>2 DEF Waiting
  <2>3. CASE ~InFlight(r)
    BY <1>1, <2>1, <2>3 DEF InFlight
  <2> QED BY <2>2, <2>3
<1>5. req' \in [Requests -> ReqSet]
  BY <1>4 DEF Crash
<1>6. DepositsAreCalls' /\ QuotesPlan' /\ AgesAreSpent'
  BY <1>4 DEF DepositsAreCalls, QuotesPlan, AgesAreSpent, InFlight, Waiting
<1>7. OkIsRecorded'
  BY <1>2, <1>4, ServerAssumption DEF ServerInv, OkIsRecorded, RowsStay
<1> QED BY <1>5, <1>6, <1>7 DEF ServerInv

\* Steps that leave the requests alone, and their calls where they may be.
LEMMA TrackerOnly ==
  ASSUME ServerInv, req' = req, RowsStay,
         \A r \in Requests : req[r].phase = "Storing" /\ DepositAt(r) => DepositAt(r)'
  PROVE  ServerInv'
  BY ServerAssumption
  DEF ServerInv, DepositsAreCalls, QuotesPlan, OkIsRecorded, AgesAreSpent, Protected, InFlight,
      RowsStay

\* A request that gives up drops its call.
LEMMA AbandonStep ==
  ASSUME IInv, NEW r \in Requests, NEW status \in {"408", "Lost"}, Abandon(r, status)
  PROVE  IInv'
<1>1. Tracked /\ Types /\ ServerInv /\ r \in Calls
  BY ServerAssumption DEF IInv, Tracked, Types, TrackerTypes
<1>2. Tracked' /\ RowsStay /\ \A d \in Calls \ {r} : call'[d] = call[d]
  <2>1. CASE Busy(r)
    <3>1. Stops(r, "Lost")
      BY <2>1 DEF Abandon, Drop
    <3> QED BY <1>1, <2>1, <3>1, StopStep DEF Tracked, TrackerTypes
  <2>2. CASE ~Busy(r)
    BY <1>1, <2>2
    DEF Abandon, tracker, Tracked, TrackerTypes, TrackerInv, CallsAreSound, CallsAreAlone,
        StaleIsRaced, Busy, RowsStay
  <2> QED BY <2>1, <2>2
<1>3. \A q \in Requests \ {r} : DepositAt(q) => DepositAt(q)'
  BY <1>2, ServerAssumption DEF DepositAt, RowsStay
<1>4. Answer(r, status) /\ status \in Answers \ Waiting /\ status # "200"
  BY DEF Abandon, Answers, Waiting
<1>5. req' \in [Requests -> ReqSet] /\ ServerInv'
  <2>1. status \notin {"Storing", "Planning", "200"}
    BY <1>4
  <2> QED BY <1>1, <1>2, <1>3, <1>4, <2>1, AnswerStep
<1> QED BY <1>2, <1>5 DEF IInv, Tracked, Types, TrackerTypes

\* Steps of a request that do not touch the tracker.
LEMMA RequestStep ==
  ASSUME IInv, NEW r \in Requests,
         \/ RejectBody(r) \/ RejectInput(r) \/ StartQuote(r) \/ EndQuote(r) \/ EndDeposit(r)
  PROVE  IInv'
<1>1. Types /\ ServerInv /\ UNCHANGED tracker
  BY DEF IInv, RejectBody, RejectInput, StartQuote, EndQuote, EndDeposit
<1>2. RowsStay /\ \A q \in Requests : DepositAt(q) => DepositAt(q)'
  BY <1>1 DEF tracker, RowsStay, DepositAt
<1>3. \E status \in Waiting \cup Answers :
        /\ Answer(r, status) /\ status \notin {"Storing", "Body"}
        /\ status = "Planning" => req[r].path = "Quote"
        /\ status = "200" /\ req[r].path = "Deposit" => row[r] # None
        /\ status \in Waiting => Verified(r)
  <2>1. CASE RejectBody(r) \/ RejectInput(r)
    BY <2>1 DEF RejectBody, RejectInput, Waiting, Answers
  <2>2. CASE StartQuote(r)
    BY <2>2 DEF StartQuote, Waiting, Answers
  <2>3. CASE EndQuote(r)
    <3>1. req[r].path = "Quote"
      BY <1>1, <2>3 DEF EndQuote, ServerInv, QuotesPlan
    <3> QED BY <2>3, <3>1 DEF EndQuote, Waiting, Answers
  <2>4. CASE EndDeposit(r)
    <3>1. call[r].phase = "Ok" => row[r] # None
      BY <1>1, <2>4 DEF EndDeposit, ServerInv, DepositsAreCalls, DepositAt
    <3> QED BY <2>4, <3>1 DEF EndDeposit, Waiting, Answers
  <2> QED BY <2>1, <2>2, <2>3, <2>4
<1>4. req' \in [Requests -> ReqSet] /\ ServerInv'
  BY <1>1, <1>2, <1>3, AnswerStep DEF tracker
<1> QED BY <1>1, <1>4
  DEF IInv, Types, TrackerInv, CallsAreSound, CallsAreAlone, StaleIsRaced, Busy, tracker

\* A deposit enters its transaction as pending.
LEMMA DepositStep ==
  ASSUME IInv, NEW r \in Requests, StartDeposit(r)
  PROVE  IInv'
<1>1. /\ Tracked /\ Types /\ ServerInv /\ r \in Calls /\ r \in Ids /\ "pending" \in Versions
      /\ Answer(r, "Storing") /\ BeginInsert(r, r, "pending")
  BY ServerAssumption DEF IInv, Tracked, Types, TrackerTypes, StartDeposit
<1>2. Tracked' /\ UNCHANGED row
  BY <1>1, BeginsTracked
<1>3. call'[r] = At("Write", r, "pending") /\ \A d \in Calls \ {r} : call'[d] = call[d]
  BY <1>1 DEF BeginInsert, Begin, Tracked, TrackerTypes
<1>4. DepositAt(r)' /\ \A q \in Requests \ {r} : DepositAt(q) => DepositAt(q)'
  BY <1>2, <1>3, ServerAssumption DEF DepositAt, At
<1>5. req' \in [Requests -> ReqSet] /\ ServerInv'
  <2>1. "Storing" \in Waiting \cup Answers /\ Verified(r) /\ RowsStay
    BY <1>2 DEF Waiting, StartDeposit, RowsStay
  <2> QED BY <1>1, <1>4, <2>1, AnswerStep
<1> QED BY <1>2, <1>5 DEF IInv, Tracked, Types, TrackerTypes

\* A caller of the library has calls of its own.
LEMMA LibraryStep ==
  ASSUME IInv, NEW c \in Callers, UseLibrary(c)
  PROVE  IInv'
<1>1. Tracked /\ ServerInv /\ c \in Calls /\ req' = req
  BY ServerAssumption DEF IInv, Tracked, Types, TrackerTypes, UseLibrary, server
<1>2. Tracked' /\ RowsStay
  <2>1. CASE Drop(c)
    BY <1>1, <2>1, StopStep DEF Drop
  <2>2. ASSUME NEW r \in Requests, (\E tx \in Versions : BeginInsert(c, r, tx)) \/ BeginGet(c, r)
        PROVE  Tracked' /\ RowsStay
    BY <1>1, <2>2, BeginsTracked, ServerAssumption DEF RowsStay
  <2> QED BY <2>1, <2>2 DEF UseLibrary, Answered
<1>3. \A d \in Calls \ {c} : call'[d] = call[d]
  BY <1>1 DEF UseLibrary, BeginInsert, BeginGet, Begin, Drop, Stops, Tracked, TrackerTypes
<1>4. \A r \in Requests : DepositAt(r) => DepositAt(r)'
  BY <1>2, <1>3, ServerAssumption DEF DepositAt, RowsStay
<1> QED BY <1>1, <1>2, <1>4, TrackerOnly DEF IInv, Tracked, Types, TrackerTypes

-----------------------------------------------------------------------------
(* The inductive invariant, and what follows from it.                       *)
LEMMA InitIInv == Init => IInv
<1> SUFFICES ASSUME Init PROVE IInv
  OBVIOUS
<1>1. NotSent \in ReqSet /\ NotSent.phase = "Idle"
  BY ServerAssumption DEF NotSent, ReqSet
<1>2. Types
  BY <1>1, EndedIsIdle DEF Init, TrackerInit, Types, Entries
<1>3. TrackerInv
  BY EndedIsIdle
  DEF Init, TrackerInit, TrackerInv, CallsAreSound, CallsAreAlone, StaleIsRaced, Busy, Running
<1>4. ServerInv
  BY <1>1 DEF Init, ServerInv, DepositsAreCalls, QuotesPlan, OkIsRecorded, AgesAreSpent,
              InFlight, Waiting
<1> QED BY <1>2, <1>3, <1>4 DEF IInv

\* Every step keeps the invariant.
LEMMA StepIInv == IInv /\ [Next]_vars => IInv'
<1> SUFFICES ASSUME IInv, [Next]_vars PROVE IInv'
  OBVIOUS
<1>0. Tracked /\ Types /\ TrackerInv /\ ServerInv
  BY DEF IInv, Tracked, Types, TrackerTypes
<1>1. CASE UNCHANGED vars
  BY <1>1
  DEF vars, tracker, IInv, Types, TrackerInv, CallsAreSound, CallsAreAlone, StaleIsRaced, Busy,
      ServerInv, DepositsAreCalls, DepositAt, QuotesPlan, OkIsRecorded, AgesAreSpent,
      Protected, InFlight
<1>2. CASE Tick
  <2>1. req' \in [Requests -> ReqSet] /\ ServerInv'
    BY <1>0, <1>2, TickStep
  <2>2. UNCHANGED tracker
    BY <1>2 DEF Tick
  <2> QED BY <1>0, <2>1, <2>2
    DEF tracker, IInv, Types, TrackerInv, CallsAreSound, CallsAreAlone, StaleIsRaced, Busy
<1>3. CASE Crash
  <2>1. Die
    BY <1>3 DEF Crash
  <2> QED BY <1>0, <1>3, <2>1, CrashStep, ForgetStep DEF IInv, Tracked, Types, TrackerTypes
<1>4. ASSUME NEW r \in Requests, NEW path \in Paths, NEW signature \in Signatures,
             NEW age \in -(MaxAge + 1)..(MaxAge + 1), Arrive(r, path, signature, age)
      PROVE  IInv'
  <2>1. req' \in [Requests -> ReqSet] /\ ServerInv' /\ UNCHANGED tracker
    BY <1>0, <1>4, ArriveStep DEF Arrive
  <2> QED BY <1>0, <2>1
    DEF tracker, IInv, Types, TrackerInv, CallsAreSound, CallsAreAlone, StaleIsRaced, Busy
<1>5. ASSUME NEW r \in Requests, TimeOut(r) \/ Disconnect(r) PROVE IInv'
  BY <1>5, AbandonStep DEF TimeOut, Disconnect
<1>6. ASSUME NEW c \in Calls, Proceed(c), UNCHANGED server PROVE IInv'
  <2>1. Tracked' /\ RowsStay /\ req' = req
    BY <1>0, <1>6, ProceedStep DEF server
  <2>2. \A r \in Requests : DepositAt(r) => DepositAt(r)'
    BY <1>0, <1>6, DepositProceeds
  <2> QED BY <1>0, <2>1, <2>2, TrackerOnly DEF IInv, Tracked, Types, TrackerTypes
<1>7. ASSUME NEW r \in Requests, NEW tx \in Versions, OtherEngine(r, tx) PROVE IInv'
  <2>1. Tracked' /\ RowsStay /\ req' = req /\ call' = call
    BY <1>0, <1>7, ElsewhereStep, ServerAssumption DEF OtherEngine, server
  <2>2. \A q \in Requests : DepositAt(q) => DepositAt(q)'
    BY <2>1, ServerAssumption DEF DepositAt, RowsStay
  <2> QED BY <1>0, <2>1, <2>2, TrackerOnly DEF IInv, Tracked, Types, TrackerTypes
<1>8. ASSUME NEW id \in Ids, Expire(id), UNCHANGED server PROVE IInv'
  <2>1. Tracked' /\ RowsStay /\ req' = req /\ UNCHANGED <<row, call>>
    BY <1>0, <1>8, ForgetStep DEF server, Expire
  <2>2. \A r \in Requests : DepositAt(r) => DepositAt(r)'
    BY <2>1 DEF DepositAt
  <2> QED BY <1>0, <2>1, <2>2, TrackerOnly DEF IInv, Tracked, Types, TrackerTypes
<1> QED
  BY <1>1, <1>2, <1>3, <1>4, <1>5, <1>6, <1>7, <1>8, RequestStep, DepositStep, LibraryStep DEF Next

\* The invariant holds in every behaviour.
LEMMA Invariance == Spec => []IInv
  BY InitIInv, StepIInv, PTL DEF Spec

\* What a handler of a protected path is at work on was signed with the right
\* key, and no longer ago than the replay window and the request timeout
\* together (auth.rs:166).
THEOREM HandledRequestsAreRecent == Spec => []HandledIsRecent
<1>1. IInv => HandledIsRecent
  <2> SUFFICES ASSUME IInv, NEW r \in Requests, Protected(r), req[r].phase \in {"Planning", "Storing"}
               PROVE  req[r].signature = "Valid" /\ req[r].age \in -MaxAge..(MaxAge + RequestTimeout)
    BY DEF HandledIsRecent
  <2>1. req[r].age - req[r].spent \in -MaxAge..MaxAge /\ req[r].signature = "Valid"
    BY DEF IInv, ServerInv, AgesAreSpent, InFlight, Waiting
  <2>2. req[r].age \in Int /\ req[r].spent \in 0..RequestTimeout
    BY DEF IInv, Types, ReqSet
  <2> QED BY <2>1, <2>2, ServerAssumption
<1> QED BY <1>1, Invariance, PTL

\* A deposit that was answered with its id is on record (sep24.rs:67), however
\* its calls and the process ended.
THEOREM AnsweredDepositsAreRecorded == Spec => []OkIsRecorded
<1>1. IInv => OkIsRecorded
  BY DEF IInv, ServerInv
<1> QED BY <1>1, Invariance, PTL

\* With any number of engines on the table, the tracker's cache strays from it
\* only while an insert is between the two, since another engine overtook the
\* entry, or by a race or an interrupted insert (tracker.rs:97).
THEOREM StaleEntriesAreRaced == Spec => []StaleIsRaced
<1>1. IInv => StaleIsRaced
  BY DEF IInv, TrackerInv
<1> QED BY <1>1, Invariance, PTL
=============================================================================
