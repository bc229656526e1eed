------------------------ MODULE ClusterCacheProofs ------------------------
(* For any number of nodes, chains, messages, outages and restarts: how    *)
(* old a cached fee can be, what can keep one that was invalidated, and    *)
(* how the subscriber's backoff grows.                                     *)
EXTENDS ClusterCache, FiniteSetTheorems, TLAPS

Fates    == {"Unread", "Fresh", "Due", "Missed", "Raced"}
Fees     == [age : Nat, read : Nat, fate : Fates]
Messages == Chains \cup {"All", "Malformed"}

Types ==
  /\ entry \in [Nodes -> [Quoted -> Fees \cup {None}]]
  /\ fetch \in [Nodes -> [Quoted -> Fees \cup {None}]]
  /\ stream \in [Nodes -> Seq(Messages)]
  /\ admin \in [Nodes -> Chains \cup {"All", None}]
  /\ backoff \in [Nodes -> Nat] /\ sleeps \in [Nodes -> Nat]

\* A fetch ends before its client's timeout is over.
FetchIsRecent ==
  \A n \in Nodes, c \in Quoted : fetch[n][c] # None =>
    fetch[n][c].age <= FetchTimeout /\ fetch[n][c].read <= fetch[n][c].age

\* A cached fee was read at most one fetch before it was stored.
EntryIsRecent ==
  \A n \in Nodes, c \in Quoted : entry[n][c] # None =>
    entry[n][c].age < Ttl /\ entry[n][c].read <= entry[n][c].age + FetchTimeout

\* An invalidation of `c` is on its way to node `n`.
UnderWay(n, c) ==
  \/ \E k \in Nodes : admin[k] # None /\ c \in Covers(admin[k])
  \/ \E i \in DOMAIN stream[n] : c \in Covers(stream[n][i])

DueIsUnderWay ==
  \A n \in Nodes, c \in Quoted :
    /\ entry[n][c] # None /\ entry[n][c].fate = "Due" => UnderWay(n, c)
    /\ fetch[n][c] # None /\ fetch[n][c].fate = "Due" => UnderWay(n, c)

IInv == Types /\ FetchIsRecent /\ EntryIsRecent /\ DueIsUnderWay /\ BackoffFollowsFailures

-----------------------------------------------------------------------------
\* What an invalidation makes of a fee: it is gone, or keeps its age and gets
\* the fate `to` if the invalidation hits it.
Follows(g, f, hit, to) ==
  g # None => /\ f # None /\ g.age = f.age /\ g.read = f.read
              /\ g.fate = IF hit THEN to ELSE f.fate

\* Fees that a message meets at one node.
LEMMA MeetFollows ==
  ASSUME NEW f \in [Quoted -> Fees \cup {None}], NEW chains, NEW from, NEW to \in Fates
  PROVE  /\ Meet(f, chains, from, to) \in [Quoted -> Fees \cup {None}]
         /\ \A c \in Quoted :
              Follows(Meet(f, chains, from, to)[c], f[c], c \in chains /\ f[c].fate \in from, to)
<1>1. ASSUME NEW c \in Quoted, c \in chains, f[c] # None, f[c].fate \in from
      PROVE  LET g == [f[c] EXCEPT !.fate = to] IN
             g \in Fees /\ g.age = f[c].age /\ g.read = f[c].read /\ g.fate = to
  BY <1>1 DEF Fees
<1>2. ASSUME NEW c \in Quoted
      PROVE  LET g == Meet(f, chains, from, to)[c] IN
             /\ g \in Fees \cup {None}
             /\ Follows(g, f[c], c \in chains /\ f[c].fate \in from, to)
  BY <1>1 DEF Meet, Follows
<1> QED BY <1>2 DEF Meet

\* Fees that a message meets at some of the nodes.
LEMMA MeetAtFollows ==
  ASSUME NEW fees \in [Nodes -> [Quoted -> Fees \cup {None}]],
         NEW nodes, NEW m, NEW from, NEW to \in Fates
  PROVE  /\ MeetAt(fees, nodes, m, from, to) \in [Nodes -> [Quoted -> Fees \cup {None}]]
         /\ \A n \in Nodes, c \in Quoted :
              Follows(MeetAt(fees, nodes, m, from, to)[n][c], fees[n][c],
                      n \in nodes /\ c \in Covers(m) /\ fees[n][c].fate \in from, to)
<1>1. ASSUME NEW n \in Nodes, NEW c \in Quoted
      PROVE  /\ MeetAt(fees, nodes, m, from, to)[n] \in [Quoted -> Fees \cup {None}]
             /\ Follows(MeetAt(fees, nodes, m, from, to)[n][c], fees[n][c],
                        n \in nodes /\ c \in Covers(m) /\ fees[n][c].fate \in from, to)
  BY MeetFollows DEF MeetAt, Follows
<1>2. \A n \in Nodes : MeetAt(fees, nodes, m, from, to)[n] \in [Quoted -> Fees \cup {None}]
  BY MeetFollows DEF MeetAt
<1> QED BY <1>1, <1>2 DEF MeetAt

\* What a node keeps of its cache when it evicts.
LEMMA EvictedFollows ==
  ASSUME NEW f \in [Quoted -> Fees \cup {None}], NEW m
  PROVE  /\ Evicted(f, m) \in [Quoted -> Fees \cup {None}]
         /\ \A c \in Quoted : c \in Covers(m) => Evicted(f, m)[c] = None
         /\ \A c \in Quoted : c \notin Covers(m) => Evicted(f, m)[c] = f[c]
  BY DEF Evicted

\* The powers of two, as the number of subsets of 1..n.
LEMMA Powers ==
  ASSUME NEW n \in Nat
  PROVE  2^n \in Nat /\ 2^(n + 1) = 2 * 2^n
<1> DEFINE old   == SUBSET (1..n)
           new   == {T \cup {n + 1} : T \in old}
           add   == [T \in old |-> T \cup {n + 1}]
<1>1. Cardinality(1..n) = n /\ Cardinality(1..n + 1) = n + 1
      /\ IsFiniteSet(1..n) /\ IsFiniteSet(1..n + 1)
  BY FS_Interval
<1>2. IsFiniteSet(old) /\ Cardinality(old) = 2^n
      /\ IsFiniteSet(SUBSET (1..n + 1)) /\ Cardinality(SUBSET (1..n + 1)) = 2^(n + 1)
  BY <1>1, FS_SUBSET
<1>3. add \in Bijection(old, new)
  <2>1. \A T \in old : n + 1 \notin T
    OBVIOUS
  <2>2. \A T, U \in old : T \cup {n + 1} = U \cup {n + 1} => T = U
    <3> SUFFICES ASSUME NEW T \in old, NEW U \in old, T \cup {n + 1} = U \cup {n + 1}
                 PROVE  T \subseteq U /\ U \subseteq T
      OBVIOUS
    <3> HIDE DEF old
    <3> QED BY <2>1
  <2>3. add \in [old -> new]
    OBVIOUS
  <2> HIDE DEF old
  <2>4. IsInjective(add)
    BY <2>2 DEF IsInjective
  <2>5. \A t \in new : \E T \in old : add[T] = t
    OBVIOUS
  <2> HIDE DEF new, add
  <2> QED BY <2>3, <2>4, <2>5 DEF Bijection, Injection, Surjection
<1>4. IsFiniteSet(new) /\ Cardinality(new) = 2^n
  <2> HIDE DEF old, new, add
  <2> QED BY <1>2, <1>3, FS_Bijection DEF ExistsBijection
<1>5. SUBSET (1..n + 1) = old \cup new
  <2>1. ASSUME NEW S \in SUBSET (1..n + 1), n + 1 \in S PROVE S \in new
    <3>1. S \ {n + 1} \in old /\ S = (S \ {n + 1}) \cup {n + 1}
      BY <2>1
    <3> QED BY <3>1
  <2>2. ASSUME NEW S \in SUBSET (1..n + 1), n + 1 \notin S PROVE S \in old
    BY <2>2
  <2>3. \A S \in old \cup new : S \subseteq 1..n + 1
    OBVIOUS
  <2> QED BY <2>1, <2>2, <2>3
<1>6. old \cap new = {}
  BY \A T \in old : n + 1 \notin T
<1>7. Cardinality(old \cup new) = Cardinality(old) + Cardinality(new) - Cardinality({})
  <2> HIDE DEF old, new
  <2> QED BY <1>2, <1>4, <1>6, FS_Union
<1>8. Cardinality({}) = 0 /\ Cardinality(old) \in Nat
  BY <1>2, FS_EmptySet, FS_CardinalityType
<1> HIDE DEF old, new
<1>9. Cardinality(old \cup new) = 2 * Cardinality(old)
  <2>1. Cardinality(new) = Cardinality(old)
    BY <1>2, <1>4, Zenon
  <2> QED BY <1>7, <1>8, <2>1
<1> QED BY <1>2, <1>5, <1>8, <1>9, Zenon

-----------------------------------------------------------------------------
(* What each action makes of the fees.                                      *)
CacheTypes ==
  /\ entry \in [Nodes -> [Quoted -> Fees \cup {None}]]
  /\ fetch \in [Nodes -> [Quoted -> Fees \cup {None}]]

\* The node of the request evicts; with a publisher, the others' fees are due.
LEMMA InvalidateEffect ==
  ASSUME CacheTypes, NEW n \in Nodes, NEW m \in Chains \cup {"All"}, Invalidate(n, m)
  PROVE  /\ CacheTypes'
         /\ \A k \in Nodes, c \in Quoted :
              LET fate == IF n \in transport THEN "Due" ELSE "Missed"
                  hit(f) == c \in Covers(m) /\ f.fate \in {"Fresh"} IN
              /\ k = n => /\ c \in Covers(m) => entry'[k][c] = None
                          /\ c \notin Covers(m) => entry'[k][c] = entry[k][c]
                          /\ Follows(fetch'[k][c], fetch[k][c],
                                     c \in Covers(m) /\ fetch[k][c].fate \in {"Fresh", "Due"}, "Raced")
              /\ k # n => /\ Follows(entry'[k][c], entry[k][c], hit(entry[k][c]), fate)
                          /\ Follows(fetch'[k][c], fetch[k][c], hit(fetch[k][c]), fate)
<1> DEFINE fate == IF n \in transport THEN "Due" ELSE "Missed"
<1>1. fate \in Fates /\ "Raced" \in Fates
  BY DEF Fates
<1> HIDE DEF fate
<1>2. ASSUME NEW k \in Nodes, k = n
      PROVE  /\ entry'[k] = Evicted(entry[k], m)
             /\ fetch'[k] = Meet(fetch[k], Covers(m), {"Fresh", "Due"}, "Raced")
  BY <1>2 DEF Invalidate
<1>3. ASSUME NEW k \in Nodes, k # n
      PROVE  /\ entry'[k] = Meet(entry[k], Covers(m), {"Fresh"}, fate)
             /\ fetch'[k] = Meet(fetch[k], Covers(m), {"Fresh"}, fate)
  BY <1>3 DEF Invalidate, fate
<1>4. ASSUME NEW k \in Nodes
      PROVE  /\ entry[k] \in [Quoted -> Fees \cup {None}] /\ fetch[k] \in [Quoted -> Fees \cup {None}]
             /\ entry'[k] \in [Quoted -> Fees \cup {None}] /\ fetch'[k] \in [Quoted -> Fees \cup {None}]
  <2>1. entry[k] \in [Quoted -> Fees \cup {None}] /\ fetch[k] \in [Quoted -> Fees \cup {None}]
    BY DEF CacheTypes
  <2> QED BY <1>1, <1>2, <1>3, <2>1, MeetFollows, EvictedFollows
<1>5. CacheTypes'
  BY <1>4 DEF Invalidate, CacheTypes
<1>6. ASSUME NEW k \in Nodes, NEW c \in Quoted, k = n
      PROVE  /\ c \in Covers(m) => entry'[k][c] = None
             /\ c \notin Covers(m) => entry'[k][c] = entry[k][c]
             /\ Follows(fetch'[k][c], fetch[k][c],
                        c \in Covers(m) /\ fetch[k][c].fate \in {"Fresh", "Due"}, "Raced")
  BY <1>1, <1>2, <1>4, <1>6, MeetFollows, EvictedFollows
<1>7. ASSUME NEW k \in Nodes, NEW c \in Quoted, k # n
      PROVE  /\ Follows(entry'[k][c], entry[k][c], c \in Covers(m) /\ entry[k][c].fate \in {"Fresh"}, fate)
             /\ Follows(fetch'[k][c], fetch[k][c], c \in Covers(m) /\ fetch[k][c].fate \in {"Fresh"}, fate)
  BY <1>1, <1>3, <1>4, <1>7, MeetFollows
<1> QED BY <1>5, <1>6, <1>7 DEF fate

\* What is due to nodes that a message does not reach is missed.
LEMMA UnreachedEffect ==
  ASSUME CacheTypes, NEW nodes, NEW m, Unreached(nodes, m)
  PROVE  /\ CacheTypes'
         /\ \A k \in Nodes, c \in Quoted :
              LET hit(f) == k \in nodes /\ c \in Covers(m) /\ f.fate \in {"Due"} IN
              /\ Follows(entry'[k][c], entry[k][c], hit(entry[k][c]), "Missed")
              /\ Follows(fetch'[k][c], fetch[k][c], hit(fetch[k][c]), "Missed")
  BY MeetAtFollows DEF Unreached, CacheTypes, Fates

\* The node evicts what its first message names; a fetch of it goes on.
LEMMA ApplyEffect ==
  ASSUME CacheTypes, NEW n \in Nodes, Apply(n)
  PROVE  /\ CacheTypes'
         /\ \A k \in Nodes \ {n}, c \in Quoted :
              entry'[k][c] = entry[k][c] /\ fetch'[k][c] = fetch[k][c]
         /\ \A c \in Quoted :
              /\ c \in Covers(Head(stream[n])) => entry'[n][c] = None
              /\ c \notin Covers(Head(stream[n])) => entry'[n][c] = entry[n][c]
              /\ Follows(fetch'[n][c], fetch[n][c],
                         c \in Covers(Head(stream[n])) /\ fetch[n][c].fate \in {"Due"}, "Raced")
<1> DEFINE m == Head(stream[n])
<1> HIDE DEF m
<1>1. /\ entry' = [entry EXCEPT ![n] = Evicted(entry[n], m)]
      /\ fetch' = [fetch EXCEPT ![n] = Meet(fetch[n], Covers(m), {"Due"}, "Raced")]
  BY DEF Apply, m
<1>2. entry[n] \in [Quoted -> Fees \cup {None}] /\ fetch[n] \in [Quoted -> Fees \cup {None}]
  BY DEF CacheTypes
<1>3. /\ entry'[n] = Evicted(entry[n], m)
      /\ fetch'[n] = Meet(fetch[n], Covers(m), {"Due"}, "Raced")
      /\ \A k \in Nodes \ {n} : entry'[k] = entry[k] /\ fetch'[k] = fetch[k]
  BY <1>1 DEF CacheTypes
<1>4. entry'[n] \in [Quoted -> Fees \cup {None}] /\ fetch'[n] \in [Quoted -> Fees \cup {None}]
  BY <1>2, <1>3, MeetFollows, EvictedFollows DEF Fates
<1>5. CacheTypes'
  BY <1>1, <1>3, <1>4 DEF CacheTypes
<1>6. ASSUME NEW c \in Quoted
      PROVE  /\ c \in Covers(m) => entry'[n][c] = None
             /\ c \notin Covers(m) => entry'[n][c] = entry[n][c]
             /\ Follows(fetch'[n][c], fetch[n][c],
                        c \in Covers(m) /\ fetch[n][c].fate \in {"Due"}, "Raced")
  BY <1>2, <1>3, MeetFollows, EvictedFollows DEF Fates
<1> QED BY <1>3, <1>5, <1>6 DEF m

\* With the connection goes what was not applied.
LEMMA DropEffect ==
  ASSUME CacheTypes, NEW n \in Nodes, Drop(n)
  PROVE  /\ CacheTypes'
         /\ \A k \in Nodes \ {n}, c \in Quoted :
              entry'[k][c] = entry[k][c] /\ fetch'[k][c] = fetch[k][c]
         /\ \A c \in Quoted :
              LET hit(f) == /\ \E i \in DOMAIN stream[n] : c \in Covers(stream[n][i])
                            /\ f.fate \in {"Due"} IN
              /\ Follows(entry'[n][c], entry[n][c], hit(entry[n][c]), "Missed")
              /\ Follows(fetch'[n][c], fetch[n][c], hit(fetch[n][c]), "Missed")
<1> DEFINE lost == {c \in Quoted : \E i \in DOMAIN stream[n] : c \in Covers(stream[n][i])}
<1>1. /\ entry' = [entry EXCEPT ![n] = Meet(entry[n], lost, {"Due"}, "Missed")]
      /\ fetch' = [fetch EXCEPT ![n] = Meet(fetch[n], lost, {"Due"}, "Missed")]
  BY DEF Drop
<1>2. \A c \in Quoted : c \in lost <=> \E i \in DOMAIN stream[n] : c \in Covers(stream[n][i])
  OBVIOUS
<1> HIDE DEF lost
<1>3. entry[n] \in [Quoted -> Fees \cup {None}] /\ fetch[n] \in [Quoted -> Fees \cup {None}]
  BY DEF CacheTypes
<1>4. /\ entry'[n] = Meet(entry[n], lost, {"Due"}, "Missed")
      /\ fetch'[n] = Meet(fetch[n], lost, {"Due"}, "Missed")
      /\ \A k \in Nodes \ {n} : entry'[k] = entry[k] /\ fetch'[k] = fetch[k]
  BY <1>1 DEF CacheTypes
<1>5. entry'[n] \in [Quoted -> Fees \cup {None}] /\ fetch'[n] \in [Quoted -> Fees \cup {None}]
  BY <1>3, <1>4, MeetFollows DEF Fates
<1>6. CacheTypes'
  BY <1>1, <1>4, <1>5 DEF CacheTypes
<1>7. ASSUME NEW c \in Quoted
      PROVE  /\ Follows(entry'[n][c], entry[n][c], c \in lost /\ entry[n][c].fate \in {"Due"}, "Missed")
             /\ Follows(fetch'[n][c], fetch[n][c], c \in lost /\ fetch[n][c].fate \in {"Due"}, "Missed")
  BY <1>3, <1>4, MeetFollows DEF Fates
<1> QED BY <1>2, <1>4, <1>6, <1>7

\* A restart empties the node's caches and loses the message of its request.
LEMMA RestartEffect ==
  ASSUME CacheTypes, NEW n \in Nodes, Restart(n)
  PROVE  /\ CacheTypes'
         /\ \A c \in Quoted : entry'[n][c] = None /\ fetch'[n][c] = None
         /\ \A k \in Nodes \ {n}, c \in Quoted :
              LET hit(f) == /\ admin[n] # None /\ c \in Covers(admin[n])
                            /\ f.fate \in {"Due"} IN
              /\ Follows(entry'[k][c], entry[k][c], hit(entry[k][c]), "Missed")
              /\ Follows(fetch'[k][c], fetch[k][c], hit(fetch[k][c]), "Missed")
<1>1. entry'[n] = NoFees /\ fetch'[n] = NoFees /\ NoFees \in [Quoted -> Fees \cup {None}]
  BY DEF Restart, NoFees
<1>2. ASSUME NEW k \in Nodes, k # n
      PROVE  \/ /\ admin[n] = None
                /\ entry'[k] = entry[k] /\ fetch'[k] = fetch[k]
             \/ /\ admin[n] # None
                /\ entry'[k] = Meet(entry[k], Covers(admin[n]), {"Due"}, "Missed")
                /\ fetch'[k] = Meet(fetch[k], Covers(admin[n]), {"Due"}, "Missed")
  BY <1>2 DEF Restart
<1>3. ASSUME NEW k \in Nodes, k # n
      PROVE  /\ entry[k] \in [Quoted -> Fees \cup {None}] /\ fetch[k] \in [Quoted -> Fees \cup {None}]
             /\ entry'[k] \in [Quoted -> Fees \cup {None}] /\ fetch'[k] \in [Quoted -> Fees \cup {None}]
  <2>1. entry[k] \in [Quoted -> Fees \cup {None}] /\ fetch[k] \in [Quoted -> Fees \cup {None}]
    BY DEF CacheTypes
  <2> QED BY <1>2, <1>3, <2>1, MeetFollows DEF Fates
<1>4. CacheTypes'
  BY <1>1, <1>3 DEF Restart, CacheTypes
<1>5. ASSUME NEW k \in Nodes, k # n, NEW c \in Quoted
      PROVE  LET hit(f) == /\ admin[n] # None /\ c \in Covers(admin[n])
                           /\ f.fate \in {"Due"} IN
             /\ Follows(entry'[k][c], entry[k][c], hit(entry[k][c]), "Missed")
             /\ Follows(fetch'[k][c], fetch[k][c], hit(fetch[k][c]), "Missed")
  <2>1. CASE admin[n] = None
    BY <1>2, <1>5, <2>1 DEF Follows
  <2>2. CASE admin[n] # None
    <3>1. \A f \in [Quoted -> Fees \cup {None}] :
            Follows(Meet(f, Covers(admin[n]), {"Due"}, "Missed")[c], f[c],
                    c \in Covers(admin[n]) /\ f[c].fate \in {"Due"}, "Missed")
      BY MeetFollows DEF Fates
    <3>2. /\ entry'[k] = Meet(entry[k], Covers(admin[n]), {"Due"}, "Missed")
          /\ fetch'[k] = Meet(fetch[k], Covers(admin[n]), {"Due"}, "Missed")
      BY <1>2, <1>5, <2>2
    <3> QED BY <1>3, <1>5, <2>2, <3>1, <3>2
  <2> QED BY <2>1, <2>2
<1> QED BY <1>1, <1>4, <1>5 DEF NoFees

-----------------------------------------------------------------------------
(* How old a fee can be.                                                    *)
Recent == CacheTypes /\ FetchIsRecent /\ EntryIsRecent

\* Fees that only disappear, or change their fate, stay recent.
LEMMA StaysRecent ==
  ASSUME Recent, CacheTypes',
         \A n \in Nodes, c \in Quoted :
           /\ entry'[n][c] # None => /\ entry[n][c] # None
                                     /\ entry'[n][c].age = entry[n][c].age
                                     /\ entry'[n][c].read = entry[n][c].read
           /\ fetch'[n][c] # None => /\ fetch[n][c] # None
                                     /\ fetch'[n][c].age = fetch[n][c].age
                                     /\ fetch'[n][c].read = fetch[n][c].read
  PROVE  Recent'
  BY DEF Recent, FetchIsRecent, EntryIsRecent

\* A fee or a fetch a tick later, and a fetch that was answered.
Waiting(f)  == [f EXCEPT !.age = @ + 1]
Later(f)    == [f EXCEPT !.age = @ + 1, !.read = @ + 1]
Answered(f) == [f EXCEPT !.fate = "Fresh", !.read = 0]

\* They are fees again, with these ages.
LEMMA LaterFees ==
  ASSUME NEW f \in Fees
  PROVE  /\ f.age \in Nat /\ f.read \in Nat
         /\ Waiting(f) \in Fees /\ Waiting(f).age = f.age + 1
         /\ Waiting(f).read = f.read
         /\ Later(f) \in Fees /\ Later(f).age = f.age + 1 /\ Later(f).read = f.read + 1
         /\ Answered(f) \in Fees /\ Answered(f).age = f.age /\ Answered(f).read = 0
<1>1. f.age \in Nat /\ f.read \in Nat
  BY DEF Fees
<1>2. ASSUME NEW g \in Fees, NEW k \in Nat PROVE [g EXCEPT !.read = k] \in Fees
  BY DEF Fees
<1>3. Waiting(f) \in Fees
  BY DEF Waiting, Fees
<1>4. [f EXCEPT !.fate = "Fresh"] \in Fees
  BY DEF Fees, Fates
<1>5. Later(f) = [Waiting(f) EXCEPT !.read = f.read + 1]
  BY DEF Later, Waiting
<1>6. Answered(f) = [[f EXCEPT !.fate = "Fresh"] EXCEPT !.read = 0]
  BY DEF Answered
<1>7. Later(f) \in Fees /\ Answered(f) \in Fees
  <2>1. f.read + 1 \in Nat /\ 0 \in Nat
    BY <1>1
  <2>2. [Waiting(f) EXCEPT !.read = f.read + 1] \in Fees
    BY <1>2, <1>3, <2>1
  <2>3. [[f EXCEPT !.fate = "Fresh"] EXCEPT !.read = 0] \in Fees
    BY <1>2, <1>4, <2>1
  <2> QED BY <1>5, <1>6, <2>2, <2>3, Zenon
<1>8. Waiting(f).age = f.age + 1 /\ Waiting(f).read = f.read
  BY DEF Waiting, Fees
<1>9. Later(f).age = f.age + 1 /\ Later(f).read = f.read + 1
  BY DEF Later, Fees
<1>10. Answered(f).age = f.age /\ Answered(f).read = 0
  BY DEF Answered, Fees
<1> QED BY <1>1, <1>3, <1>7, <1>8, <1>9, <1>10

\* The oracle's own steps, and the passing of time.
LEMMA OracleStep ==
  ASSUME Recent,
         \/ Tick
         \/ \E n \in Nodes, c \in Quoted :
              StartFetch(n, c) \/ Answer(n, c) \/ Insert(n, c) \/ FetchFails(n, c)
  PROVE  Recent'
<1>0. \A a \in Nat : a < Ttl /\ a + 1 # Ttl => a + 1 < Ttl
  BY ClusterCacheAssumption
<1> USE ClusterCacheAssumption DEF Recent, CacheTypes
<1>1. ASSUME NEW n \in Nodes, NEW c \in Quoted, NEW fee \in Fees \cup {None},
             fetch' = [fetch EXCEPT ![n][c] = fee], entry' = entry,
             fee # None => fee.age <= FetchTimeout /\ fee.read <= fee.age
      PROVE  Recent'
  <2>1. CacheTypes'
    BY <1>1
  <2> QED BY <1>1, <2>1 DEF FetchIsRecent, EntryIsRecent
<1>2. ASSUME NEW n \in Nodes, NEW c \in Quoted, StartFetch(n, c) PROVE Recent'
  <2> DEFINE fee == [age |-> 0, read |-> 0, fate |-> "Unread"]
  <2>1. fee \in Fees /\ fee.age <= FetchTimeout /\ fee.read <= fee.age
    BY DEF Fees, Fates
  <2>2. fetch' = [fetch EXCEPT ![n][c] = fee] /\ entry' = entry
    BY <1>2 DEF StartFetch
  <2> HIDE DEF fee
  <2> QED BY <1>1, <2>1, <2>2
<1>3. ASSUME NEW n \in Nodes, NEW c \in Quoted, Answer(n, c) PROVE Recent'
  <2> DEFINE fee == Answered(fetch[n][c])
  <2>1. fetch[n][c] \in Fees /\ fetch[n][c].age <= FetchTimeout
    BY <1>3 DEF Answer, FetchIsRecent
  <2>2. fee \in Fees /\ fee.age <= FetchTimeout /\ fee.read <= fee.age
    BY <2>1, LaterFees
  <2>3. fetch' = [fetch EXCEPT ![n][c] = fee] /\ entry' = entry
    BY <1>3, <2>1 DEF Answer, Fees, Answered
  <2> HIDE DEF fee
  <2> QED BY <1>1, <2>2, <2>3
<1>4. ASSUME NEW n \in Nodes, NEW c \in Quoted, Insert(n, c) PROVE Recent'
  <2> DEFINE fee == [age |-> 0, read |-> fetch[n][c].read, fate |-> fetch[n][c].fate]
  <2>1. fetch[n][c] \in Fees /\ fetch[n][c].read <= FetchTimeout
    BY <1>4 DEF Insert, FetchIsRecent, Fees
  <2>2. fee \in Fees /\ fee.age < Ttl /\ fee.read <= fee.age + FetchTimeout
    BY <2>1 DEF Fees
  <2>3. entry' = [entry EXCEPT ![n][c] = fee] /\ fetch' = [fetch EXCEPT ![n][c] = None]
    BY <1>4 DEF Insert
  <2> HIDE DEF fee
  <2>4. CacheTypes'
    BY <2>2, <2>3
  <2> QED BY <2>2, <2>3, <2>4 DEF FetchIsRecent, EntryIsRecent
<1>5. ASSUME NEW n \in Nodes, NEW c \in Quoted, FetchFails(n, c) PROVE Recent'
  BY <1>1, <1>5 DEF FetchFails
<1>6. CASE Tick
  <2>1. ASSUME NEW n \in Nodes, NEW c \in Quoted
        PROVE  /\ entry'[n][c] \in Fees \cup {None}
               /\ entry'[n][c] # None => /\ entry'[n][c].age < Ttl
                                         /\ entry'[n][c].read <= entry'[n][c].age + FetchTimeout
    <3>1. entry'[n][c] = Expired(entry[n][c])
      BY <1>6 DEF Tick
    <3>2. CASE entry[n][c] = None \/ entry[n][c].age + 1 = Ttl
      BY <3>1, <3>2 DEF Expired
    <3>3. CASE entry[n][c] # None /\ entry[n][c].age + 1 # Ttl
      <4>1. entry[n][c] \in Fees /\ entry[n][c].age < Ttl
            /\ entry[n][c].read <= entry[n][c].age + FetchTimeout
        BY <3>3 DEF EntryIsRecent
      <4>2. entry'[n][c] = Later(entry[n][c])
        BY <3>1, <3>3 DEF Expired, Later
      <4>3. /\ Later(entry[n][c]) \in Fees
            /\ Later(entry[n][c]).age = entry[n][c].age + 1
            /\ Later(entry[n][c]).read = entry[n][c].read + 1
            /\ entry[n][c].age \in Nat /\ entry[n][c].read \in Nat
        BY <4>1, LaterFees
      <4>4. entry[n][c].age + 1 < Ttl
        BY <1>0, <3>3, <4>1, <4>3
      <4> QED BY <4>1, <4>2, <4>3, <4>4
    <3> QED BY <3>2, <3>3
  <2>2. ASSUME NEW n \in Nodes, NEW c \in Quoted
        PROVE  /\ fetch'[n][c] \in Fees \cup {None}
               /\ fetch'[n][c] # None => /\ fetch'[n][c].age <= FetchTimeout
                                         /\ fetch'[n][c].read <= fetch'[n][c].age
    <3>1. fetch'[n][c] = IF fetch[n][c] = None THEN None
            ELSE IF fetch[n][c].fate = "Unread" THEN Waiting(fetch[n][c])
            ELSE Later(fetch[n][c])
      BY <1>6 DEF Tick, Waiting, Later
    <3>2. CASE fetch[n][c] = None
      BY <3>1, <3>2
    <3>3. CASE fetch[n][c] # None
      <4>1. fetch[n][c] \in Fees /\ fetch[n][c].age < FetchTimeout
            /\ fetch[n][c].read <= fetch[n][c].age
        BY <1>6, <3>3 DEF Tick, FetchIsRecent
      <4> QED BY <3>1, <3>3, <4>1, LaterFees
    <3> QED BY <3>2, <3>3
  <2>3. CacheTypes'
    BY <1>6, <2>1, <2>2 DEF Tick
  <2> QED BY <2>1, <2>2, <2>3 DEF FetchIsRecent, EntryIsRecent
<1> QED BY <1>2, <1>3, <1>4, <1>5, <1>6

\* Every step keeps fees and fetches recent.
LEMMA StepRecent == Recent /\ [Next]_vars => Recent'
<1> SUFFICES ASSUME Recent, [Next]_vars PROVE Recent'
  OBVIOUS
<1> USE StaysRecent DEF Follows
<1>0. CacheTypes
  BY DEF Recent
<1>1. CASE UNCHANGED caches
  BY <1>1 DEF caches, Recent, CacheTypes, FetchIsRecent, EntryIsRecent
<1>2. ASSUME NEW n \in Nodes, NEW m \in Chains \cup {"All"}, Invalidate(n, m) PROVE Recent'
  BY <1>0, <1>2, InvalidateEffect
<1>3. ASSUME NEW n \in Nodes, Publish(n) \/ PublishFails(n) PROVE Recent'
  <2>1. PICK nodes : Unreached(nodes, admin[n])
    BY <1>3 DEF Publish, PublishFails
  <2> QED BY <1>0, <2>1, UnreachedEffect
<1>4. ASSUME NEW n \in Nodes, Apply(n) PROVE Recent'
  BY <1>0, <1>4, ApplyEffect
<1>5. ASSUME NEW n \in Nodes, Drop(n) PROVE Recent'
  BY <1>0, <1>5, DropEffect
<1>6. ASSUME NEW n \in Nodes, Restart(n) PROVE Recent'
  BY <1>0, <1>6, RestartEffect
<1>7. CASE Tick \/ \E n \in Nodes, c \in Quoted :
             StartFetch(n, c) \/ Answer(n, c) \/ Insert(n, c) \/ FetchFails(n, c)
  BY <1>7, OracleStep
<1> QED
  BY <1>1, <1>2, <1>3, <1>4, <1>5, <1>6, <1>7
  DEF Next, vars, caches, Outage, Recover, Connect, ConnectFails, Wake, ForeignPayload

-----------------------------------------------------------------------------
(* Which invalidations are under way.                                       *)
MessageTypes ==
  /\ stream \in [Nodes -> Seq(Messages)]
  /\ admin \in [Nodes -> Chains \cup {"All", None}]

\* Every step keeps the messages messages.
LEMMA StepMessageTypes == MessageTypes /\ [Next]_vars => MessageTypes'
<1> SUFFICES ASSUME MessageTypes, [Next]_vars PROVE MessageTypes'
  OBVIOUS
<1> USE DEF MessageTypes
<1>1. ASSUME NEW n \in Nodes, NEW m \in Chains \cup {"All"}, Invalidate(n, m)
      PROVE  MessageTypes'
  BY <1>1 DEF Invalidate, subscr
<1>2. ASSUME NEW n \in Nodes, Publish(n) PROVE MessageTypes'
  <2>1. PICK reached \in SUBSET {k \in Nodes : sub[k] = "Subscribed"} :
          stream' = [k \in Nodes |-> IF k \in reached THEN Append(stream[k], admin[n])
                                     ELSE stream[k]]
    BY <1>2 DEF Publish
  <2>2. admin[n] \in Messages
    BY <1>2 DEF Publish, Messages
  <2>3. \A k \in Nodes : stream[k] \in Seq(Messages) /\ Append(stream[k], admin[n]) \in Seq(Messages)
    BY <2>2
  <2> QED BY <1>2, <2>1, <2>3 DEF Publish
<1>3. ASSUME NEW n \in Nodes, ForeignPayload(n) PROVE MessageTypes'
  BY <1>3 DEF ForeignPayload, Messages
<1>4. ASSUME NEW n \in Nodes, Apply(n) PROVE MessageTypes'
  <2>1. Tail(stream[n]) \in Seq(Messages)
    BY <1>4 DEF Apply
  <2> QED BY <1>4, <2>1 DEF Apply
<1>5. ASSUME NEW n \in Nodes, Drop(n) \/ Restart(n) \/ PublishFails(n) PROVE MessageTypes'
  <2>1. stream' \in {stream, [stream EXCEPT ![n] = <<>>]} /\ admin' \in {admin, [admin EXCEPT ![n] = None]}
    BY <1>5 DEF Drop, Restart, PublishFails, subscr
  <2>2. <<>> \in Seq(Messages)
    OBVIOUS
  <2> QED BY <2>1, <2>2
<1>6. CASE UNCHANGED <<stream, admin>>
  BY <1>6
<1>7. [Next]_vars => \/ \E n \in Nodes : \/ \E m \in Chains \cup {"All"} : Invalidate(n, m)
                                         \/ Publish(n) \/ ForeignPayload(n) \/ Apply(n)
                                         \/ Drop(n) \/ Restart(n) \/ PublishFails(n)
                     \/ UNCHANGED <<stream, admin>>
  BY DEF Next, vars, subscr, Outage, Recover, Tick, StartFetch, Answer, Insert,
         FetchFails, Connect, ConnectFails, Wake
<1> QED BY <1>1, <1>2, <1>3, <1>4, <1>5, <1>6, <1>7

\* A fee of the node is due.
Due(n, c) == \/ entry[n][c] # None /\ entry[n][c].fate = "Due"
             \/ fetch[n][c] # None /\ fetch[n][c].fate = "Due"

\* What is due after a step was due before it, and the message is still under
\* way; or a message that is under way has just made it due.
LEMMA DueKept ==
  ASSUME DueIsUnderWay,
         \A n \in Nodes, c \in Quoted : Due(n, c)' =>
           \/ UnderWay(n, c)'
           \/ Due(n, c) /\ (UnderWay(n, c) => UnderWay(n, c)')
  PROVE  DueIsUnderWay'
  BY DEF DueIsUnderWay, Due

\* A message stays under way while the requests keep theirs and the stream
\* keeps what it holds.
LEMMA UnderWayKept ==
  ASSUME NEW n \in Nodes, NEW c \in Quoted, UnderWay(n, c),
         \A k \in Nodes : admin[k] # None => admin'[k] = admin[k],
         \A i \in DOMAIN stream[n] : i \in DOMAIN stream'[n] /\ stream'[n][i] = stream[n][i]
  PROVE  UnderWay(n, c)'
  BY DEF UnderWay, Covers

\* Every step leaves what is due under way.
LEMMA StepUnderWay ==
  CacheTypes /\ MessageTypes /\ DueIsUnderWay /\ [Next]_vars => DueIsUnderWay'
<1> SUFFICES ASSUME CacheTypes, MessageTypes, DueIsUnderWay, [Next]_vars
             PROVE  DueIsUnderWay'
  OBVIOUS
<1>1. ASSUME UNCHANGED <<stream, admin>>,
             \A n \in Nodes, c \in Quoted : Due(n, c)' => Due(n, c)
      PROVE  DueIsUnderWay'
  BY <1>1, UnderWayKept, DueKept
<1>2. CASE UNCHANGED <<entry, fetch, stream, admin>>
  BY <1>1, <1>2 DEF Due
<1>3. ASSUME NEW n \in Nodes, NEW c \in Quoted,
             StartFetch(n, c) \/ Answer(n, c) \/ Insert(n, c) \/ FetchFails(n, c)
      PROVE  DueIsUnderWay'
  <2>1. UNCHANGED <<stream, admin>>
    BY <1>3 DEF StartFetch, Answer, Insert, FetchFails, subscr
  <2>2. ASSUME NEW k \in Nodes, NEW d \in Quoted PROVE Due(k, d)' => Due(k, d)
    <3>1. CASE StartFetch(n, c)
      BY <3>1 DEF StartFetch, Due, CacheTypes
    <3>2. CASE Answer(n, c)
      <4>1. fetch[n][c] \in Fees
        BY <3>2 DEF Answer, CacheTypes
      <4>2. Answered(fetch[n][c]).fate = "Fresh"
        BY <4>1 DEF Answered, Fees
      <4>3. fetch' = [fetch EXCEPT ![n][c] = Answered(fetch[n][c])] /\ entry' = entry
        BY <3>2, <4>1 DEF Answer, Answered, Fees
      <4> QED BY <4>2, <4>3 DEF Due, CacheTypes
    <3>3. CASE Insert(n, c)
      BY <3>3 DEF Insert, Due, CacheTypes
    <3>4. CASE FetchFails(n, c)
      BY <3>4 DEF FetchFails, Due, CacheTypes
    <3> QED BY <1>3, <3>1, <3>2, <3>3, <3>4
  <2> QED BY <1>1, <2>1, <2>2
<1>4. CASE Tick
  <2>1. UNCHANGED <<stream, admin>>
    BY <1>4 DEF Tick
  <2>2. ASSUME NEW f \in Fees PROVE Waiting(f).fate = f.fate /\ Later(f).fate = f.fate
    BY DEF Waiting, Later, Fees
  <2>3. ASSUME NEW k \in Nodes, NEW d \in Quoted PROVE Due(k, d)' => Due(k, d)
    <3>1. entry[k][d] \in Fees \cup {None} /\ fetch[k][d] \in Fees \cup {None}
      BY DEF CacheTypes
    <3>2. /\ entry'[k][d] \in {None, Later(entry[k][d])}
          /\ entry[k][d] = None => entry'[k][d] = None
      BY <1>4 DEF Tick, Expired, Later
    <3>3. /\ fetch'[k][d] \in {None, Waiting(fetch[k][d]), Later(fetch[k][d])}
          /\ fetch[k][d] = None => fetch'[k][d] = None
      BY <1>4 DEF Tick, Waiting, Later
    <3> QED BY <2>2, <3>1, <3>2, <3>3 DEF Due
  <2> QED BY <1>1, <2>1, <2>3
<1>5. ASSUME NEW n \in Nodes, NEW m \in Chains \cup {"All"}, Invalidate(n, m)
      PROVE  DueIsUnderWay'
  <2>1. /\ admin[n] = None /\ stream' = stream
        /\ n \in transport => admin' = [admin EXCEPT ![n] = m]
        /\ n \notin transport => admin' = admin
    BY <1>5 DEF Invalidate, subscr
  <2>2. ASSUME NEW k \in Nodes, NEW c \in Quoted, Due(k, c)'
        PROVE  \/ UnderWay(k, c)'
               \/ Due(k, c) /\ (UnderWay(k, c) => UnderWay(k, c)')
    <3>1. CASE n \in transport /\ c \in Covers(m)
      <4>1. admin'[n] = m /\ m # None
        BY <2>1, <3>1, ClusterCacheAssumption DEF MessageTypes
      <4> QED BY <3>1, <4>1 DEF UnderWay, Covers
    <3>2. CASE ~(n \in transport /\ c \in Covers(m))
      <4>1. Due(k, c)
        <5>1. CASE k = n
          BY <1>5, <2>2, <3>2, <5>1, InvalidateEffect DEF Due, Follows
        <5>2. CASE k # n
          BY <1>5, <2>2, <3>2, <5>2, InvalidateEffect DEF Due, Follows
        <5> QED BY <5>1, <5>2
      <4>2. UnderWay(k, c) => UnderWay(k, c)'
        BY <2>1, UnderWayKept DEF MessageTypes
      <4> QED BY <4>1, <4>2
    <3> QED BY <3>1, <3>2
  <2> QED BY <2>2, DueKept
<1>6. ASSUME NEW n \in Nodes, Publish(n) \/ PublishFails(n) PROVE DueIsUnderWay'
  <2>1. PICK reached \in SUBSET Nodes :
          /\ stream' = [k \in Nodes |-> IF k \in reached THEN Append(stream[k], admin[n])
                                        ELSE stream[k]]
          /\ Unreached(Nodes \ reached, admin[n])
    <3>1. CASE Publish(n)
      BY <3>1 DEF Publish
    <3>2. CASE PublishFails(n)
      <4>1. stream' = [k \in Nodes |-> IF k \in {} THEN Append(stream[k], admin[n])
                                       ELSE stream[k]]
        BY <3>2 DEF PublishFails, subscr, MessageTypes
      <4>2. Unreached(Nodes \ {}, admin[n])
        BY <3>2 DEF PublishFails
      <4> QED BY <4>1, <4>2
    <3> QED BY <1>6, <3>1, <3>2
  <2>2. admin[n] # None /\ admin' = [admin EXCEPT ![n] = None]
    BY <1>6 DEF Publish, PublishFails
  <2>3. ASSUME NEW k \in Nodes, NEW c \in Quoted, Due(k, c)'
        PROVE  \/ UnderWay(k, c)'
               \/ Due(k, c) /\ (UnderWay(k, c) => UnderWay(k, c)')
    <3>1. Due(k, c) /\ ~(k \in Nodes \ reached /\ c \in Covers(admin[n]))
      BY <2>1, <2>3, UnreachedEffect DEF Due, Follows
    <3>2. stream[k] \in Seq(Messages)
      BY DEF MessageTypes
    <3>3. \A i \in DOMAIN stream[k] : i \in DOMAIN stream'[k] /\ stream'[k][i] = stream[k][i]
      BY <2>1, <3>2
    <3>4. ASSUME UnderWay(k, c) PROVE UnderWay(k, c)'
      <4>1. CASE \E i \in DOMAIN stream[k] : c \in Covers(stream[k][i])
        BY <3>3, <4>1 DEF UnderWay, Covers
      <4>2. CASE \E l \in Nodes \ {n} : admin[l] # None /\ c \in Covers(admin[l])
        BY <2>2, <4>2 DEF UnderWay, Covers, MessageTypes
      <4>3. CASE c \in Covers(admin[n])
        <5>1. stream'[k] = Append(stream[k], admin[n])
          BY <2>1, <3>1, <4>3
        <5>2. Len(stream[k]) + 1 \in DOMAIN stream'[k] /\ stream'[k][Len(stream[k]) + 1] = admin[n]
          BY <3>2, <5>1
        <5> QED BY <4>3, <5>2 DEF UnderWay, Covers
      <4> QED BY <3>4, <4>1, <4>2, <4>3 DEF UnderWay
    <3> QED BY <3>1, <3>4
  <2> QED BY <2>3, DueKept
<1>7. ASSUME NEW n \in Nodes, ForeignPayload(n) PROVE DueIsUnderWay'
  <2>1. \A k \in Nodes : stream[k] \in Seq(Messages)
    BY DEF MessageTypes
  <2>2. ASSUME NEW k \in Nodes, NEW i \in DOMAIN stream[k]
        PROVE  i \in DOMAIN stream'[k] /\ stream'[k][i] = stream[k][i]
    BY <1>7, <2>1 DEF ForeignPayload, MessageTypes
  <2>3. \A k \in Nodes, c \in Quoted : Due(k, c)' => Due(k, c)
    BY <1>7 DEF ForeignPayload, caches, Due
  <2>4. admin' = admin
    BY <1>7 DEF ForeignPayload
  <2> QED BY <2>2, <2>3, <2>4, UnderWayKept, DueKept
<1>8. ASSUME NEW n \in Nodes, Apply(n) PROVE DueIsUnderWay'
  <2>1. /\ stream[n] \in Seq(Messages) /\ stream[n] # <<>>
        /\ stream' = [stream EXCEPT ![n] = Tail(stream[n])] /\ admin' = admin
    BY <1>8 DEF Apply, MessageTypes
  <2>2. ASSUME NEW k \in Nodes, NEW c \in Quoted, Due(k, c)'
        PROVE  Due(k, c) /\ (k = n => c \notin Covers(Head(stream[n])))
    <3>1. CASE k = n
      BY <1>8, <2>2, <3>1, ApplyEffect DEF Due, Follows
    <3>2. CASE k # n
      BY <1>8, <2>2, <3>2, ApplyEffect DEF Due
    <3> QED BY <3>1, <3>2
  <2>3. ASSUME NEW k \in Nodes, NEW c \in Quoted, k = n => c \notin Covers(Head(stream[n])),
               UnderWay(k, c)
        PROVE  UnderWay(k, c)'
    <3>1. CASE k # n
      BY <2>1, <2>3, <3>1 DEF UnderWay, Covers
    <3>2. CASE \E l \in Nodes : admin[l] # None /\ c \in Covers(admin[l])
      BY <2>1, <3>2 DEF UnderWay, Covers
    <3>3. ASSUME k = n, NEW i \in DOMAIN stream[n], c \in Covers(stream[n][i])
          PROVE  UnderWay(k, c)'
      <4>1. i \in 1..Len(stream[n]) /\ i # 1
        BY <2>1, <2>3, <3>3
      <4>2. i - 1 \in DOMAIN Tail(stream[n]) /\ Tail(stream[n])[i - 1] = stream[n][i]
        BY <2>1, <4>1
      <4>3. stream'[n] = Tail(stream[n])
        BY <2>1 DEF MessageTypes
      <4> QED BY <3>3, <4>2, <4>3 DEF UnderWay, Covers
    <3> QED BY <2>3, <3>1, <3>2, <3>3 DEF UnderWay
  <2> QED BY <2>2, <2>3, DueKept
<1>9. ASSUME NEW n \in Nodes, Drop(n) PROVE DueIsUnderWay'
  <2>1. stream' = [stream EXCEPT ![n] = <<>>] /\ admin' = admin
    BY <1>9 DEF Drop
  <2>2. ASSUME NEW k \in Nodes, NEW c \in Quoted, Due(k, c)'
        PROVE  /\ Due(k, c)
               /\ k = n => ~\E i \in DOMAIN stream[n] : c \in Covers(stream[n][i])
    <3>1. CASE k = n
      BY <1>9, <2>2, <3>1, DropEffect DEF Due, Follows
    <3>2. CASE k # n
      BY <1>9, <2>2, <3>2, DropEffect DEF Due
    <3> QED BY <3>1, <3>2
  <2>3. ASSUME NEW k \in Nodes, NEW c \in Quoted, UnderWay(k, c),
               k = n => ~\E i \in DOMAIN stream[n] : c \in Covers(stream[n][i])
        PROVE  UnderWay(k, c)'
    BY <2>1, <2>3 DEF UnderWay, Covers, MessageTypes
  <2> QED BY <2>2, <2>3, DueKept
<1>10. ASSUME NEW n \in Nodes, Restart(n) PROVE DueIsUnderWay'
  <2>1. stream' = [stream EXCEPT ![n] = <<>>] /\ admin' = [admin EXCEPT ![n] = None]
    BY <1>10 DEF Restart
  <2>2. ASSUME NEW k \in Nodes, NEW c \in Quoted, Due(k, c)'
        PROVE  /\ Due(k, c) /\ k # n
               /\ ~(admin[n] # None /\ c \in Covers(admin[n]))
    <3>1. k # n
      BY <1>10, <2>2, RestartEffect DEF Due
    <3> QED BY <1>10, <2>2, <3>1, RestartEffect DEF Due, Follows
  <2>3. ASSUME NEW k \in Nodes, NEW c \in Quoted, UnderWay(k, c), k # n,
               ~(admin[n] # None /\ c \in Covers(admin[n]))
        PROVE  UnderWay(k, c)'
    BY <2>1, <2>3 DEF UnderWay, Covers, MessageTypes
  <2> QED BY <2>2, <2>3, DueKept
<1>11. [Next]_vars => \/ Tick \/ UNCHANGED <<entry, fetch, stream, admin>>
                      \/ \E n \in Nodes :
                           \/ \E c \in Quoted : StartFetch(n, c) \/ Answer(n, c)
                                                \/ Insert(n, c) \/ FetchFails(n, c)
                           \/ \E m \in Chains \cup {"All"} : Invalidate(n, m)
                           \/ Publish(n) \/ PublishFails(n) \/ ForeignPayload(n)
                           \/ Apply(n) \/ Drop(n) \/ Restart(n)
  BY DEF Next, vars, caches, subscr, Outage, Recover, Connect, ConnectFails, Wake
<1> QED BY <1>2, <1>3, <1>4, <1>5, <1>6, <1>7, <1>8, <1>9, <1>10, <1>11

-----------------------------------------------------------------------------
(* How the subscriber's pauses grow.                                        *)
BackoffTypes == backoff \in [Nodes -> Nat] /\ sleeps \in [Nodes -> Nat]

\* The pause after so many sleeps.
Pause(s) == IF MinBackoff * 2^s <= MaxBackoff THEN MinBackoff * 2^s ELSE MaxBackoff

\* Doubling a pause gives the next one, until the longest is reached.
LEMMA PauseDoubles ==
  ASSUME NEW s \in Nat
  PROVE  LET next == IF MinBackoff * 2^s < MaxBackoff THEN s + 1 ELSE s IN
         /\ next \in Nat /\ Pause(s) \in Nat
         /\ Double(Pause(s)) = Pause(next)
<1> DEFINE d == MinBackoff * 2^s
<1>1. 2^s \in Nat /\ 2^(s + 1) = 2 * 2^s
  BY Powers
<1>2. d \in Nat /\ MinBackoff * (2 * 2^s) = 2 * d
  BY <1>1, ClusterCacheAssumption
<1>3. MinBackoff * 2^(s + 1) = 2 * d
  BY <1>1, <1>2
<1>4. MaxBackoff \in Nat /\ 0 < MaxBackoff
  BY ClusterCacheAssumption
<1>5. Pause(s) = (IF d <= MaxBackoff THEN d ELSE MaxBackoff)
      /\ Pause(s + 1) = (IF 2 * d <= MaxBackoff THEN 2 * d ELSE MaxBackoff)
  BY <1>3 DEF Pause
<1> HIDE DEF d
<1>6. CASE d < MaxBackoff
  BY <1>2, <1>4, <1>5, <1>6 DEF Double, d
<1>7. CASE ~(d < MaxBackoff)
  BY <1>2, <1>4, <1>5, <1>7 DEF Double, d
<1> QED BY <1>6, <1>7

\* Every step keeps each pause in line with the sleeps before it.
LEMMA StepBackoff ==
  BackoffTypes /\ BackoffFollowsFailures /\ [Next]_vars
    => BackoffTypes' /\ BackoffFollowsFailures'
<1> SUFFICES ASSUME BackoffTypes, BackoffFollowsFailures, [Next]_vars
             PROVE  BackoffTypes' /\ BackoffFollowsFailures'
  OBVIOUS
<1>1. \A n \in Nodes : backoff[n] = Pause(sleeps[n])
  BY DEF BackoffFollowsFailures, Pause
<1>2. ASSUME NEW n \in Nodes, Sleep(n, backoff[n])
      PROVE  BackoffTypes' /\ BackoffFollowsFailures'
  <2> DEFINE next == IF MinBackoff * 2^sleeps[n] < MaxBackoff THEN sleeps[n] + 1 ELSE sleeps[n]
  <2>1. backoff' = [backoff EXCEPT ![n] = Double(backoff[n])] /\ sleeps' = [sleeps EXCEPT ![n] = next]
    BY <1>2 DEF Sleep
  <2>2. next \in Nat /\ Double(backoff[n]) = Pause(next)
    BY <1>1, PauseDoubles DEF BackoffTypes
  <2>3. Pause(next) \in Nat
    BY <2>2, PauseDoubles
  <2> HIDE DEF next
  <2>4. BackoffTypes'
    BY <2>1, <2>2, <2>3 DEF BackoffTypes
  <2>5. \A k \in Nodes : backoff'[k] = Pause(sleeps'[k])
    BY <1>1, <2>1, <2>2 DEF BackoffTypes
  <2> QED BY <2>4, <2>5 DEF BackoffFollowsFailures, Pause
<1>3. ASSUME NEW n \in Nodes, backoff' = [backoff EXCEPT ![n] = MinBackoff],
             sleeps' = [sleeps EXCEPT ![n] = 0]
      PROVE  BackoffTypes' /\ BackoffFollowsFailures'
  <2>1. MinBackoff \in Nat /\ 0 \in Nat /\ MinBackoff = Pause(0)
    <3>1. MinBackoff * 2^0 = MinBackoff
      BY 2^0 = 1, ClusterCacheAssumption
    <3> QED BY <3>1, ClusterCacheAssumption DEF Pause
  <2>2. BackoffTypes'
    BY <1>3, <2>1 DEF BackoffTypes
  <2>3. \A k \in Nodes : backoff'[k] = Pause(sleeps'[k])
    BY <1>1, <1>3, <2>1 DEF BackoffTypes
  <2> QED BY <2>2, <2>3 DEF BackoffFollowsFailures, Pause
<1>4. CASE UNCHANGED <<backoff, sleeps>>
  BY <1>4 DEF BackoffTypes, BackoffFollowsFailures
<1>5. ASSUME NEW n \in Nodes, Connect(n) \/ Restart(n)
      PROVE  BackoffTypes' /\ BackoffFollowsFailures'
  BY <1>3, <1>5 DEF Connect, Restart
<1>6. ASSUME NEW n \in Nodes, ConnectFails(n) \/ Drop(n)
      PROVE  BackoffTypes' /\ BackoffFollowsFailures'
  BY <1>2, <1>6 DEF ConnectFails, Drop
<1>7. [Next]_vars => \/ UNCHANGED <<backoff, sleeps>>
                     \/ \E n \in Nodes : Connect(n) \/ Restart(n) \/ ConnectFails(n) \/ Drop(n)
  BY DEF Next, vars, subscr, Outage, Recover, Tick, StartFetch, Answer, Insert, FetchFails,
         Invalidate, Publish, PublishFails, ForeignPayload, Apply, Wake
<1> QED BY <1>4, <1>5, <1>6, <1>7

-----------------------------------------------------------------------------
(* The inductive invariant, and what follows from it.                       *)
LEMMA InitIInv == Init => IInv
<1> SUFFICES ASSUME Init PROVE IInv
  OBVIOUS
<1>1. Types /\ FetchIsRecent /\ EntryIsRecent /\ DueIsUnderWay
  BY ClusterCacheAssumption
  DEF Init, NoFees, Types, FetchIsRecent, EntryIsRecent, DueIsUnderWay
<1>2. MinBackoff * 2^0 = MinBackoff
  BY 2^0 = 1, ClusterCacheAssumption
<1>3. BackoffFollowsFailures
  BY <1>2, ClusterCacheAssumption DEF Init, BackoffFollowsFailures
<1> QED BY <1>1, <1>3 DEF IInv

\* Every step keeps the invariant.
LEMMA StepIInv == IInv /\ [Next]_vars => IInv'
<1> SUFFICES ASSUME IInv, [Next]_vars PROVE IInv'
  OBVIOUS
<1>1. Recent /\ MessageTypes /\ BackoffTypes /\ DueIsUnderWay /\ BackoffFollowsFailures
  BY DEF IInv, Types, Recent, CacheTypes, MessageTypes, BackoffTypes
<1>2. Recent'
  BY <1>1, StepRecent
<1>3. MessageTypes' /\ DueIsUnderWay'
  <2>1. CacheTypes
    BY <1>1 DEF Recent
  <2> QED BY <1>1, <2>1, StepMessageTypes, StepUnderWay
<1>4. BackoffTypes' /\ BackoffFollowsFailures'
  BY <1>1, StepBackoff
<1> QED BY <1>2, <1>3, <1>4 DEF IInv, Types, Recent, CacheTypes, MessageTypes, BackoffTypes

\* The invariant holds in every behaviour.
LEMMA Invariance == Spec => []IInv
  BY InitIInv, StepIInv, PTL DEF Spec

\* No fee is served that was read longer ago than the time to live and the
\* longest fetch together (cache_sync.rs:21), whatever messages are lost.
THEOREM ServedFeesAreRecent == Spec => []FeeIsRecent
<1>1. IInv => FeeIsRecent
  <2> SUFFICES ASSUME IInv, NEW n \in Nodes, NEW c \in Quoted, entry[n][c] # None
               PROVE  entry[n][c].read < Ttl + FetchTimeout
    BY DEF FeeIsRecent
  <2>1. entry[n][c] \in Fees
    BY DEF IInv, Types
  <2>2. entry[n][c].age < Ttl /\ entry[n][c].read <= entry[n][c].age + FetchTimeout
    BY DEF IInv, EntryIsRecent
  <2> QED BY <2>1, <2>2, ClusterCacheAssumption DEF Fees
<1> QED BY <1>1, Invariance, PTL

\* A fee that an invalidation named stays in a node's cache only while the
\* message is being published or waits in the node's stream, unless the
\* message was lost or met a fetch (cache_sync.rs:13).
THEOREM InvalidationsArrive == Spec => []InvalidationIsUnderWay
<1>1. IInv => InvalidationIsUnderWay
  BY DEF IInv, DueIsUnderWay, UnderWay, InvalidationIsUnderWay
<1> QED BY <1>1, Invariance, PTL

\* The subscriber's pauses double up to the longest, and start again with
\* every subscription (cache_sync.rs:238).
THEOREM PausesDouble == Spec => []BackoffFollowsFailures
<1>1. IInv => BackoffFollowsFailures
  BY DEF IInv
<1> QED BY <1>1, Invariance, PTL
=============================================================================
