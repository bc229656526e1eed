--------------------------- MODULE ClusterCache ---------------------------
(***************************************************************************)
(* The gas-fee caches of a cluster and the invalidations they exchange:    *)
(* GasOracle of wow-engine/src/bridge/gas_oracle.rs and the publisher,     *)
(* subscriber and ClusterCache of wow-engine/src/cache_sync.rs, as main.rs *)
(* wires them.                                                             *)
(*                                                                         *)
(* A fee is not modelled by its amount but by what its reader should know: *)
(* how many ticks ago the REST service was asked, and what became of the   *)
(* invalidations issued since.  Redis delivers at most once.  Fetches of   *)
(* one chain are coalesced, so a node has at most one under way.           *)
(***************************************************************************)
EXTENDS Integers, Sequences, FiniteSets

CONSTANTS Nodes,
          Configured,   \* the nodes whose REDIS_URL is set
          Serving,      \* the nodes that are asked for fees
          Chains,       \* chains an invalidation may name
          Quoted,       \* those of them whose fee is asked for
          Ttl,          \* time_to_live of the cache, in ticks
          FetchTimeout, \* timeout of the oracle's HTTP client, in ticks
          MinBackoff, MaxBackoff,
          MaxMessages,  \* bound: invalidations and foreign payloads
          MaxOutages,   \* bound: outages of Redis
          MaxRestarts,  \* bound: restarts of nodes
          None

ASSUME ClusterCacheAssumption ==
  /\ Configured \subseteq Nodes /\ Serving \subseteq Nodes /\ Quoted \subseteq Chains
  /\ Ttl \in Nat \ {0} /\ FetchTimeout \in Nat
  /\ MinBackoff \in Nat \ {0} /\ MaxBackoff \in Nat
  /\ MinBackoff <= MaxBackoff
  /\ MaxMessages \in Nat /\ MaxOutages \in Nat /\ MaxRestarts \in Nat
  /\ {"All", "Malformed", None} \cap Chains = {} /\ None \notin {"All", "Malformed"}

VARIABLES entry,     \* per node and chain, the cached fee
          fetch,     \* per node and chain, the fetch under way
          redis,     \* "Up" or "Down"
          transport, \* nodes that connected a publisher when they started
          sub,       \* per node, where run_redis_subscriber stands
          wait,      \* per node, ticks left of its sleep
          backoff,   \* per node, the local variable of the subscriber
          stream,    \* per node, payloads received and not applied
          admin,     \* per node, the message its admin request publishes
          messages, outages, restarts, \* bounds: how many there were
          sleeps     \* history: per node, sleeps since it last subscribed

caches == <<entry, fetch>>
bounds == <<messages, outages, restarts>>
subscr == <<sub, wait, backoff, stream, sleeps>>
vars   == <<entry, fetch, redis, transport, sub, wait, backoff, stream,
            admin, messages, outages, restarts, sleeps>>

\* The fate of a fee: "Fresh", nothing was invalidated since it was read;
\* "Due", an invalidation is on its way to it; "Missed", one was lost;
\* "Raced", one came while the fee was still being fetched.  "Unread" marks a
\* fetch without an answer.

Covers(m) == IF m = "All" THEN Quoted ELSE {m} \cap Quoted

NoFees == [c \in Quoted |-> None]

Init ==
  /\ entry = [n \in Nodes |-> NoFees] /\ fetch = [n \in Nodes |-> NoFees]
  /\ redis = "Up" /\ transport = Configured
  /\ sub = [n \in Nodes |-> IF n \in Configured THEN "Connecting"
                            ELSE "Returned"]
  /\ wait = [n \in Nodes |-> 0] /\ backoff = [n \in Nodes |-> MinBackoff]
  /\ stream = [n \in Nodes |-> <<>>] /\ admin = [n \in Nodes |-> None]
  /\ messages = 0 /\ outages = 0 /\ restarts = 0 /\ sleeps = [n \in Nodes |-> 0]

-----------------------------------------------------------------------------
(* GasOracle                                                               *)

\* estimate_gas_fee_usd misses the cache and starts a fetch.
StartFetch(n, c) ==
  /\ n \in Serving
  /\ entry[n][c] = None /\ fetch[n][c] = None
  /\ fetch' = [fetch EXCEPT ![n][c] = [age |-> 0, read |-> 0, fate |-> "Unread"]]
  /\ UNCHANGED <<entry, redis, transport, subscr, admin, bounds>>

\* The service computes its answer; it is on the way back.
Answer(n, c) ==
  /\ fetch[n][c] # None /\ fetch[n][c].fate = "Unread"
  /\ fetch' = [fetch EXCEPT ![n][c].fate = "Fresh", ![n][c].read = 0]
  /\ UNCHANGED <<entry, redis, transport, subscr, admin, bounds>>

\* try_get_with inserts what the fetch returned, whatever happened meanwhile.
Insert(n, c) ==
  LET f == fetch[n][c] IN
  /\ f # None /\ f.fate # "Unread"
  /\ entry' = [entry EXCEPT ![n][c] = [age |-> 0, read |-> f.read, fate |-> f.fate]]
  /\ fetch' = [fetch EXCEPT ![n][c] = None]
  /\ UNCHANGED <<redis, transport, subscr, admin, bounds>>

\* An error, an unreadable answer, the timeout, or the drop of the request
\* that fetches: callers get fallback_fee and nothing is cached.
FetchFails(n, c) ==
  /\ fetch[n][c] # None
  /\ fetch' = [fetch EXCEPT ![n][c] = None]
  /\ UNCHANGED <<entry, redis, transport, subscr, admin, bounds>>

\* Among the fees `f` of a node, those of `chains` meet fate `to` if they
\* were read and their fate is one of `from`.
Meet(f, chains, from, to) ==
  [c \in Quoted |-> IF c \in chains /\ f[c] # None /\ f[c].fate \in from
                    THEN [f[c] EXCEPT !.fate = to] ELSE f[c]]

MeetAt(fees, nodes, m, from, to) ==
  [n \in Nodes |-> IF n \in nodes THEN Meet(fees[n], Covers(m), from, to)
                   ELSE fees[n]]

\* Mutant: only a message that names a chain evicts.
EvictedOne(f, m) == [c \in Quoted |-> IF c = m THEN None ELSE f[c]]

\* invalidate(chain) and invalidate_all: what is cached goes, what is being
\* fetched does not.
Evicted(f, m) == [c \in Quoted |-> IF c \in Covers(m) THEN None ELSE f[c]]

-----------------------------------------------------------------------------
(* The publisher: admin_invalidate_cache_handler, ClusterCache::invalidate *)
(* and CacheInvalidationBroadcaster::publish.                              *)
Unreached(nodes, m) ==
  /\ entry' = MeetAt(entry, nodes, m, {"Due"}, "Missed")
  /\ fetch' = MeetAt(fetch, nodes, m, {"Due"}, "Missed")

Invalidate(n, m) ==
  LET fate == IF n \in transport THEN "Due" ELSE "Missed"
      meet(fees, k) ==
        IF k = n THEN Meet(fees[k], Covers(m), {"Fresh", "Due"}, "Raced")
        ELSE Meet(fees[k], Covers(m), {"Fresh"}, fate)
  IN
  /\ admin[n] = None /\ messages < MaxMessages
  /\ messages' = messages + 1
  /\ entry' = [k \in Nodes |-> IF k = n THEN Evicted(entry[k], m)
                               ELSE meet(entry, k)]
  /\ fetch' = [k \in Nodes |-> meet(fetch, k)]
  /\ admin' = IF n \in transport THEN [admin EXCEPT ![n] = m] ELSE admin
  /\ UNCHANGED <<redis, transport, subscr, outages, restarts>>

\* Redis hands the message to the connections that are subscribed now; what
\* is sent down a broken one is lost.
Publish(n) ==
  /\ admin[n] # None /\ redis = "Up"
  /\ \E reached \in SUBSET {k \in Nodes : sub[k] = "Subscribed"} :
       /\ stream' = [k \in Nodes |-> IF k \in reached
                                     THEN Append(stream[k], admin[n])
                                     ELSE stream[k]]
       /\ Unreached(Nodes \ reached, admin[n])
  /\ admin' = [admin EXCEPT ![n] = None]
  /\ UNCHANGED <<redis, transport, sub, wait, backoff, sleeps, bounds>>

\* The error is swallowed; or the request is dropped while Redis hangs.
PublishFails(n) ==
  /\ admin[n] # None
  /\ Unreached(Nodes, admin[n])
  /\ admin' = [admin EXCEPT ![n] = None]
  /\ UNCHANGED <<redis, transport, subscr, bounds>>

\* A payload that is not an InvalidationMessage, or not readable at all.
ForeignPayload(n) ==
  /\ sub[n] = "Subscribed" /\ messages < MaxMessages
  /\ messages' = messages + 1
  /\ stream' = [stream EXCEPT ![n] = Append(@, "Malformed")]
  /\ UNCHANGED <<caches, redis, transport, sub, wait, backoff, sleeps, admin,
                 outages, restarts>>

-----------------------------------------------------------------------------
(* run_redis_subscriber and run_invalidation_loop                          *)
Double(d) == IF 2 * d <= MaxBackoff THEN 2 * d ELSE MaxBackoff

\* The end of an iteration: sleep(backoff), then next_backoff.
Sleep(n, d) ==
  /\ sub' = [sub EXCEPT ![n] = "Sleeping"]
  /\ wait' = [wait EXCEPT ![n] = d]
  /\ backoff' = [backoff EXCEPT ![n] = Double(d)]
  /\ sleeps' = [sleeps EXCEPT ![n] = IF MinBackoff * 2^@ < MaxBackoff
                                     THEN @ + 1 ELSE @]

\* Mutant: the backoff is not reset by a subscription.
ConnectKeepsBackoff(n) ==
  /\ sub[n] = "Connecting" /\ redis = "Up"
  /\ sub' = [sub EXCEPT ![n] = "Subscribed"]
  /\ sleeps' = [sleeps EXCEPT ![n] = 0]
  /\ UNCHANGED <<caches, redis, transport, wait, backoff, stream, admin, bounds>>

Connect(n) ==
  /\ sub[n] = "Connecting" /\ redis = "Up"
  /\ sub' = [sub EXCEPT ![n] = "Subscribed"]
  /\ backoff' = [backoff EXCEPT ![n] = MinBackoff]
  /\ sleeps' = [sleeps EXCEPT ![n] = 0]
  /\ UNCHANGED <<caches, redis, transport, wait, stream, admin, bounds>>

ConnectFails(n) ==
  /\ sub[n] = "Connecting" /\ redis = "Down"
  /\ Sleep(n, backoff[n])
  /\ UNCHANGED <<caches, redis, transport, stream, admin, bounds>>

\* apply_invalidation_payload to the first payload of the stream.
Apply(n) ==
  /\ stream[n] # <<>>
  /\ entry' = [entry EXCEPT ![n] = Evicted(@, Head(stream[n]))]
  /\ fetch' = [fetch EXCEPT ![n] =
                 Meet(@, Covers(Head(stream[n])), {"Due"}, "Raced")]
  /\ stream' = [stream EXCEPT ![n] = Tail(@)]
  /\ UNCHANGED <<redis, transport, sub, wait, backoff, sleeps, admin, bounds>>

\* Mutant: the end of the stream ends the subscriber.
DropEnds(n) ==
  /\ sub[n] = "Subscribed" /\ redis = "Down"
  /\ sub' = [sub EXCEPT ![n] = "Returned"]
  /\ stream' = [stream EXCEPT ![n] = <<>>]
  /\ UNCHANGED <<caches, wait, backoff, sleeps, redis, transport, admin, bounds>>

\* The stream ends; what was not applied is lost.
Drop(n) ==
  LET lost == {c \in Quoted : \E i \in DOMAIN stream[n] : c \in Covers(stream[n][i])}
  IN
  /\ sub[n] = "Subscribed" /\ redis = "Down"
  /\ Sleep(n, backoff[n])
  /\ stream' = [stream EXCEPT ![n] = <<>>]
  /\ entry' = [entry EXCEPT ![n] = Meet(@, lost, {"Due"}, "Missed")]
  /\ fetch' = [fetch EXCEPT ![n] = Meet(@, lost, {"Due"}, "Missed")]
  /\ UNCHANGED <<redis, transport, admin, bounds>>

Wake(n) ==
  /\ sub[n] = "Sleeping" /\ wait[n] = 0
  /\ sub' = [sub EXCEPT ![n] = "Connecting"]
  /\ UNCHANGED <<caches, redis, transport, wait, backoff, stream, sleeps,
                 admin, bounds>>

-----------------------------------------------------------------------------
(* The environment and the clock                                           *)
Outage ==
  /\ redis = "Up" /\ outages < MaxOutages
  /\ redis' = "Down" /\ outages' = outages + 1
  /\ UNCHANGED <<caches, transport, subscr, admin, messages, restarts>>

Recover ==
  /\ redis = "Down"
  /\ redis' = "Up"
  /\ UNCHANGED <<caches, transport, subscr, admin, bounds>>

\* A node restarts with empty caches.  main connects the publisher once: a
\* node that starts during an outage never publishes.
Restart(n) ==
  /\ restarts < MaxRestarts /\ restarts' = restarts + 1
  /\ entry' = [k \in Nodes |-> IF k = n THEN NoFees ELSE
       IF admin[n] = None THEN entry[k]
       ELSE Meet(entry[k], Covers(admin[n]), {"Due"}, "Missed")]
  /\ fetch' = [k \in Nodes |-> IF k = n THEN NoFees ELSE
       IF admin[n] = None THEN fetch[k]
       ELSE Meet(fetch[k], Covers(admin[n]), {"Due"}, "Missed")]
  /\ transport' = IF n \in Configured /\ redis = "Up" THEN transport \cup {n}
                  ELSE transport \ {n}
  /\ sub' = [sub EXCEPT ![n] = IF n \in Configured THEN "Connecting" ELSE @]
  /\ wait' = [wait EXCEPT ![n] = 0]
  /\ backoff' = [backoff EXCEPT ![n] = MinBackoff]
  /\ sleeps' = [sleeps EXCEPT ![n] = 0]
  /\ stream' = [stream EXCEPT ![n] = <<>>]
  /\ admin' = [admin EXCEPT ![n] = None]
  /\ UNCHANGED <<redis, messages, outages>>

\* Mutant: the cache keeps an entry for as long as it is used.
ExpiredWhenIdle(e) == IF e = None THEN None ELSE [e EXCEPT !.read = @ + 1]

Expired(e) ==
  IF e = None \/ e.age + 1 = Ttl THEN None
  ELSE [e EXCEPT !.age = @ + 1, !.read = @ + 1]

\* The HTTP client gives a fetch up at its timeout, so it must have ended
\* before time moves on; a sleep must have ended when it is over.
Tick ==
  /\ \A n \in Nodes, c \in Quoted :
       fetch[n][c] # None => fetch[n][c].age < FetchTimeout
  /\ \A n \in Nodes : sub[n] = "Sleeping" => wait[n] > 0
  /\ entry' = [n \in Nodes |-> [c \in Quoted |-> Expired(entry[n][c])]]
  /\ fetch' = [n \in Nodes |-> [c \in Quoted |->
       IF fetch[n][c] = None THEN None
       ELSE IF fetch[n][c].fate = "Unread" THEN [fetch[n][c] EXCEPT !.age = @ + 1]
       ELSE [fetch[n][c] EXCEPT !.age = @ + 1, !.read = @ + 1]]]
  /\ wait' = [n \in Nodes |-> IF wait[n] > 0 THEN wait[n] - 1 ELSE 0]
  /\ UNCHANGED <<redis, transport, sub, backoff, stream, sleeps, admin, bounds>>

Next ==
  \/ Outage \/ Recover \/ Tick
  \/ \E n \in Nodes :
       \/ \E c \in Quoted :
            StartFetch(n, c) \/ Answer(n, c) \/ Insert(n, c) \/ FetchFails(n, c)
       \/ \E m \in Chains \cup {"All"} : Invalidate(n, m)
       \/ Publish(n) \/ PublishFails(n) \/ ForeignPayload(n)
       \/ Connect(n) \/ ConnectFails(n) \/ Apply(n) \/ Drop(n) \/ Wake(n)
       \/ Restart(n)

Spec == Init /\ [][Next]_vars

\* The subscriber is a task of its own, timers fire and clients time out.
\* Nothing is assumed of Redis, of requests or of the REST service.
FairSpec ==
  /\ Spec /\ WF_vars(Tick)
  /\ \A n \in Nodes :
       /\ WF_vars(Connect(n) \/ ConnectFails(n) \/ Wake(n))
       /\ \A c \in Quoted : WF_vars(FetchFails(n, c))

-----------------------------------------------------------------------------
\* cache_sync.rs:21: whatever is lost, nodes "fall back to relying on the
\* cache's own TTL": no fee is served that was read longer ago than the time
\* to live and the longest fetch together.
FeeIsRecent ==
  \A n \in Nodes, c \in Quoted :
    entry[n][c] # None => entry[n][c].read < Ttl + FetchTimeout

\* cache_sync.rs:13: every node evicts what an invalidation names.  A fee
\* older than an invalidation stays only while the message is published or
\* waits in the node's stream, unless the message was lost or came while the
\* fee was being fetched.
InvalidationIsUnderWay ==
  \A n \in Nodes, c \in Quoted :
    entry[n][c] # None /\ entry[n][c].fate = "Due" =>
      \/ \E k \in Nodes : admin[k] # None /\ c \in Covers(admin[k])
      \/ \E i \in DOMAIN stream[n] : c \in Covers(stream[n][i])

\* cache_sync.rs:238: the pauses between attempts double from the shortest to
\* the longest, and start again with every subscription, also with one that
\* is dropped at once.
BackoffFollowsFailures ==
  \A n \in Nodes :
    LET d == MinBackoff * 2^sleeps[n] IN
    backoff[n] = IF d <= MaxBackoff THEN d ELSE MaxBackoff

\* cache_sync.rs:208: "the loop retries with exponential backoff": when Redis
\* stays up, every configured node ends up subscribed.
Resubscribes ==
  <>[](redis = "Up") => <>[](\A n \in Configured : sub[n] = "Subscribed")
=============================================================================
