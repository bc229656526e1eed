--------------------------- MODULE RoutePlanner ---------------------------
(***************************************************************************)
(* The two users of RoutePlanner: quote requests and the arbitrage scanner *)
(* that main.rs spawns.  They share no mutable state, so a behaviour is    *)
(* one quote request, or one pass of the scanner over a snapshot of the    *)
(* engine's quotes or over any other graph.                                *)
(***************************************************************************)
EXTENDS RouteSearch, Arbitrage

CONSTANTS Reference, \* ARBITRAGE_REFERENCE_UNITS
          Graphs     \* other snapshots

ASSUME PlannerAssumption ==
  /\ IsFiniteSet(Chains) /\ IsFiniteSet(Assets)
  /\ Reference \in Nat
  /\ NoRate \notin Int /\ NoNode \notin Nodes
  /\ Graphs \subseteq Seq([from : Nodes, to : Nodes, weight : Int \cup {NoRate}])

\* snapshot_arbitrage_edges: every offer for `Reference` units, as an edge
\* of the arbitrage graph.  At oracle prices the weight -ln(rate) of an edge
\* is shifted by a potential of its two nodes, which changes the sum of no
\* loop; what is left is kept by sign: 1 if the offer loses value.
Sign(i) == IF i > 0 THEN 1 ELSE IF i < 0 THEN -1 ELSE 0

Edge(leg) ==
  [from |-> leg.from, to |-> leg.to,
   weight |-> IF leg.out = 0 THEN NoRate
              ELSE Sign(Value(leg.from.asset, leg.in) - Value(leg.to.asset, leg.out))]

Snapshot ==
  LET nodes == SetToSeq(Nodes)
      offered(n) == SetToSeq({Edge(leg) : leg \in Legs(n, Reference)})
      upTo[k \in 0..Len(nodes)] ==
        IF k = 0 THEN <<>> ELSE upTo[k - 1] \o offered(nodes[k])
  IN upTo[Len(nodes)]

-----------------------------------------------------------------------------
ScannerIdle == edges = <<>> /\ scan = "Idle" /\ cycle = <<>>
PlannerIdle ==
  /\ request = NoNode /\ queue = {} /\ best = NoNode
  /\ routes = <<>> /\ rejected = FALSE /\ answer = "Idle"

PlannerInit ==
  \/ Init /\ ScannerIdle
  \/ PlannerIdle /\ \E g \in Graphs : ScannerInit(g)
  \/ PlannerIdle /\ ScannerInit(Snapshot)

PlannerNext ==
  \/ Next /\ UNCHANGED scanner
  \/ Scan /\ UNCHANGED vars

\* No loop of the engine's own quotes returns more than it takes, so the
\* scanner is silent on a snapshot of them (router/mod.rs:370).
QuotesOfferNoGain == edges = Snapshot => scan # "Loop"

PlannerSpec == PlannerInit /\ [][PlannerNext]_<<vars, scanner>>
=============================================================================
