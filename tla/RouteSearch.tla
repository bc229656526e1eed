---------------------------- MODULE RouteSearch ----------------------------
(***************************************************************************)
(* RoutePlanner::find_best_route of wow-engine/src/router/mod.rs: a        *)
(* best-first search over (chain, asset) nodes with a priority queue,      *)
(* pruned by the best value seen at a node, limited to MaxHops legs; and   *)
(* quote_handler of api/mod.rs, which asks for one route per node.         *)
(*                                                                         *)
(* One behaviour is one request.  States of equal value leave the heap in  *)
(* any order.  A request's gas fees are fetched once, so they are constant.*)
(***************************************************************************)
EXTENDS Quotes, FiniteSets

CONSTANTS Amounts,   \* amounts of the requests
          MaxHops,   \* 3
          MaxRoutes, \* 5
          Modes      \* values of multi_path asked for

ASSUME RouteSearchAssumption ==
  /\ Amounts \subseteq Nat \ {0} /\ MaxHops \in Nat \ {0} /\ MaxRoutes \in Nat \ {0}
  /\ Modes \subseteq BOOLEAN

Nodes == [chain : Chains, asset : Assets]

VARIABLES request,  \* from, to, amount and multi_path
          queue,    \* the heap: states not yet expanded
          best,     \* best_seen, 0 for a node it does not hold
          routes,   \* final_routes, in the order they were found
          rejected, \* whether an impact rejection was remembered
          answer    \* what find_best_route returned

vars == <<request, queue, best, routes, rejected, answer>>

\* A leg, and a state of the search: its value, amount, node and legs.
Leg(how, from, to, in, out, fee) ==
  [how |-> how, from |-> from, to |-> to, in |-> in, out |-> out, fee |-> fee]
State(usd, amount, node, legs) ==
  [usd |-> usd, amount |-> amount, node |-> node, legs |-> legs]

Start(r) == State(Value(r.from.asset, r.amount), r.amount, r.from, <<>>)

InitFor(r) ==
  /\ request = r
  /\ queue = {Start(r)}
  /\ best = [n \in Nodes |-> IF n = r.from THEN Start(r).usd ELSE 0]
  /\ routes = <<>> /\ rejected = FALSE /\ answer = "Searching"

Requests == [from : Nodes, to : Nodes, amount : Amounts, multi : Modes]

Init == \E r \in Requests : InitFor(r)

-----------------------------------------------------------------------------
(* The legs offered from a node, and their value to the search: a bridge's *)
(* gas fee counts against the hop it belongs to, a swap has paid its own.  *)
Swaps(n, amount) ==
  {[to |-> [n EXCEPT !.asset = a], quote |-> SwapQuote(n.chain, n.asset, a, amount)] :
     a \in Assets \ {n.asset}}

SwapLegs(n, amount) ==
  {Leg("Swap", n, s.to, amount, s.quote.out, s.quote.fee) :
     s \in {s \in Swaps(n, amount) : s.quote.error = "None"}}

Bridges(how, n, amount, quote) ==
  {Leg(how, n, [n EXCEPT !.chain = c], amount, quote.out, quote.fee) :
     c \in Chains \ {n.chain}}

CctpLegs(n, amount) ==
  IF n.asset = Usdc THEN Bridges("CCTP", n, amount, CctpQuote(n.chain, amount)) ELSE {}

DeBridgeLegs(n, amount) ==
  Bridges("deBridge", n, amount, DeBridgeQuote(n.chain, amount))

Legs(n, amount) ==
  SwapLegs(n, amount) \cup CctpLegs(n, amount) \cup DeBridgeLegs(n, amount)

NetUsd(leg) ==
  LET net == Value(leg.to.asset, leg.out) - (IF leg.how = "Swap" THEN 0 ELSE leg.fee)
  IN IF net > 0 THEN net ELSE 0

\* Mutant: best_seen is keyed by the chain, whatever the asset.
ConsiderByChain(s, acc, leg) ==
  LET usd  == NetUsd(leg)
      next == State(usd, leg.out, leg.to, Append(s.legs, leg))
      best_on_chain == {acc.best[n] : n \in {n \in Nodes : n.chain = leg.to.chain}}
  IN [queue |-> IF request.multi \/ \A v \in best_on_chain : usd > v
                THEN acc.queue \cup {next} ELSE acc.queue,
      best  |-> IF usd > acc.best[leg.to]
                THEN [acc.best EXCEPT ![leg.to] = usd] ELSE acc.best]

\* One offer: pruned unless it improves on what was seen at its node.
Consider(s, acc, leg) ==
  LET usd  == NetUsd(leg)
      next == State(usd, leg.out, leg.to, Append(s.legs, leg))
  IN [queue |-> IF request.multi \/ usd > acc.best[leg.to]
                THEN acc.queue \cup {next} ELSE acc.queue,
      best  |-> IF usd > acc.best[leg.to]
                THEN [acc.best EXCEPT ![leg.to] = usd] ELSE acc.best]

\* The offers of a state in the order of the code; that matters only for
\* legs to the same node, of which CCTP's is looked at first.
Offers(s) ==
  SetToSeq(SwapLegs(s.node, s.amount)) \o SetToSeq(CctpLegs(s.node, s.amount))
    \o SetToSeq(DeBridgeLegs(s.node, s.amount))

\* The highest value leaves the heap first.
Popped(s) ==
  /\ answer = "Searching"
  /\ s \in queue /\ \A t \in queue : t.usd <= s.usd

Reach(s) ==
  /\ Popped(s) /\ s.node = request.to
  /\ queue' = queue \ {s}
  /\ routes' = IF s.legs = <<>> THEN routes ELSE Append(routes, s)
  /\ UNCHANGED <<request, best, rejected, answer>>

GiveUp(s) ==
  /\ Popped(s) /\ s.node # request.to /\ Len(s.legs) >= MaxHops
  /\ queue' = queue \ {s}
  /\ UNCHANGED <<request, best, routes, rejected, answer>>

Considered(s) ==
  LET offers == Offers(s)
      after[i \in 0..Len(offers)] ==
        IF i = 0 THEN [queue |-> queue \ {s}, best |-> best]
        ELSE Consider(s, after[i - 1], offers[i])
  IN after[Len(offers)]

Expand(s) ==
  /\ Popped(s) /\ s.node # request.to /\ Len(s.legs) < MaxHops
  /\ \E done \in {Considered(s)} : queue' = done.queue /\ best' = done.best
  /\ rejected' = (\/ rejected
                  \/ \E w \in Swaps(s.node, s.amount) :
                       w.quote.error = "ExcessivePriceImpact")
  /\ UNCHANGED <<request, routes, answer>>

SumOfFees(legs) ==
  LET sum[k \in 0..Len(legs)] == IF k = 0 THEN 0 ELSE sum[k - 1] + legs[k].fee
  IN sum[Len(legs)]

\* The order of the answer: amount out, then fees in cents, then discovery.
Before(i, j) ==
  LET cents(k) == SumOfFees(routes[k].legs) \div 10 IN
  \/ routes[i].amount > routes[j].amount
  \/ routes[i].amount = routes[j].amount /\ cents(i) < cents(j)
  \/ routes[i].amount = routes[j].amount /\ cents(i) = cents(j) /\ i < j

\* Sorted, and cut after MaxRoutes.
Ranked ==
  [k \in 1..(IF Len(routes) < MaxRoutes THEN Len(routes) ELSE MaxRoutes) |->
     routes[CHOOSE i \in DOMAIN routes :
              Cardinality({j \in DOMAIN routes : Before(j, i)}) = k - 1]]

\* The heap is empty: rank what was found, or say why nothing was.
Finish ==
  /\ answer = "Searching" /\ queue = {}
  /\ answer' = IF routes = <<>> /\ rejected THEN "ExcessivePriceImpact" ELSE "Routes"
  /\ routes' = Ranked
  /\ UNCHANGED <<request, queue, best, rejected>>

Next ==
  \/ Finish
  \/ \E s \in queue : Reach(s) \/ GiveUp(s) \/ Expand(s)

Spec == Init /\ [][Next]_vars

-----------------------------------------------------------------------------
\* The amounts that at most `hops` offers deliver at `to`, reached for the
\* first time.
Deliveries(to) ==
  LET by[hops \in 0..MaxHops] ==
        [n \in Nodes |-> [amount \in Nat |->
           IF n = to THEN {amount}
           ELSE IF hops = 0 THEN {}
           ELSE UNION {by[hops - 1][leg.to][leg.out] : leg \in Legs(n, amount)}]]
  IN by

\* All that MaxHops legs can deliver for the request, and its direct offers.
Deliverable == Deliveries(request.to)[MaxHops][request.from][request.amount]
Direct == {leg \in Legs(request.from, request.amount) : leg.to = request.to}

Answered == answer = "Routes" /\ request.from # request.to

\* router/mod.rs:189: what pruning keeps at a node is the best seen there, so the
\* first route is one that MaxHops legs can deliver, worth at least what any
\* direct offer leaves after its fee; without pruning it delivers the most.
BestRouteFirst ==
  Answered =>
    IF routes = <<>>
    THEN (\A leg \in Direct : NetUsd(leg) = 0) /\ (request.multi => Deliverable = {})
    ELSE /\ routes[1].amount \in Deliverable
         /\ \A leg \in Direct : Value(request.to.asset, routes[1].amount) >= NetUsd(leg)
         /\ request.multi => \A a \in Deliverable : a <= routes[1].amount

\* The routes of at most `hops` offers: what they deliver, and their fees.
Journeys(to) ==
  LET more(leg, rest) == {[c EXCEPT !.fees = @ + leg.fee] : c \in rest}
      by[hops \in 0..MaxHops] ==
        [n \in Nodes |-> [amount \in Nat |->
           IF n = to THEN {[amount |-> amount, fees |-> 0]}
           ELSE IF hops = 0 THEN {}
           ELSE UNION {more(leg, by[hops - 1][leg.to][leg.out]) : leg \in Legs(n, amount)}]]
  IN by

\* README.md:43, "Optimal pathfinding based on cost and execution time": no
\* route both delivers more than the first one and costs less.
OptimalPathfinding ==
  Answered =>
    \A c \in Journeys(request.to)[MaxHops][request.from][request.amount] :
      /\ routes # <<>>
      /\ c.amount <= routes[1].amount \/ c.fees >= SumOfFees(routes[1].legs)

SwapOffers == {s.legs[Len(s.legs)] : s \in {s \in queue : s.legs # <<>>}}
Swapped == {leg \in SwapOffers : leg.how = "Swap"}

\* What the simulation of n tranches rounds away: of the input of each, a part
\* at the division and one at the fee; of its output, a part.
RoundedAway(pool, n) == n * (1 + 2 * ((pool.out + pool.in - 1) \div pool.in))

\* slippage.rs:121: splitting a swap on offer delivers no less than one lump
\* swap, but for what is rounded away.
SplitPays ==
  \A leg \in Swapped, n \in Range(Tranches) :
    LET pool  == Pool(leg.from.chain, leg.from.asset, leg.to.asset)
        lump  == EstimateSwap(leg.in * Scale, pool)
        split == EstimateSplitSwap(leg.in * Scale, pool, n)
    IN split.error = "None" => split.out >= lump.out - RoundedAway(pool, n)

\* slippage.rs:27: a swap on offer, split or not, loses no more than the fee
\* and the largest impact allowed, half a basis point included that the limit
\* does not see, but for the last unit and what is rounded away.
LossIsBounded ==
  \A leg \in Swapped : \E n \in Range(Tranches) :
    LET pool   == Pool(leg.from.chain, leg.from.asset, leg.to.asset)
        traded == Value(leg.from.asset, AfterFee(leg.in * Scale))
        most   == (leg.out + 1) * Scale + 1 + RoundedAway(pool, n)
    IN Value(leg.to.asset, most) >= (traded \div 20000) * (20000 - (2 * MaxImpact + 1))
=============================================================================
