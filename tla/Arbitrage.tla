----------------------------- MODULE Arbitrage -----------------------------
(***************************************************************************)
(* detect_arbitrage of wow-engine/src/router/arbitrage.rs, Bellman-Ford    *)
(* from a virtual source, and the passes of run_arbitrage_scanner.         *)
(*                                                                         *)
(* A rate is modelled by its weight -ln(rate) in whole steps, so there is  *)
(* no rounding and no EPSILON; NoRate stands for a rate that is not        *)
(* positive.  One behaviour is one pass over the snapshot `edges`.         *)
(***************************************************************************)
EXTENDS Integers, Sequences, FiniteSets, SequencesExt

CONSTANTS NoRate, \* weight of an edge that is not a valid exchange
          NoNode

VARIABLES edges, \* the snapshot of the pass: a sequence of [from, to, weight]
          scan,  \* where the pass stands, or how it ended
          cycle  \* the loop it reports, as a sequence of edges

scanner == <<edges, scan, cycle>>

Vertices(g) == {g[i].from : i \in DOMAIN g} \cup {g[i].to : i \in DOMAIN g}

\* Edges without a valid rate are dropped; their nodes still count.
Weighted(g) == {i \in DOMAIN g : g[i].weight # NoRate}

\* Distances, predecessors as indices of edges or 0, and the node that the
\* last pass relaxed last.
Improves(g, acc, i) ==
  i \in Weighted(g) /\ acc.dist[g[i].from] + g[i].weight < acc.dist[g[i].to]

Relax(g, acc, i) ==
  IF Improves(g, acc, i)
  THEN [dist |-> [acc.dist EXCEPT ![g[i].to] = acc.dist[g[i].from] + g[i].weight],
        pred |-> [acc.pred EXCEPT ![g[i].to] = i], last |-> g[i].to]
  ELSE acc

\* One pass over the edges.
Pass(g, acc) ==
  LET after[i \in 0..Len(g)] ==
        IF i = 0 THEN [acc EXCEPT !.last = NoNode] ELSE Relax(g, after[i - 1], i)
  IN after[Len(g)]

\* Distance 0 everywhere.
Untouched(g) ==
  [dist |-> [v \in Vertices(g) |-> 0], pred |-> [v \in Vertices(g) |-> 0], last |-> NoNode]

\* The code stops after a pass without effect, after which no pass has one.
Passes(g, passes) ==
  LET after[p \in 0..passes] == IF p = 0 THEN Untouched(g) ELSE Pass(g, after[p - 1])
  IN after[passes]

\* The node before v, NoNode if v has none; and the node k steps before it.
Previous(g, pred, v) == IF v = NoNode \/ pred[v] = 0 THEN NoNode ELSE g[pred[v]].from

Back(g, pred, v, k) ==
  LET back[i \in Nat] == IF i = 0 THEN v ELSE Previous(g, pred, back[i - 1])
  IN back[k]

None    == [scan |-> "None", cycle |-> <<>>]
Endless == [scan |-> "Endless", cycle |-> <<>>]
Loop(c) == [scan |-> "Loop", cycle |-> c]

\* The cycle is traced back from `on` and reversed; a trace that never
\* returned to `on` would not end.
Traced(g, pred, on, n) ==
  LET lengths == {k \in 1..n : Back(g, pred, on, k) = on}
      length  == CHOOSE k \in lengths : \A j \in lengths : k <= j
  IN IF on = NoNode THEN None
     ELSE IF lengths = {} THEN Endless
     ELSE Loop([i \in 1..length |-> g[pred[Back(g, pred, on, length - i)]]])

\* Mutant: the cycle is traced from the node that was relaxed last.
ReportWithoutWalk(g, done, n) == Traced(g, done.pred, done.last, n)

\* n predecessors back from the node relaxed last, the cycle is reached.
Report(g, done, n) ==
  IF done.last = NoNode THEN None
  ELSE Traced(g, done.pred, Back(g, done.pred, done.last, n), n)

\* Mutant: the passes that find the distances serve as the detector.
DetectEarly(g, n) == Report(g, Passes(g, n - 1), n)

DetectArbitrage(g, n) == Report(g, Passes(g, n + 1), n)

ScannerInit(g) == edges = g /\ scan = "Scanning" /\ cycle = <<>>

Scan ==
  /\ scan = "Scanning"
  /\ \E result \in {DetectArbitrage(edges, Cardinality(Vertices(edges)))} :
       scan' = result.scan /\ cycle' = result.cycle
  /\ UNCHANGED edges

-----------------------------------------------------------------------------
SumOfWeights(c) ==
  LET sum[k \in 0..Len(c)] == IF k = 0 THEN 0 ELSE sum[k - 1] + c[k].weight
  IN sum[Len(c)]

\* A loop of trades: edges with a rate, each from where the one before ended,
\* that pass through no node twice.
IsLoop(c, g) ==
  /\ c \in Seq({g[i] : i \in Weighted(g)}) /\ c # <<>>
  /\ \A i \in DOMAIN c : c[i].from = c[IF i = 1 THEN Len(c) ELSE i - 1].to
  /\ \A i, j \in DOMAIN c : c[i].from = c[j].from => i = j

\* Trails pass through no node twice; a loop is a closed one.
Loops(g) ==
  LET E == {g[i] : i \in Weighted(g)}
      extends(t, e) == t[Len(t)].to = e.from /\ \A i \in DOMAIN t : t[i].from # e.from
      trails[k \in 1..Cardinality(Vertices(g))] ==
        IF k = 1 THEN {<<e>> : e \in E}
        ELSE UNION {{Append(t, e) : e \in {e \in E : extends(t, e)}} : t \in trails[k - 1]}
  IN {c \in UNION {trails[k] : k \in DOMAIN trails} : IsLoop(c, g)}

\* arbitrage.rs:56: a pass ends, and what it reports is a loop of the
\* snapshot that returns more than it takes.
FoundIsGain ==
  /\ scan # "Endless"
  /\ scan = "Loop" => IsLoop(cycle, edges) /\ SumOfWeights(cycle) < 0

\* arbitrage.rs:70: nothing is reported only if there is no such loop.
NoneIsMissed == scan = "None" => \A c \in Loops(edges) : SumOfWeights(c) >= 0
=============================================================================
