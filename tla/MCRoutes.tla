----------------------------- MODULE MCRoutes -----------------------------
(* An engine for TLC that quotes, scans and collects: two chains and three  *)
(* assets with small pools, every graph of four edges over three nodes for  *)
(* the scanner, and an archive for the workers.  Quoting and scanning share *)
(* nothing with the archive, so a behaviour is about one of them.            *)
EXTENDS RoutePlanner, RouteArchive, TLC

CONSTANTS eth, usdc, xlm, ethereum, stellar

\* No request and no pass of the scanner: this one is about the archive.
Collecting == PlannerIdle /\ ScannerIdle
ArchiveIdle ==
  /\ age = [r \in Rows |-> Absent] /\ worker = [n \in Engines |-> Begin]
  /\ failures = 0

RoutesInit ==
  \/ PlannerInit /\ ArchiveIdle
  \/ Collecting /\ ArchiveInit

RoutesNext ==
  \/ PlannerNext /\ UNCHANGED archive
  \/ Collecting /\ ArchiveNext /\ UNCHANGED <<vars, scanner>>

\* Of the archive: time passes and each worker makes its steps; statements
\* fail finitely often.
RoutesSpec ==
  /\ RoutesInit /\ [][RoutesNext]_<<vars, scanner, archive>>
  /\ WF_archive(Collecting /\ Day)
  /\ \A n \in Engines : WF_archive(Collecting /\ Step(n))

\* Quote requests alone.
QuoteSpec ==
  Init /\ ScannerIdle /\ ArchiveIdle /\ [][RoutesNext]_<<vars, scanner, archive>>

-----------------------------------------------------------------------------
Prices == (eth :> 2000) @@ (usdc :> 1000) @@ (xlm :> 500)
Depths == (ethereum :> 500) @@ (stellar :> 100)
Fees   == (ethereum :> 3000) @@ (stellar :> 10)

\* Pools of similar depth, and gas that costs less than a swap.
NearDepths == (ethereum :> 500) @@ (stellar :> 300)
LowFees    == (ethereum :> 2500) @@ (stellar :> 10)

TwoCandidates == <<2, 4>>

\* Graphs of three nodes and four edges, the first from the first node.
Three   == {[chain |-> ethereum, asset |-> a] : a \in Assets}
First   == [chain |-> ethereum, asset |-> eth]
Second  == [chain |-> ethereum, asset |-> usdc]
Weights == {-1, 0, 1, NoRate}
Edges   == {e \in [from : Three, to : Three, weight : Weights] : e.from # e.to}
FourEdges ==
  {<<[from |-> First, to |-> Second, weight |-> w], a, b, c>> :
     w \in Weights, a \in Edges, b \in Edges, c \in Edges}
NoGraphs == {}
=============================================================================
