------------------------------ MODULE Quotes ------------------------------
(***************************************************************************)
(* The quotes routes are made of, as pure functions: the pool simulation   *)
(* of wow-engine/src/router/slippage.rs, the DEX quote with its order      *)
(* splitting of router/dex.rs, and the bridge quotes of bridge/cctp.rs and *)
(* bridge/debridge.rs.                                                     *)
(*                                                                         *)
(* Trade amounts are whole units, as in the u64 of the code.  What the     *)
(* code computes in floating point is computed in fixed point, `Scale`     *)
(* parts to a unit, rounded down; USD amounts are in thousandths.          *)
(***************************************************************************)
EXTENDS Integers, Sequences, SequencesExt

CONSTANTS Chains, Assets,
          Usdc,           \* the asset CCTP transports
          Majors,         \* the assets with the deepest pools
          Price,          \* of an asset, in thousandths of a USD
          ChainDepth,     \* of the pools of a chain, in USD
          GasFee,         \* of a transfer from a chain, from the gas oracle
          FeeBps,         \* LP_FEE_BPS
          ProtocolFee,    \* deBridge keeps one unit in so many
          MaxImpact,      \* MAX_PRICE_IMPACT_BPS
          SplitThreshold, \* ORDER_SPLIT_THRESHOLD_BPS
          Tranches,       \* SPLIT_TRANCHE_CANDIDATES
          Scale

ASSUME QuotesAssumption ==
  /\ Usdc \in Assets /\ Majors \subseteq Assets
  /\ Price \in [Assets -> Nat \ {0}]
  /\ ChainDepth \in [Chains -> Nat] /\ GasFee \in [Chains -> Nat]
  /\ FeeBps \in 0..9999 /\ ProtocolFee \in Nat \ {0}
  /\ MaxImpact \in 0..9999 /\ SplitThreshold \in 0..MaxImpact
  /\ Tranches \in Seq(Nat \ {0}) /\ Tranches # <<>>
  /\ Scale \in Nat \ {0}

-----------------------------------------------------------------------------
(* slippage.rs.  A pool is the pair of its reserves, in parts.             *)
AfterFee(dx) == (dx * (10000 - FeeBps)) \div 10000

\* round(dx' / (x + dx') * 10000), of what is left after the fee.
ImpactBps(in, pool) ==
  (2 * 10000 * in + pool.in + in) \div (2 * (pool.in + in))

Refused(why) == [error |-> why, impact |-> 0, out |-> 0]

Estimate(in, pool, impact) ==
  IF impact > MaxImpact THEN Refused("ExcessivePriceImpact")
  ELSE [error |-> "None", impact |-> impact,
        out |-> (in * pool.out) \div (pool.in + in)]

EstimateSwap(dx, pool) ==
  IF dx <= 0 THEN Refused("ZeroAmount")
  ELSE IF pool.in <= 0 \/ pool.out <= 0 THEN Refused("NoLiquidity")
  ELSE Estimate(AfterFee(dx), pool, ImpactBps(AfterFee(dx), pool))

\* Mutant: the pool keeps the whole leg, fee included.
AfterLegGross(pool, dx, out) == [in |-> pool.in + dx, out |-> pool.out - out]

\* What a leg leaves behind: only the part of it that was traded counts.
AfterLeg(pool, dx, out) ==
  [in |-> pool.in + AfterFee(dx), out |-> pool.out - out]

\* One more leg of a split; the first error ends it.
Traded(acc, leg, e) ==
  IF e.error # "None" THEN [acc EXCEPT !.error = e.error]
  ELSE [error |-> "None", pool |-> AfterLeg(acc.pool, leg, e.out),
        out |-> acc.out + e.out, sum |-> acc.sum + e.impact]

TradeLeg(acc, leg) ==
  IF acc.error # "None" THEN acc ELSE Traded(acc, leg, EstimateSwap(leg, acc.pool))

Untraded(pool) == [error |-> "None", pool |-> pool, out |-> 0, sum |-> 0]

Blended(acc, n) ==
  IF acc.error # "None" THEN Refused(acc.error)
  ELSE [error |-> "None", impact |-> acc.sum \div n, out |-> acc.out]

\* `n` equal legs, one after the other.
EstimateSplitSwap(dx, pool, n) ==
  LET after[i \in 0..n] ==
        IF i = 0 THEN Untraded(pool) ELSE TradeLeg(after[i - 1], dx \div n)
  IN Blended(after[n], n)

PoolDepth(chain, a, b) ==
  IF {a, b} \cap Majors # {} THEN ChainDepth[chain] ELSE ChainDepth[chain] \div 10

-----------------------------------------------------------------------------
(* dex.rs                                                                  *)
Pool(chain, from, to) ==
  LET reserve(a) == (PoolDepth(chain, from, to) * 1000 * Scale) \div Price[a]
  IN [in |-> reserve(from), out |-> reserve(to)]

\* The first tranche count whose blended impact is low enough, or the last;
\* a refused split ends the search, and counts as one of no impact here.
FirstGood(splits) ==
  LET good == {i \in DOMAIN splits : splits[i].impact <= SplitThreshold}
  IN splits[IF good = {} THEN Len(splits) ELSE CHOOSE i \in good : \A j \in good : i <= j]

BestSplit(dx, pool) ==
  FirstGood([i \in DOMAIN Tranches |-> EstimateSplitSwap(dx, pool, Tranches[i])])

\* Mutant: large trades are split first, so that only tranches face the limit.
SplitIfLargeFirst(dx, pool, lump) ==
  IF ImpactBps(AfterFee(dx), pool) > SplitThreshold THEN BestSplit(dx, pool) ELSE lump

\* Trades the pool can take are split when their impact is large.
SplitIfLarge(dx, pool, lump) ==
  IF lump.error = "None" /\ lump.impact > SplitThreshold
  THEN BestSplit(dx, pool) ELSE lump

Value(asset, amount) == Price[asset] * amount

\* Mutant: the output is rounded up to a unit.
QuoteUp(from, to, amount, e) ==
  [error |-> e.error, impact |-> e.impact,
   out |-> (e.out + Scale - 1) \div Scale,
   fee |-> Value(from, amount) - (e.out * Price[to]) \div Scale]

Quote(from, to, amount, e) ==
  [error |-> e.error, impact |-> e.impact,
   out |-> e.out \div Scale,
   fee |-> Value(from, amount) - (e.out * Price[to]) \div Scale]

SwapQuote(chain, from, to, amount) ==
  LET dx == amount * Scale pool == Pool(chain, from, to)
  IN Quote(from, to, amount, SplitIfLarge(dx, pool, EstimateSwap(dx, pool)))

-----------------------------------------------------------------------------
(* cctp.rs and debridge.rs                                                 *)
CctpQuote(chain, amount) == [out |-> amount, fee |-> GasFee[chain]]

DeBridgeQuote(chain, amount) ==
  [out |-> amount - amount \div ProtocolFee, fee |-> GasFee[chain]]
=============================================================================
