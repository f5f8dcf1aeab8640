------------------------- MODULE EcosystemAnalysis --------------------------
(***************************************************************************)
(* agent/src/analysis/poolStrategyAnalysis.ts with data/                   *)
(* ecosystemProtocols.ts: one pool against the protocols of the Mainnet    *)
(* ecosystem.  It sees a snapshot of the pool and, of each protocol, what  *)
(* two public services answered or failed to answer; it changes nothing.   *)
(***************************************************************************)
EXTENDS DecisionEngine, FiniteSets

CONSTANTS
  NotChecked,    \* null: a service did not answer in time
  ChecksTried    \* answers the public services may give together

(* ECOSYSTEM_PROTOCOLS in order, by what the analysis looks at.            *)
EcosystemProtocols ==
  <<[id |-> "alex", category |-> "DEX / AMM"],
    [id |-> "zest", category |-> "Lending"],
    [id |-> "arkadiko", category |-> "CDP / Stablecoin"],
    [id |-> "stackingdao", category |-> "Liquid Staking"],
    [id |-> "bitflow", category |-> "DEX / AMM"],
    [id |-> "velar", category |-> "DEX / AMM"],
    [id |-> "granite", category |-> "Lending"],
    [id |-> "hermetica", category |-> "Synthetic Dollar"],
    [id |-> "lisa", category |-> "Liquid Staking"]>>

Listings == DOMAIN EcosystemProtocols

ASSUME ChecksAssumption ==
  /\ NotChecked \notin BOOLEAN \cup Nat
  /\ ChecksTried \subseteq [Listings -> [live: BOOLEAN \cup {NotChecked},
                                        tvl: Nat \cup {NotChecked}]]

AssetSupport(id) ==
  CASE id \in {"alex", "zest"} -> {"STX", "SBTC"}
    [] id \in {"arkadiko", "stackingdao"} -> {"STX"}
    [] id = "granite" -> {"SBTC"}
    [] OTHER -> {}

CategoryRisk(category) ==
  CASE category \in {"Lending", "Liquid Staking"} -> 1
    [] category = "DEX / AMM" -> 2
    [] OTHER -> 3

RiskTier(p) == CategoryRisk(EcosystemProtocols[p].category)

-----------------------------------------------------------------------------
(* The amount. *)

(* Fault: the reserve is rounded down. *)
SizeAboveFlooredReserve(s) ==
  Lesser(Excess(s.idle, FlooredReserve(s)),
         Lesser(MaxExposureAmount(s), s.config.params.maxTxAmount[s.asset]))

SizeDeployable(s) ==
  Lesser(Excess(s.idle, MinLiquidityReserve(s)),
         Lesser(MaxExposureAmount(s), s.config.params.maxTxAmount[s.asset]))

(* The reasons that hold whatever the pool's limits are. *)
Blocked(s) ==
  {b \in {"protocol paused"} : s.protocolPaused} \cup {b \in {"asset"} : ~s.supportsAsset}
    \cup {b \in {"vault paused"} : s.paused} \cup {b \in {"empty"} : s.total = 0}

Deployable(s) == IF Blocked(s) # {} THEN 0 ELSE SizeDeployable(s)

(* "Reasons no allocation could happen right now regardless of strategy". *)
Blockers(s) == IF Blocked(s) = {} /\ Deployable(s) = 0 THEN {"limits"} ELSE Blocked(s)

-----------------------------------------------------------------------------
(* The ranking.  checks[p].live is TRUE, FALSE after a 404, or NotChecked; *)
(* checks[p].tvl is a number or NotChecked.                                *)

Supports(p, asset) == asset \in AssetSupport(EcosystemProtocols[p].id)

Candidates(s, checks) == {p \in Listings : checks[p].live = TRUE /\ Supports(p, s.asset)}

(* Fault: an unknown figure is compared as if it were the largest. *)
TvlOrMost(check) == IF check.tvl = NotChecked THEN 1000 ELSE check.tvl

TvlOrLess(check) == IF check.tvl = NotChecked THEN 0 - 1 ELSE check.tvl

(* The sort is stable: among equals the list's order decides. *)
Ahead(checks, p, q) ==
  LET deeper == TvlOrLess(checks[p]) - TvlOrLess(checks[q]) IN
  \/ RiskTier(p) < RiskTier(q)
  \/ RiskTier(p) = RiskTier(q) /\ deeper > 0
  \/ RiskTier(p) = RiskTier(q) /\ deeper = 0 /\ p < q

Rank(s, checks, p) == 1 + Cardinality({q \in Candidates(s, checks) : Ahead(checks, q, p)})

(* analyzePoolAgainstEcosystem: what it suggests to put where. *)
HypotheticalAllocation(s, checks, p) ==
  IF p \in Candidates(s, checks) THEN Deployable(s) ELSE 0

(* The protocol that stands first, and why one is left out. *)
TopPick(s, checks) == {p \in Candidates(s, checks) : Rank(s, checks, p) = 1}

Exclusion(s, checks, p) ==
  {r \in {"not found"} : checks[p].live = FALSE}
    \cup {r \in {"not verified"} : checks[p].live = NotChecked}
    \cup {r \in {"asset"} : ~Supports(p, s.asset)}

(* The sentence about the protocols, and whether the one about the         *)
(* blockers follows it.                                                    *)
Summary(s, checks) ==
  [about |-> CASE Candidates(s, checks) # {} -> "best fit"
               [] \A p \in Listings : ~Supports(p, s.asset) -> "none accepts the asset"
               [] OTHER -> "none could be verified live",
   blocked |-> Blockers(s) # {}]

-----------------------------------------------------------------------------
(* The analysis beside the contracts and the decision engine: what it      *)
(* would say of every pool, at every moment.                               *)

(* What it suggests to put in a protocol respects the vault's own rules as *)
(* exact ratios, and is what the decision engine would propose for a       *)
(* strategy that is new to the pool and whose registry cap leaves room     *)
(* ("Mirrors decisionEngine.analyze's sizing",                             *)
(* poolStrategyAnalysis.ts:159): the two never contradict each other.      *)
SuggestionsFollowRules ==
  \A v \in Analysed, a \in Assets :
    LET s == SnapshotOf(v, a)
        n == Deployable(s)
    IN n > 0 =>
       /\ n <= s.idle /\ n <= s.config.params.maxTxAmount[a]
       /\ n * BPS <= s.total * s.config.params.maxExposureBps
       /\ (s.idle - n) * BPS >= s.total * s.config.params.minIdleBps
       /\ (CanAllocate(s) /\ s.allocations[Destination(s)] = 0 /\ MaxProtocolAmount(s) >= n)
            => Decision(s) = "REBALANCE" /\ ProposedAmount(s) = n

(* A service that fails to answer never helps the protocol it was asked    *)
(* about ("could not be checked" is not "good"): without its figure the    *)
(* protocol ranks no better, and unseen it gets nothing suggested and      *)
(* nobody else ranks worse.                                                *)
UnansweredNeverHelps ==
  \A v \in Analysed, a \in Assets, checks \in ChecksTried :
    LET s == SnapshotOf(v, a) IN
    \A p \in Candidates(s, checks) :
      LET unread == [checks EXCEPT ![p].tvl = NotChecked]
          unseen == [checks EXCEPT ![p].live = NotChecked]
      IN /\ Rank(s, unread, p) >= Rank(s, checks, p)
         /\ HypotheticalAllocation(s, unseen, p) = 0
         /\ \A q \in Candidates(s, unseen) : Rank(s, unseen, q) <= Rank(s, checks, q)

Move(v, a, i, n) ==
  [vault |-> v, strategy |-> i, asset |-> a, amount |-> n, maxSlippageBps |-> 0,
   nonce |-> vaultConfig[v].lastUsedNonce + 1, deadline |-> height + 1]

(* More than the owner's maximum share, by what check-intent rounds off.   *)
PassesByRounding(s, n) ==
  /\ n * BPS > s.total * s.config.params.maxExposureBps
  /\ n * BPS < s.total * (s.config.params.maxExposureBps + 1)

(* "Right now this vault could not allocate anything" is true on chain:    *)
(* with a blocker the contracts pass no intent of the pool, whatever its   *)
(* amount and its strategy, but one that is above the owner's maximum by   *)
(* less than a basis point and passes because the guard rounds the share   *)
(* down; paused or without funds not even that.  Without a blocker there   *)
(* is something to suggest (poolStrategyAnalysis.ts:179-190, 275).         *)
BlockersTrue ==
  \A v \in Analysed, a \in Assets :
    LET s == SnapshotOf(v, a) IN
    IF Blockers(s) # {}
    THEN \A i \in StrategyIds, n \in 1 .. s.total :
           Evaluate(s.owner, Move(v, a, i, n)) => Blocked(s) = {} /\ PassesByRounding(s, n)
    ELSE Deployable(s) > 0

(* Every protocol is ranked or says why not, one stands first when any is  *)
(* ranked, and a sentence for none ranked is said for its own reason: that *)
(* no protocol takes the asset, or that some do but each of them was not   *)
(* found or not answered for.                                              *)
SummaryTrue ==
  \A v \in Analysed, a \in Assets, checks \in ChecksTried :
    LET s == SnapshotOf(v, a) IN
    /\ \A p \in Listings : p \in Candidates(s, checks) <=> Exclusion(s, checks, p) = {}
    /\ Cardinality(TopPick(s, checks)) = (IF Candidates(s, checks) = {} THEN 0 ELSE 1)
    /\ Summary(s, checks).about = "none accepts the asset" =>
         \A p \in Listings : "asset" \in Exclusion(s, checks, p)
    /\ Summary(s, checks).about = "none could be verified live" =>
         /\ \E p \in Listings : Supports(p, a)
         /\ \A p \in Listings : Supports(p, a) =>
              Exclusion(s, checks, p) \in {{"not found"}, {"not verified"}}

(* What is said of real protocols follows the vault's rules, and what      *)
(* could not be checked.                                                   *)
EcosystemAdviceHonest ==
  SuggestionsFollowRules /\ UnansweredNeverHelps /\ BlockersTrue /\ SummaryTrue
=============================================================================
