# SovereigntyAI: specification and verification

SovereigntyAI is a non-custodial treasury protocol on Stacks. Users deposit STX
and sBTC into vaults, receive non-transferable receipt shares, and redeem the
shares for idle funds at any time. An off-chain agent recommends moving idle funds
into registered strategies; a recommendation becomes an *execution intent* that
the contracts validate against the vault's mandate. A web app shows all of it and
sends the users' transactions. This directory models the program in TLA+, checks
the models with TLC and proves theorems about them with TLAPS.

Paths of TypeScript files are relative to `src/agent/src` and `src/apps/web/src`,
those of contracts to `src/contracts`.

## 1. Inventory

### Contracts (`contracts/*.clar`)

| component | state | operations |
|---|---|---|
| `sovereignty-protocol-admin-v4` | admin, nominee, protocol pause | propose-admin, accept-admin, pause-protocol, unpause-protocol |
| `agent-registry-v4` | executor entries, active or revoked | register, revoke, reactivate |
| `strategy-registry-v6` | strategy entries (contract, asset, active, cap), next id | register, activate, deactivate |
| `receipt-token-v7` | share balances and supplies per vault and asset | mint, burn (by the vault only); transfer always fails |
| `risk-guard-v7` | protocol limits, approved sBTC token, execution gate, per vault: risk parameters, last nonce, last execution height | admin setters; init/replace configuration and autonomous mode (by the vault only); check-intent; validate-and-record-intent (by the engine only) |
| `sovereignty-vault-v7` | vaults, owner and holder indexes, idle, total and allocated balances | create, configure, pause, deposit, redeem, execute-rebalance (by the engine only) |
| `execution-engine-v7` | none | evaluate-rebalance-intent (read-only), submit-rebalance-intent |

The contracts call each other synchronously, and an error anywhere rolls the
whole transaction back, so there is no partial state between calls. What makes
them hard: the state of one promise is spread over several contracts (a pool is
a supply in `receipt-token`, three balances in the vault, tokens in one
account shared by all vaults); calls of many wallets arrive in any order; values
checked when they are set (protocol limits, the exposure cap, the approved
token) may be stale when they are relied on; integer division decides prices
and limits.

### Agent (`agent/src`)

| component | state | operations |
|---|---|---|
| `pipeline.ts` with `buildIntent.ts`, `gate.ts`, `submitIntent.ts` | none of its own; a decision record in progress | runRecommendation, executeValidatedIntent |
| `decisionEngine.ts` | none | analyze: a pure function of a vault snapshot |
| `protocolState.ts`, `stacksClient.ts`, `txMonitor.ts` | none | snapshots read in many calls; polling of a transaction |
| `store.ts` | one JSON file, at most 500 records, rewritten by the agent server and the web server | record, update, list |
| `poolStrategyAnalysis.ts`, `ecosystemProtocols.ts` | none | the analysis of ecosystem protocols for one pool: candidates, exclusions, suggested amount |
| `strategyAnalysis.ts` | none | the analysis of one protocol, with a model's two texts |
| `chatHandler.ts` | none | one streamed reply, with the history the browser sends |
| `server.ts`, `config.ts` | configuration | HTTP routes |
| `narrator.ts` | none | a model's wording of three texts of a recommendation |

Hard here: every read precedes an `await`, and the chain moves meanwhile; the
transaction monitor outlives the request; two processes rewrite one file, and
either may end while it does; amounts are computed with floor and ceiling beside
a contract that floors differently; a model's reply is data from outside.

### Web app (`apps/web/src`)

| component | state | operations |
|---|---|---|
| `lib/onchain.ts`, `lib/wallet.ts` | the connected account | reads of the chain in groups of calls; signing and broadcasting with post-conditions; waiting for a transaction |
| `useVaultOverview`, `useMyVaults`, `useTransaction`, `useBalances` | overview, list of treasuries, phase of a submission | refreshes on mount, on an interval and after a confirmation |
| `vault/[id]/*`, `vault/create` | form fields, preview, outcome | deposit, redeem, settings, pause, creation in six steps |
| `dashboard`, `ActivityFeed`, vault activity tab | cards, filters, feed rows | what the reads above become on screen |
| `vault/[id]/recommendations` | run, latest record, history | request an analysis and a recommendation, show the record |
| `strategies`, `StrategyExplorer`, `StrategyAnalysisDrawer` | listing, open drawer | periodic loads, one analysis per opened drawer |
| `api/stx-price`, `api/ecosystem` | a cached quote, cached protocols, the fetch under way | serve from the cache, share a fetch, fall back to older values |
| `ChatWidget`, `api/chat` | messages, the open stream | send, receive pieces, stop |
| `lib/server/agentCore.ts` | the loaded core | host the agent core in the web server |

Hard here: overlapping refreshes whose answers overtake each other, an account
or a page that changes while an answer is awaited, a wait that times out before
the transaction is mined, checks on a form that must equal those of four
contracts, a log read in pages while it grows, caches with several ages, a
stream that may break off at any byte.

### What makes each component correct

- pools: idle + allocated = total, total = shares, shares of holders = supply;
  custody covers the idle funds of all pools; no step moves value between
  wallets or dilutes a claim; idle STX is always redeemable;
- pricing: rounding never favours the caller, no assets without shares;
- intents: no replay, every deployment inside the mandate in force, an executor
  only with the admin's standing and the owner's consent, what the read-only
  evaluation passes executes, and nothing at all off mainnet;
- discovery: a vault and its configuration appear together, indexes complete;
- agent: amounts it proposes pass the guard on the same snapshot, records never
  claim more than was observed, the executor key is used only behind the gate,
  every request and monitor ends;
- store: while the two processes keep out of each other's way, one value that is
  appended to and updated; whatever they do, no record that no run wrote;
- analysis of protocols: the suggested amount is what the guard would take, what
  could not be checked is never preferred to what was;
- web: a button works exactly when the contracts would accept, the viewer pays
  for what the page shows and nobody else, what is shown after a confirmation was
  read after it, nothing older replaces something newer, lists miss nothing;
- public data: what is shown was read, and is as old as it is said to be;
- chat and feed: a reply that is not marked is whole, no row is invented or lost.

The hazards behind these are listed with their lines in `PROJECT.json`.

## 2. Modules

A transaction is one step, an action is the successful run of one public
function with everything it calls, and a failing call is a stuttering step:
Clarity reverts it as a whole. Functions that only another contract may call
(`contract-caller` checks) are operators inside the caller's action.

### The protocol

| module | models |
|---|---|
| `StacksChain` | external: block height, chain id, STX and SIP-010 ledgers, transfers, donations to the vault's account |
| `ProtocolAdmin`, `AgentRegistry`, `StrategyRegistry`, `ReceiptToken`, `RiskGuard` | the contract of that name, one action or operator per function |
| `SharePricing` | `compute-deposit-shares`, `compute-redeem-assets`, the claim of `get-position` |
| `SovereigntyVault` | the vault contract over the above |
| `ExecutionEngine` | evaluation and submission of intents |
| `SovereigntyProtocol` | the composition: `Next` is any function called by any wallet, and blocks |
| `ProtocolProperties` | the properties, stated over the public state |
| `TreasuryLedger` | abstract: purses, claims and idle units, one for one; what the contracts implement |
| `PoolPricing` | one pool at prices other than one, and the home page's calculator |
| `MCProtocol`, `MCOffMainnet` | constants for TLC |

`deposit-stx` and `deposit-sbtc` (and the two redemptions) are the same code but
for the asset and the token and share the operators `Deposit` and `Redeem`;
`DepositSbtc` adds the approved-token checks. `owner-vaults` and
`holder-vaults` with their counters are sequences. A risk configuration is a
record with the owner's parameters under `params`, so that a replacement of the
parameters and the nonce and height it must keep are told apart. Names,
labels, descriptions and events are left out; a vault's name is kept as far as
`ERR-INVALID-NAME` depends on it. Errors are guards. An arithmetic overflow
aborts a Clarity call as an error does, so no action has a width. Vault id 0 and
strategy ids without an entry fail in the code as `Absent` entries do here;
strategy 0 (IDLE) is an id without an entry.

### The agent

| module | models |
|---|---|
| `DecisionEngine` | `analyze`, the two allocation views and `buildIntent`, as functions of a snapshot; what the engine proposes against what the contracts accept |
| `EcosystemAnalysis` | the analysis of ecosystem protocols for a pool, as functions of a snapshot and of what two services answered; its suggestions against the guard's rules |
| `DecisionPipeline` | `runRecommendation`, `executeValidatedIntent`, the chain reads, the gate, submission and monitoring, one step per await, against the moving chain |
| `RecommendationPage` | what the page of recommendations says of a record |
| `PipelineProperties` | what decision records, and the page that reads them, promise |
| `DecisionLog`, `AtomicLog` | the decision file, read, truncated and rewritten by two processes that may end in between; the log it should be |
| `MCAdvice`, `MCPipeline` | constants for TLC |

A request of the agent is a job that stands at the call it awaits (`job[r].at`);
each read-only call is a step that stores its value in the snapshot being filled
(`seen`), and the chain (`Next` of the protocol) moves between any two. What runs
without an await is one step: analysis, intent and the writing of the record are
`Propose`. `executeValidatedIntent` runs the same reads a second time (`again`).
A broadcast and its reply are two steps, so that the reply may be lost. A
transaction is mined by the protocol's own `SubmitRebalanceIntent` with the
executor's address, or comes to nothing. `supports-asset` is immutable and read
with `get-vault`. The monitor of a transaction outlives its request. Any call may
throw, a monitor's promise may be rejected, and the process may end at any
moment (`ServiceStops`). The language model's narration is an await whose result
no step uses; it is the time that passes before `Propose` or `Recommend`.

`DecisionLog` keeps of a record its id and status, and of a run of the pipeline
when it writes: a write is a read of the whole file, its truncation and its
writing, in three steps, because `readFileSync` and `writeFileSync` of two
processes interleave there. `AtomicLog` is the log without any of this.

### The web app

| module | models |
|---|---|
| `WebSession` | every read a hook or page makes, as a function of the protocol's state; account, numbered refreshes of an overview, a submission from signature to its outcome, what may go wrong with each |
| `VaultPages` | the deposit and the redemption page: fields, checks, preview, what is sent |
| `OwnerPages` | settings, pause, and the creation of a vault step by step |
| `Treasuries` | the list of treasuries: unnumbered loads, read by read; what the dashboard makes of it: cards, filters, attention, claims, checklist |
| `WebApp` | the composition of these with the protocol and with other users |
| `WebProperties`, `MCWebApp` | what the app promises; the sessions explored |
| `MarketCaches` | the price route and the ecosystem route with their caches |
| `StrategyExplorer` | the strategies page, the drawer, the analysis of one protocol |
| `ChatStream` | a message, its stream from model to browser, every way it ends |
| `ActivityFeed` | the feed of the dashboard and of a vault, read in pages |
| `RecommendationPanel` | the page that asks for an analysis and a recommendation, its history, the core it waits for |
| `ServiceProperties`, `MCServices` | these services and the decision log side by side; what they promise |

In `WebApp` the protocol's own `Next` moves the chain under the pages, and a
page's transaction is the protocol's own action called with the form's fields. Each
read of a refresh is a step of its own where the code awaits it alone, and one
step where it is one call or one `Promise.all` whose parts nothing tells apart.
Amounts are numbers: parsing and formatting are left out but where a page decides
by them.

The services share no state with one another, so `ServiceProperties` explores
them one at a time in one run: `service` says which. `history` is the decision
log while pages list it.

### Proofs

| module | about |
|---|---|
| `NumberLemmas` | `\div`, order and least elements of naturals, sums over a finite set |
| `ProtocolProofs` | the protocol: types, prices, nonces, mandates, consent, the gate |
| `BooksProofs` | its books: sums, indexes, claims, wealth; that it implements `TreasuryLedger`; that redemptions and passed intents go through |
| `PricingProofs` | one pool at any price, the calculator |
| `AdviceProofs` | the decision engine and the analysis of ecosystem protocols beside the contracts, the page of recommendations |
| `PipelineProofs` | the pipeline's requests beside a moving chain, and that each goes forward |
| `ServiceProofs` | the decision file under two processes, and that it implements `AtomicLog`; the chat, the recommendation panel, the caches and the strategies page, the feed |
| `WebProofs` | the web app beside the chain: who pays, what is shown, what outcomes say, the list of treasuries, when buttons are live |

Definitions commented `Fault:` are deliberate mistakes. No specification uses
them; each shows that a property notices the mistake.

## 3. Model checking

`MCProtocol` and the other MC modules give the constants their values. A run of
the protocol chooses in `Callers` who calls which group of functions, so that it
explores the interleavings its question is about.

| run | question | instance | states |
|---|---|---|---|
| `Accounting` | do the contracts implement a ledger of claims, is a claim ever diluted, is idle STX redeemable | 2 wallets of 2 units, 1 vault, 1 strategy, mainnet; amounts 1 and 2, first deposit 2; pauses, deployments, donations | 58 000 |
| `OffMainnet` | do all books agree on which vaults there are, does custody cover all pools, does a step move value between wallets, does the gate stay closed | 2 vaults of both assets, 2 wallets, in two casts: holders who donate, or an admin with a nominee who creates, registers, arms and submits, with valid and invalid inputs | 322 000 |
| `Intents` | replay, mandate of deployments, consent to executors, a home for what is allocated | 2 owners; one wallet makes all intents, for its own vault or as an executor for the other's, so a deployment shows whose it is; amounts 1 and 3, two caps, good and bad slippage, two nonces, past and future deadline, two configurations, registration and revocation, autonomous mode, pauses, 3 blocks | 574 000 |
| `Pricing` | rounding; does the calculator work out what the contract does | every pool of up to 14 units and shares | 1 400 |
| `Advice` | do proposals pass, are they as large as the limits allow, are they shown as executed; does whatever passes execute; does the analysis of ecosystem protocols suggest what the rules allow | pools of up to 5 units, exposure limits of 90 %, 33.33 % and none, reserves of 25 % and none, caps of 50 % and 90 %, two strategies, intents of any size; two sets of answers about the listed protocols, some missing or none at all | 182 000 |
| `Pipeline` | do records claim only what the chain did, does the page read them right, do settled ones stay, does every request and monitor end | one execution request, for the vault, for an asset it does not take or for a vault that is not there; alice changes executor, gate, strategy, mode and pool, 3 blocks | 230 000 |
| `PipelineRace` | two requests from one snapshot; a host set to testnet beside an armed mainnet | three execution requests, two on a mainnet host, one on a testnet host, 2 blocks | 779 000 |
| `WebApp` | are buttons live exactly when the contracts accept, are outcomes those previewed, who pays, is what is shown the newest, does everything awaited end | five sessions (deposit, redeem, settings, create, dashboard) with an account switch, failed and overtaking reads, another signer, dropped and late transactions; alice also governs, pauses, deposits, redeems | 289 000 |
| `Services` | the decision log, the caches, the chat, the feed, the recommendation panel, the strategies page | bounds below | 906 000 |

What the merged properties are made of is said at each part; a merged property
is a conjunction of named parts, and its comment says what they add up to.

`Services`: a log of two records, three runs of the pipeline and one crash, two
hosts; two clients of the price, a clock of six ticks against ages of 1 and 3;
a listing of one protocol that is deployed or not; a chat of two messages of up to
two pieces, with and without a key; a feed of up to three events in two vaults
with one viewer switch, pages of one event; two analyses with up to three faults;
two listings and two drawers, five kinds of reply of the model.

Deadlock checking is on but for the runs whose systems come to rest:
`PipelineRace` (all requests are answered and the last block is mined), `WebApp`
(the session is over), `Services` (every service is at its bound) and the runs
that show a disagreement. The pipeline's runs and the web app's begin after the
protocol was set up (`PreparedChain`, `WebChain`: states the protocol reaches by
deployment, registration, creation, deposit and, in `WebChain`, one deployment in
its first block), so that their states are spent on what they are about. Both are
among the states the protocol's own proofs speak of: `WebInit` asks for
`SoundChain`, all books of the contracts together.

Why the bounds are enough: a pool's arithmetic with price one has no rounding,
so two or three units reach every comparison of balances (all, some, none of the
idle funds; under and over a limit); two wallets give a holder and another; two
vaults give a pool and another that shares its custody; three blocks give a
cooldown that is on, just over and over, a deadline that has passed and one that
has not; two nonces give a skipped, a used and a new one; two requests of one
host and one of another are every race there is about one nonce, and a request
meets every order of its own awaits with the chain's steps. Rounding, which the
protocol never shows, is explored by `Pricing` from arbitrary pools. Two loads
overtake each other as any number does, since a later load concerns a former one
only through what is shown; two processes are all there are; a file of two records
drops one when a third comes; ages that differ by more than a fetch give values
that are fresh, marked and too old.

### Fairness

`StxAlwaysRedeemable`, `PassedIntentsExecute` and `ButtonsExact` use `ENABLED`:
they say that a call would succeed now, and are proved guard by guard below. The
contracts need no fairness: they act only when called, and nothing obliges anyone to call.

- `PipelineFairness`: a request that waits for a call goes on or fails
  (`Progress`), since every `fetch` returns or rejects and the code between two
  awaits does not block; the monitor's loop is bounded by its time limit
  (`MonitorReturns`). Nothing is assumed of the chain, of miners or of the node.
  `RequestsEnd` holds under it.
- `WebFairness`: a read that was begun is answered or throws; the interval of the
  dashboard fires while it is shown; the poll loop of a sent transaction sees it
  or gives up at its limit; the continuation of a page runs. The user, the
  wallet, other users and the miners owe nothing. Under it `SubmissionsSettle` and
  `ListCatchesUp` hold.
- `ChatFairness`: the route fails, or the context is read; the model ends or
  fails (the host ends the function at `maxDuration`); the browser reads what has
  arrived. Under it `ChatFrees` holds.

### Refinement

`TreasuryIsLedger` says that the contracts implement `TreasuryLedger`: a wallet's
purse is its balances of the asset's tokens, its claim the sum over all vaults of
what its shares would pay, idle the sum of the idle balances. Prices, roundings,
pauses, rules and roles have no place on the ledger: a deposit, a redemption, a
deployment and a donation move whole units there, every other call stutters.

`LogIsAtomic` says that `DecisionLog`, seen through `LogNow`, implements
`AtomicLog`: an emptied file that is being filled counts as what is being written.
It is stated as `INSTANCE AtomicLog WITH log <- LogNow, ...` and holds up to the
first step in which the second process enters the file or one ends in it
(`disturbed`): the code has no lock, and what is true from there on is
`LogHonest`.

### Where the code does not do what is said of it

| run | statement | what happens |
|---|---|---|
| `SbtcRedemption` | "NOTHING stops redemption of idle funds" (`sovereignty-vault-v7.clar:48`) | sBTC is paid only in the token approved now; after another token is approved, deposits in the first can not be redeemed |
| `OverviewOfViewer` | "Loads the authoritative on-chain overview of one vault for the connected viewer" (`useVaultOverview.ts:15`) | the continuation of a submission refreshes for the account that sent it, and after a switch of account its answer replaces the new account's |
| `FiguresVerified` | "The only numeric facts asserted as "current" are ones this function actually just verified" (`strategyAnalysis.ts:87`) | the model's whole reply is spread over what was read, so a field `tvlUsd` in it replaces DefiLlama's figure and is shown under "live, via DefiLlama" |

Met while modelling and not stated as runs:

Contracts and pipeline

- "`protocol-min-liquidity-bps` floor enforced in every `validate-and-record-intent`
  call" (`docs/security-model.md:33`): the floor is compared with the vault's
  parameters when they are set (`risk-guard-v7.clar:302`); a vault configured
  earlier deploys below a floor raised later.
- The exposure cap, "no single strategy may hold more than this share of the
  vault's pool" (`risk-guard-v7.clar:34`), is checked when funds are deployed; a
  later redemption shrinks the pool under the strategy.
- A lost reply to a broadcast leaves NOT_SUBMITTED, "not executed for a
  non-testnet reason" (`types.ts:134`), on a transaction that may then be mined
  (`pipeline.ts:187`). The same catch sets FAILED (`types.ts:107`: "a submitted
  transaction failed on-chain") when the gate could not be read and nothing was
  submitted.
- "the identity that WOULD submit" (`protocolState.ts:148`): with an executor that
  is not registered the evaluation is the owner's, while the submission is the
  executor's (`pipeline.ts:100`), which the contracts refuse. The registry read
  before it is in no `try`: when it throws, the record stays VALIDATING for good
  (`types.ts:103`).
- Status EXPIRED is declared in `types.ts` and in `docs/vault-architecture.md`;
  no code assigns it. The server computes expiry for display.

Public data, analysis and chat

- Kept ecosystem values are flagged (`ecosystem/route.ts:11-13`): the existence
  of a contract is, a kept value locked is not; the page shows no such mark. The
  price's `stale` is shown by the live console and not by the ticker.
- The agent's own `verifyProtocolContract` takes any status but 200 for "not
  found" (`ecosystemProtocols.ts:246`); the web server's check does not.
- The summary of a pool's analysis says "none could be verified live right now"
  also when every check answered that the contract does not exist.
- The answer awaited by a closed drawer arrives in whichever drawer is open then
  (`StrategyAnalysisDrawer.tsx:32`). Under "On-chain status" an unreachable check
  reads "Not found" (`:58`) beside a badge that reads "Checking..." (`:80`), and
  "Everything above is unaffected" (`:145`) stands below a value locked that prefers
  the analysis's figure (`:71`).
- A reply whose line is cut stays pending in the chat (`ChatWidget.tsx:62`); the
  next message can be written.

Pages

- When the log grows between two pages of the feed, a row may be shown twice; a
  feed that failed to load reads "No activity yet"; the former account's feed
  stays until the new one arrives; the first reading of the history of decisions
  may end after a later one and replace it.
- A record is logged although its recommendation is answered with an error, so
  the panel says that the run failed and the history has its record.
- `RecommendationView` says UNCHANGED of a vault from allocations alone: deposits
  and redemptions since then, and an emptied pool, do not count; a strategy that
  was only activated or deactivated does. Its checklist says "Your assets remain"
  of a SUBMITTED record that was mined, or whose reply was lost.
- The home page's calculator ignores the minimum first deposit.
- The overview page says that no strategy is registered, "100% idle", when the
  only strategy with an allocation was deactivated.
- `PortfolioSection` keeps a filter that the next account does not have, and says
  "No treasuries yet" until its first load ends; the checklist's deposit link leads
  to the lowest vault even when that is closed or paused.
- `useMyVaults` may show an owner as holder when the vault was created between
  its two reads; a vault created while the wallet signs with another account
  belongs to the signer.

## 4. Proofs

Every theorem below holds for all values of the constants that meet the named
ASSUMEs of the modules: any finite or infinite sets of strategies and their
contracts, finite sets of wallets and of sBTC tokens where holdings are summed
(`FiniteAssumption`), any inputs of the types Clarity gives them, either chain. The
accounts of wallets, strategies and the vault are different, and values that stand
for "none" (`Absent`, `NotChecked`, `Unset`, `None`, `Void`, `NotLoaded`, ...) are
none of the values they stand beside. Some vault name is not empty. No assumption
limits a size.

### The protocol

`ProtocolProofs`:

- `TypeCorrect`, `Spec => []TypeOK`: above all, no balance goes below zero. It is
  not inductive: a redemption subtracts its payout from the total and its shares
  from the supply. The invariant is `PoolInv`: `TypeOK`, `PoolParity`
  (total = supply) and `IdleWithinTotal`. Parity makes the payout equal to the
  shares (`PriceOfOne`, from `ExactQuotient`: the floor of a multiple of the
  divisor is exact), the idle check bounds the payout by the idle balance, and
  `IdleWithinTotal` bounds that by the total.
- `Parity`, `Spec => []PoolParity`, from the same invariant.
- `NoReplay`, `Spec => NonceDiscipline`: funds move in exactly the steps that
  raise a vault's nonce. `OnlyEngineDeploys` says what every other step leaves
  alone (in particular what replacing a risk configuration keeps),
  `EngineStepUsesNonce` what the engine's step does.
- `MandateKept`, `Spec => DeploymentsWithinMandate`: the check in whole basis
  points bounds the exact ratios (`Floor`, `Scale`).
- `DeployersMay`: for every choice of `Callers`, a step that moves a vault's funds
  is a `SubmitRebalanceIntent` by its owner, or by a registered executor under
  autonomous mode. `ConsentInForce`, `Spec => DeploymentsNeedConsent`, follows: it
  speaks of the effect alone, because a step does not record who made it. With
  `Callers["engine"] = {p}` it says what `p` alone can bring about: nothing before
  both consents or after either is withdrawn, unless `p` is the owner.
- `GateStaysClosed`, `Spec => []GateClosedOffMainnet`: the gate is closed because
  only one function opens it, which asks for the chain, and nothing is deployed
  because the gate is closed.
- `VaultsHaveConfigs`, `Spec => []ConfigMirrorsVaults`, and `AllocatedHasAHome`,
  `Spec => []AllocationsHaveAHome`: an entry is only ever written at the next id
  (`StrategiesDense`), so none is replaced (`VaultsKept`, `StrategiesKept`), and what
  the engine relied on when it deployed stays true of the allocation.

`BooksProofs`, where sums come in. A sum over a set is what the folds of the
community modules compute; `NumberLemmas` proves once, by induction over finite
sets, that such a sum exists, is a natural (`SumNat`), and changes by what one of
its terms changes by (`SumChange`). Every step that moves units is one of four
(`Deposited`, `Redeemed`, `Deployed`, `Given`); `DepositMoves` to `GiftMoves` say
what each does to every sum, and all other steps leave them (`OtherStepMoves`).

- `CustodyKept`, `Spec => []CustodyBooks`, and `AllocationsKept`,
  `Spec => []AllocationBooks`. The invariant is `SumsInv`, inductive beside
  `PoolInv`: total = idle + allocations, shares add up to the supply, custody covers
  the idle balances of all pools.
- `NoDilution`, `Spec => ClaimsUndiluted`: by parity, and a supply of zero being
  nobody's shares, a claim is the shares (`SharesAreClaims`).
- `TreasuryImplementsLedger`, `Spec => TreasuryIsLedger`: the refinement; each of
  the four steps is its step of the ledger, the rest stutter.
- `WealthKept`, `Spec => WealthConserved`: purse and claim together change only by
  a wallet's own gift or transfer; what a deposit takes it claims.
- `VaultsInBooks`, `Spec => []VaultBooks`: the indexes of owners and holders, with
  each id once, shares only of vaults that take the asset (`SharesHaveAVault`), lists
  of holders only of vaults that exist (`ListedVaultsExist`).
- `ChainsAreSound`, `Spec => []SoundChain`: all these books at once, which is what
  the web app's proofs ask of the chain they begin with.
- `NothingStopsRedemption`: in every reachable state all guards of a redemption that
  idle funds cover are met, whoever paused what: of STX always, of sBTC in a token
  that is the only one there is or of which the contract owns enough. `RedemptionIs`:
  with these guards the redemption is a step, without them it is none. The sBTC half
  is what the run `SbtcRedemption` leaves true: the lack of the token approved now
  is all that can stop one.
- `PassedMeansExecutable`: an intent in either asset that passes the evaluation finds
  no check of the vault in its way; `ReadySubmits` makes the step. With the former
  theorem these are `StxAlwaysRedeemable` and `PassedIntentsExecute` without the
  operator `ENABLED`.

`PricingProofs` (a pool of any size and any price):

- `PriceMonotone`: no step lowers `total / supply`, by cross-multiplication;
- `NoOrphans`: shares exactly when assets, from the code's `ERR-VAULT-INSOLVENT`,
  and a payout that takes all assets only for all shares;
- `RoundingSafe`: depositing and redeeming at once, or splitting a redemption,
  never gains;
- `CalculatorAgrees`: the home page's calculator accepts what the contract
  accepts, mints the same, and promises no share of the pool that the claim does
  not back.

### The agent

`AdviceProofs` (every state the protocol reaches, pools, limits and caps of any
size); its theorems need of the reachable states only type correctness, the last
one also `SumsInv`:

- `ProposalsAlwaysPass`, `Spec => []ProposalsPass`: what the engine proposes from
  an accurate snapshot satisfies every numeric rule of `check-intent`. The engine
  rounds the reserve up and the two caps down; the guard rounds the resulting
  shares down. The proof carries the exact inequality between them (`ExactShare`).
  The destination is a `CHOOSE` of the least active strategy of the asset; that it
  exists is `LeastElement`.
- `ProposalsAlwaysLargest`, `Spec => []ProposalsAreLargest`: no larger amount
  is within the limits, rounding included.
- `EcosystemAdviceTruthful`, `Spec => []EcosystemAdviceHonest`, in four parts: sizes
  respect the rules and the first protocol's is the engine's (`SuggestionsFollow`); a
  rank is the number of candidates ahead in a strict order (`AheadOrders`), so
  exactly one stands first, and losing an answer only adds to those ahead
  (`RankGrows`); blockers (`BlockersAreTrue`); the summary.
- `PreviewsAlwaysComeTrue`, `Spec => PreviewsComeTrue`: a deployment moves one
  allocation by its amount (`AllocationMoves`), so what was previewed is what is
  read afterwards; slices rounded each by itself still fit the bar (`SlicesFit`).

What a proof attempt showed: "Reasons no allocation could happen right now
regardless of strategy" (`poolStrategyAnalysis.ts`) is not so to the last unit. The
analysis computes the largest amount, rounded down; `check-intent` compares
the resulting share, rounded down. With a pool of 3 units and a maximum of 3333
basis points the analysis finds no room, and the contracts pass an intent of
one unit, 33.333 %. `BlockersTrue` now says how far that goes (`PassesByRounding`:
above the owner's maximum by less than one basis point, and never when another
blocker holds), `MCAdvice` has the limits under which it happens, and
the theorem covers all others.

`PipelineProofs` (any number of requests, of either kind, on hosts of either
network, every order of their steps, of the monitors and of the chain):

- the invariant says of each request by itself, for the await it stands at, what
  it has read (`Knows`) and what its record, its transaction and its monitor can
  be there (`Agrees`, `Outcome`); and of all of them that a nonce that was
  executed is not above the vault's last (`NoncesUsed`). Each step of a request
  keeps its own part, and touches no other's (`MoveKeepsOthers`).
- `RecordsTruthful`, `PipelineSpec => []RecordsMatchChain`: with lost replies,
  calls that throw, and stops of the process;
- `VerdictsFinal`, `PipelineSpec => SettledStaysSettled`: who writes a record
  stands, by the invariant, at an await where it is not settled;
- `TestnetSilent`, `PipelineSpec => []TestnetServiceNeverSubmits`;
- `ExecutedOnce`, `PipelineSpec => []OneExecutionPerNonce`: a transaction that
  succeeds uses its nonce (`SubmitUsesNonce`, the lemma under `NoReplay`), so a
  second one with that nonce can not.

- `RequestsGoForward`, `PipelineSpec => []CallsBounded /\ [][GoesForward]_pipelineVars`,
  is the safety half of `RequestsEnd`. An execution reads the pool twice and asks for
  strategy after strategy in each pass, so no counter of the code falls throughout.
  The measure `CallsLeft` orders the stages of a request, and within one the strategy
  it asks for (`Nearer`): every step of a request lowers it, no step of others, of
  monitors or of the chain raises it, and a monitor begins and ends once. Fairness
  is left to say only that each call settles.

They rest on the protocol's own `PoolInv` and, for the intents that are sent being
intents, on the decision engine's bounds (`AmountWithin`).

### The services

`ServiceProofs`, each part for any bounds and any order of its steps:

- The decision log. `LogInv` says of the file, and of every rewrite under way, that
  its records are in order and that none is further than its run (`Sound`); that is
  kept because no run goes back (`Advance`). While nobody has disturbed the log it
  adds (`Quiet`) that one process at most is in the file and that what it is about to
  write follows from what is there (`Follows`). `LogTruthful`,
  `ServicesSpec => []LogHonest`, and `StoreImplementsLog`, `ServicesSpec =>
  LogIsAtomic`: emptying the file is the step that takes effect, every other one
  stutters.
- The chat. `ChatInv`: what a reply has and what the wire still carries are
  together the pieces the model produced, in order (`Carries`), or a failure was
  heard or is on the wire. `ChatTruthful`, `ServicesSpec => []ChatHonest`.
- The recommendation panel. `PanelInv`: which requests are under way tells what the
  page has of the run (`PanelRuns`), the record shown is in the log and in every
  history read since (`RecordKept`), and who waits for the core waits while it loads.
  `PanelTruthful`, `ServicesSpec => []PanelHonest`.
- The market data. `MarketInv`: a cached price, an answer and a waiting request
  are as old as the clock allows (`PriceInv`); a check that found no contract was
  made when there was none (`FoundInv`); the cards are the listing, arranged
  (`ListInv`); unless an answer arrived in another protocol's drawer, the drawer is
  that of the last inquiry (`DrawerInv`). `MarketTruthful`,
  `ServicesSpec => []MarketHonest`.
- The feed. `FeedInv` says of a load that reads pages by offset while the log
  grows that it has every event it wants below what was there when it began and
  above what its pages reached (`ReadDownTo`), newest first (`ReadInOrder`): a growing
  log shifts rows into later pages, which repeats rows and skips none. That a
  cut of the list shows the newest is counting (`CutShows`, `CutStaysFull`).
  `FeedTruthful`, `ServicesSpec => []FeedHonest`.

Sorted lists and filters are written in the services' modules as the arrangement that has
the property (`CHOOSE`), not with the recursive `SortSeq` and `SelectSeq`, which the
provers can not unfold; `ArrangementExists` proves that there is one.

### The web app

`WebProofs` is about `AnySession`: a session of any account on any page that
begins over any `SoundChain`, with any number of refreshes, loads, transactions and
incidents, beside everything other users may do. `MCWebApp` explores five such
sessions over one such chain, opened; the proofs also cover sessions whose first
refresh is still under way (`Arriving`).

- `SessionSound`, `AnySession => [](ChainInv /\ SessionInv)`. Whatever a page submits
  is a call that the contracts' own proofs allow any wallet (`CallsAreAny`), so
  their invariants hold under the pages; what is left is that forms, refreshes and
  transactions are of their kinds, and that the creation page submits creations
  only.
- `ViewersPay`, `AnySession => OnlyViewerPays`: the signer may be another account of
  the wallet, and then the post-conditions abort the deposit.
- `OverviewsAdvance`, `AnySession => OverviewAdvances`. `FreshInv`: the newest
  refresh, the only one that the sequence number lets replace the overview, began
  after everything the overview shows and after every confirmation, and once it has
  ended the overview is its own.
- `OutcomesAreTrue`, `AnySession => []OutcomesTrue`. A transaction only goes on
  (`Progress`): what was executed stays executed and what was decided stays decided.
  `OutcomeInv`: at a price of one a preview, whenever it was read, is its amount, and
  what was executed gave exactly that (`PreviewsTrue`, `ExecutedGot`); the vault created is
  the one reviewed (`CreationsTrue`); an outcome shown is that of a confirmed
  transaction (`ShownTrue`), so by `FreshInv` the overview beside it was read after it.
- `TreasuriesAreComplete`, `AnySession => []TreasuriesComplete`. The two reads of a
  load see different chains. `TreasuryInv` places each between what the indexes
  were when the load began and what they are now (`OwnedOf`, `HeldOf`), which is enough
  because indexes only grow (`IndexesGrow`). What the dashboard sums of the cards is
  the sum over all vaults because the others have no shares (`SumOfPart`,
  `SharesHaveAVault`).
- `ButtonsAreGuarded`, `AnySession => []ButtonsGuarded`: `ButtonsExact` with what each
  call asks in the place of `ENABLED`. `CallIs` makes the exchange: the call of a
  page's transaction is a step exactly when `CallReady` holds of the state before, and
  the step writes `CallWrites`. On current data every button of the deposit,
  redemption, settings and creation pages is then live exactly when the contracts'
  assertions hold, and the dashboard's cards lead to what they would do.
  `ViewInv`: the assets a vault takes are chosen once, so that whatever was read of
  them, in whatever order, the form and the overview ask of the same ones;
  `CreationInv`: no way through the steps of the creation form, back and forth, leads
  past the acknowledgement of autonomous mode. Parity gives the previews
  (`DepositIs`), and shares never above the supply keep the percentages in bounds
  (`PercentGrows`, `PercentsAddUp`).

What the proofs showed: the redemption page bounds a redemption of sBTC by the idle
balance only. After the admin approved another token and then the first again, the
contract may own less of it than is idle, and a live button leads to a call that
fails; the property now asks that the contract owns what is idle
(`RedeemButtonExact`), which every session of `WebApp` meets. Also, that a card's
vault exists does not follow from the contracts' books as they stood, since a
holder's list was not among them (`ListedVaultsExist` is new in `VaultBooks`,
inductive because a deposit is into an existing vault and none disappears).
`ClaimShown` was compared vault by vault with the positions it was made of; it is
now the sum a reader sees, compared with the sum over all vaults there are.

### Only model-checked

- `ENABLED`: `StxAlwaysRedeemable`, `PassedIntentsExecute` and `ButtonsExact` as they
  are stated. Guard by guard they are `NothingStopsRedemption`,
  `PassedMeansExecutable` and `ButtonsAreGuarded`; that a call whose guards hold is
  enabled, which is what its writes being values comes to, TLC says.
- Liveness under fairness: `RequestsEnd` (its safety half is `RequestsGoForward`),
  `ChatFrees`, `SubmissionsSettle`, `ListCatchesUp`.

## 5. Plan

Done: the contracts and their composition; pricing; the decision engine and the
analysis of ecosystem protocols beside them; the pipeline from await to await; the
decision log and what it refines; the web app beside the chain; the services; the
ledger the contracts refine; the theorems above, which state every property of the
runs but those under *Only model-checked*, and those guard by guard or in their
safety half where they have one. Left: measures like `CallsLeft` for the chat and
the waits of the web app; lemmas that make the longest proofs shorter.

## 6. Not modelled

- Narration: a model's wording replaces three texts of a recommendation field by
  field; nothing reads them back.
- Deployment and acceptance scripts, which run once in sequence, and the
  configuration the servers read from their environment.
- Routes that only pass a read on, and the agent server's own ecosystem routes,
  which ask without a cache what the web server asks with one.
- Wording, layout, icons, the formatting and parsing of amounts, search and
  category filters of the strategies page.
- Withdrawal from strategies, which the trait declares and no contract calls;
  transaction fees but for the reserve the deposit page keeps.
