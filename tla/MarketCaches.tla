---------------------------- MODULE MarketCaches ----------------------------
(***************************************************************************)
(* The two caches of public data in the web server: the STX price          *)
(* (api/stx-price/route.ts) and the ecosystem protocols with their         *)
(* contracts and locked value (api/ecosystem/route.ts).  Either is filled  *)
(* by one fetch at a time, which every request that finds it under way     *)
(* waits for.                                                              *)
(***************************************************************************)
EXTENDS Integers, FiniteSetsExt, Functions

CONSTANTS
  Clients,        \* requests under way at a time
  Protocols,      \* ECOSYSTEM_PROTOCOLS
  Fresh,          \* FRESH_MS of either route
  StaleMax,       \* STALE_MAX_MS
  FetchTimeout,   \* TIMEOUT_MS of either route
  MaxClock,       \* bound: the last moment
  Providers,      \* Providers[p]: how PROVIDERS[p] reports the change of a day
  Markets,        \* what the market may be: the last price and the one a day before
  None, Asked, Failed

ASSUME MarketAssumption ==
  /\ {Fresh, StaleMax, FetchTimeout, MaxClock} \subseteq Nat /\ Fresh > 0
  /\ None \notin Nat
  /\ Range(Providers) \subseteq {"percent", "fraction", "open"}
  /\ Markets \subseteq [last: Int, open: Int]

VARIABLES
  clock,
  price,       \* the price route's cache, or None
  priceFetch,  \* when the fetch under way began, or None
  asked,       \* asked[c]: the request of c that waits for a fetch, or None
  quoted,      \* quoted[c]: the last answer of the price route to c, or None
  entries,     \* entries[p]: the ecosystem route's cache of protocol p, or None
  checks,      \* checks[p]: how far the refresh under way is with p, or None
  deployed,    \* deployed[p]: when p's contract was deployed, or None
  listed       \* the last answer of the ecosystem route, or None

priceVars == <<price, priceFetch, quoted>>
ecosystemVars == <<entries, checks, deployed, listed>>
marketVars == <<clock, asked, priceVars, ecosystemVars>>

MarketInit ==
  /\ clock = 1
  /\ price = None /\ priceFetch = None
  /\ asked = [c \in Clients |-> None]
  /\ quoted = [c \in Clients |-> None] /\ listed = None
  /\ entries = [p \in Protocols |-> None] /\ checks = [p \in Protocols |-> None]
  /\ deployed \in [Protocols -> {None, 0}]

-----------------------------------------------------------------------------
(* The price. *)

(* What provider p says of market m; a change is a ratio, as nothing is    *)
(* rounded on its way.                                                     *)
Reported(p, m) ==
  LET by == m.last - m.open IN
  [last |-> m.last,
   said |-> CASE Providers[p] = "percent" -> [num |-> by * 100, den |-> m.open]
              [] Providers[p] = "fraction" -> [num |-> by, den |-> m.open]
              [] OTHER -> [num |-> m.open, den |-> 1]]

(* Fault: a fraction is taken for a percentage. *)
QuoteAsSaid(p, r) == [usd |-> r.last, change |-> r.said]

(* A provider's answer in percent: as it is, a hundred times it, or of the *)
(* opening price, which is no number when that is 0.                       *)
QuoteOf(p, r) ==
  [usd |-> r.last,
   change |-> CASE Providers[p] = "percent" -> r.said
                [] Providers[p] = "fraction" -> [r.said EXCEPT !.num = @ * 100]
                [] OTHER -> [num |-> (r.last - r.said.num) * 100, den |-> Max({0, r.said.num})]]

(* A denominator of 0 makes no finite number. *)
Valid(q) ==
  /\ q.usd > 0 /\ q.usd < 1000
  /\ q.change.den > 0
  /\ q.change.num < 100 * q.change.den /\ q.change.num > -100 * q.change.den

Quoted(c, stale) ==
  [usd |-> c.quote.usd, change |-> c.quote.change, at |-> c.at, stale |-> stale, shown |-> clock]

(* GET: a fresh enough reading is the answer at once; otherwise the        *)
(* request waits for the fetch, which it begins when there is none.        *)
GetPrice(c) ==
  /\ asked[c] = None
  /\ IF price # None /\ clock - price.at < Fresh
     THEN /\ quoted' = [quoted EXCEPT ![c] = Quoted(price, FALSE)]
          /\ UNCHANGED <<asked, priceFetch>>
     ELSE /\ asked' = [asked EXCEPT ![c] = [route |-> "price", at |-> clock]]
          /\ priceFetch' = IF priceFetch = None THEN clock ELSE priceFetch
          /\ UNCHANGED quoted
  /\ UNCHANGED <<clock, price, ecosystemVars>>

Waiting(route) == {c \in Clients : asked[c] # None /\ asked[c].route = route}

Answer(route) == asked' = [c \in Clients |-> IF c \in Waiting(route) THEN None ELSE asked[c]]

SaneQuotes ==
  {q \in {QuoteOf(p, Reported(p, m)) : p \in DOMAIN Providers, m \in Markets} : Valid(q)}

(* The first provider with a sane quote wins. *)
PriceArrives ==
  /\ priceFetch # None
  /\ \E q \in SaneQuotes :
       LET read == [quote |-> q, at |-> clock] IN
       /\ price' = read
       /\ quoted' = [c \in Clients |-> IF c \in Waiting("price") THEN Quoted(read, FALSE)
                                                                 ELSE quoted[c]]
  /\ Answer("price") /\ priceFetch' = None
  /\ UNCHANGED <<clock, ecosystemVars>>

(* Fault: the age of the last good value is not looked at. *)
AnyReading(c) == price # None

(* An older reading may stand in; its age is taken when the request came. *)
StandsIn(c) == price # None /\ asked[c].at - price.at < StaleMax

(* No provider gave a sane quote in time; 503 is no answer. *)
PriceFails ==
  /\ priceFetch # None
  /\ quoted' = [c \in Clients |->
       IF c \notin Waiting("price") THEN quoted[c]
       ELSE IF StandsIn(c) THEN Quoted(price, TRUE) ELSE None]
  /\ Answer("price") /\ priceFetch' = None
  /\ UNCHANGED <<clock, price, ecosystemVars>>

-----------------------------------------------------------------------------
(* The ecosystem. *)

(* The moment 0 stands for "never", long past.  Of the locked value only   *)
(* whether there is a reading counts.                                      *)
NoEntry == [exists |-> None, verifiedAt |-> 0, tvl |-> None, tvlAt |-> 0]

CacheOf(p) == IF entries[p] = None THEN NoEntry ELSE entries[p]

NeedsRefresh(p) ==
  \/ 0 \in {CacheOf(p).verifiedAt, CacheOf(p).tvlAt}
  \/ clock - Min({CacheOf(p).verifiedAt, CacheOf(p).tvlAt}) > Fresh

(* What the route answers: a check that failed and was never good is       *)
(* unreachable, one that was good is marked when that is too long ago.     *)
Listed ==
  [p \in Protocols |->
     LET e == CacheOf(p) IN
     [exists |-> e.exists = TRUE, unreachable |-> e.exists = None, tvl |-> e.tvl, shown |-> clock,
      stale |-> e.exists # None /\ clock - e.verifiedAt >= 2 * Fresh]]

(* All checks have ended; their waiters go on before anything else.        *)
AnswersDue == Waiting("ecosystem") # {} /\ \A p \in Protocols : checks[p] = None

NewCheck == [at |-> clock, exists |-> Asked, tvl |-> Asked]

GetEcosystem(c) ==
  /\ asked[c] = None /\ ~AnswersDue
  /\ IF \E p \in Protocols : NeedsRefresh(p)
     THEN /\ asked' = [asked EXCEPT ![c] = [route |-> "ecosystem", at |-> clock]]
          /\ checks' = IF \E p \in Protocols : checks[p] # None THEN checks
                       ELSE [p \in Protocols |-> NewCheck]
          /\ UNCHANGED listed
     ELSE listed' = Listed /\ UNCHANGED <<asked, checks>>
  /\ UNCHANGED <<clock, priceVars, entries, deployed>>

(* Fault: whatever is not a deployed contract is none. *)
VerifyEagerly(p) == {deployed[p] # None, FALSE}

(* verifyContract: a deployed contract, a 404, or no definite answer of    *)
(* either host.                                                            *)
VerifyContract(p) == {deployed[p] # None, Failed}

ContractChecked(p) ==
  /\ checks[p] # None /\ checks[p].exists = Asked
  /\ \E v \in VerifyContract(p) : checks' = [checks EXCEPT ![p].exists = v]
  /\ UNCHANGED <<clock, asked, priceVars, entries, deployed, listed>>

TvlChecked(p) ==
  /\ checks[p] # None /\ checks[p].tvl = Asked
  /\ \E v \in {TRUE, Failed} : checks' = [checks EXCEPT ![p].tvl = v]
  /\ UNCHANGED <<clock, asked, priceVars, entries, deployed, listed>>

Refreshed(p) ==
  LET v == checks[p].exists
      t == checks[p].tvl
      prev == CacheOf(p)
  IN [exists |-> IF v = Failed THEN prev.exists ELSE v,
      verifiedAt |-> IF v = Failed THEN prev.verifiedAt ELSE clock,
      tvl |-> IF t = Failed THEN prev.tvl ELSE t,
      tvlAt |-> IF t = Failed THEN prev.tvlAt ELSE clock]

(* refresh(p) ends; nothing else writes p's entry while it is under way.   *)
RefreshEnds(p) ==
  /\ checks[p] # None /\ Asked \notin {checks[p].exists, checks[p].tvl}
  /\ entries' = [entries EXCEPT ![p] = Refreshed(p)]
  /\ checks' = [checks EXCEPT ![p] = None]
  /\ UNCHANGED <<clock, asked, priceVars, deployed, listed>>

EcosystemAnswers ==
  /\ AnswersDue
  /\ listed' = Listed
  /\ Answer("ecosystem")
  /\ UNCHANGED <<clock, priceVars, entries, checks, deployed>>

Deploy(p) ==
  /\ deployed[p] = None
  /\ deployed' = [deployed EXCEPT ![p] = clock]
  /\ UNCHANGED <<clock, asked, priceVars, entries, checks, listed>>

-----------------------------------------------------------------------------
(* AbortSignal.timeout: time does not pass a fetch's timeout before the    *)
(* fetch has ended, nor does what is due at once wait.                     *)
Tick ==
  /\ clock < MaxClock
  /\ priceFetch # None => clock - priceFetch < FetchTimeout
  /\ \A p \in Protocols : checks[p] # None => clock - checks[p].at < FetchTimeout
  /\ ~AnswersDue
  /\ clock' = clock + 1
  /\ UNCHANGED <<asked, priceVars, ecosystemVars>>

PriceNext ==
  \/ \E c \in Clients : GetPrice(c)
  \/ PriceArrives
  \/ PriceFails
  \/ Tick

EcosystemNext ==
  \/ \E c \in Clients : GetEcosystem(c)
  \/ \E p \in Protocols : ContractChecked(p) \/ TvlChecked(p) \/ RefreshEnds(p) \/ Deploy(p)
  \/ EcosystemAnswers
  \/ Tick
=============================================================================
