-------------------------- MODULE StrategyExplorer --------------------------
(***************************************************************************)
(* The strategies page: the list of real protocols it keeps asking for     *)
(* (components/ecosystem/StrategyExplorer.tsx), the drawer of one of them  *)
(* (StrategyAnalysisDrawer.tsx), and the analysis that the drawer asks     *)
(* for, which the agent writes from what three public services answer and  *)
(* what a language model replies (agent/src/analysis/strategyAnalysis.ts). *)
(* Of a text only its author counts, of a figure whose it is, who gave it  *)
(* and how large it is.                                                    *)
(***************************************************************************)
EXTENDS Integers, SequencesExt, FiniteSetsExt

CONSTANTS
  Explored,       \* ECOSYSTEM_PROTOCOLS, by name
  ListingsTried,  \* what the list route may answer
  Replies,        \* what the model may reply: of AllReplies
  MaxOpenings,    \* bound: drawers opened
  MaxListings,    \* bound: answers of the list route, failed ones included
  Wait,           \* an answer not yet there
  Void            \* null

(* "none" is no key of the model, or a request that fails. *)
AllReplies == {"plain", "figures too", "names a domain", "no JSON", "none"}

(* What a listing, a value locked and an analysis may be.  Every value     *)
(* locked that is kept is a number, and not negative                       *)
(* (api/ecosystem/route.ts:65).                                            *)
AllListings == [Explored -> [status: {"exists", "missing", "unreachable"}, usd: Nat \cup {Void}]]
Values == [of: Explored, by: {"DefiLlama", "model"}, usd: Nat]
Analyses ==
  [of: Explored, price: Nat \cup {Void}, text: {"fallback", "foreign", "model"},
   tvl: Values \cup {Void}]

ASSUME ExplorerAssumption ==
  /\ {MaxOpenings, MaxListings} \subseteq Nat
  /\ Explored \subseteq Nat /\ IsFiniteSet(Explored)
  /\ Replies \subseteq AllReplies
  /\ ListingsTried \subseteq AllListings
  /\ Wait \notin Nat \cup Values \cup {Void}
  /\ Void \notin Nat \cup Values \cup Analyses \cup AllListings

VARIABLES
  listing,    \* protocols, or Void
  listError,
  listLoads,  \* answers of the list route: [good, failed], and whether one is awaited
  selected,   \* [id, card]: the protocol of the open drawer as the list had it, or Void
  inquiries,  \* inquiries[i]: the analysis asked for at the i-th opening
  drawer,     \* [analysis, error, loading]
  crossed     \* a drawer was opened while another's analysis was awaited

explorerVars == <<listing, listError, listLoads, selected, inquiries, drawer, crossed>>

ExplorerInit ==
  /\ listing = Void /\ listError = FALSE
  /\ listLoads = [good |-> 0, failed |-> 0, awaited |-> TRUE]
  /\ selected = Void /\ inquiries = <<>> /\ crossed = FALSE
  /\ drawer = [analysis |-> Void, error |-> FALSE, loading |-> FALSE]

-----------------------------------------------------------------------------
(* The list. *)

ListArrives ==
  /\ listLoads.awaited
  /\ listing' \in ListingsTried
  /\ listError' = FALSE
  /\ listLoads' = [listLoads EXCEPT !.good = @ + 1, !.awaited = FALSE]
  /\ UNCHANGED <<selected, inquiries, drawer, crossed>>

(* Fault: a failed load empties the page. *)
ListingAfterError == Void

(* A failed load leaves what was loaded. *)
ListingAfterFailure == listing

ListFails ==
  /\ listLoads.awaited
  /\ listing' = ListingAfterFailure
  /\ listError' = TRUE
  /\ listLoads' = [listLoads EXCEPT !.failed = @ + 1, !.awaited = FALSE]
  /\ UNCHANGED <<selected, inquiries, drawer, crossed>>

(* The timer, after a minute or what the failures make it. *)
ListAgain ==
  /\ ~listLoads.awaited /\ listLoads.good + listLoads.failed < MaxListings
  /\ listLoads' = [listLoads EXCEPT !.awaited = TRUE]
  /\ UNCHANGED <<listing, listError, selected, inquiries, drawer, crossed>>

PageSays ==
  IF listing # Void THEN "protocols" ELSE IF listError THEN "unreachable" ELSE "loading"

(* Those that match search and category, the highest value first and what  *)
(* has no reading last.                                                    *)
Cards(matching) ==
  LET usd(p) == IF listing[p].usd = Void THEN -1 ELSE listing[p].usd
      Before(p, q) == usd(p) > usd(q) \/ (usd(p) = usd(q) /\ p < q)
  IN CHOOSE s \in [1 .. Cardinality(matching) -> matching] :
       \A j, k \in DOMAIN s : j < k => Before(s[j], s[k])

(* The figures above them. *)
Stats ==
  LET known == {p \in Explored : listing[p].usd # Void}
  IN [combined |-> IF known = {} THEN Void ELSE SumFunction([p \in known |-> listing[p].usd]),
      reporting |-> Cardinality(known)]

-----------------------------------------------------------------------------
(* The drawer. *)

Awaited == {i \in DOMAIN inquiries : inquiries[i].at # "over"}

(* Fault: the drawer opens with what it showed last. *)
KeepsAnalysis == [drawer EXCEPT !.error = FALSE, !.loading = TRUE]

Emptied == [analysis |-> Void, error |-> FALSE, loading |-> TRUE]

Inquiry(p) == [of |-> p, at |-> "checks", price |-> Wait, tvl |-> Wait]

(* A click on a card, the effect of the drawer and its request. *)
OpenDrawer(p) ==
  /\ selected = Void /\ listing # Void /\ Len(inquiries) < MaxOpenings
  /\ selected' = [id |-> p, card |-> listing[p]]
  /\ drawer' = Emptied
  /\ inquiries' = Append(inquiries, Inquiry(p))
  /\ crossed' = (crossed \/ Awaited # {})
  /\ UNCHANGED <<listing, listError, listLoads>>

(* The request under way is not given up. *)
CloseDrawer ==
  /\ selected # Void
  /\ selected' = Void
  /\ UNCHANGED <<listing, listError, listLoads, inquiries, drawer, crossed>>

(* The route, or the way there, fails. *)
InquiryFails(i) ==
  /\ i \in Awaited
  /\ inquiries' = [inquiries EXCEPT ![i].at = "over"]
  /\ drawer' = [drawer EXCEPT !.error = TRUE, !.loading = FALSE]
  /\ UNCHANGED <<listing, listError, listLoads, selected, crossed>>

(* "Value locked": the analysis's own figure, or the list's. *)
ValueLocked ==
  IF drawer.analysis # Void /\ drawer.analysis.tvl # Void THEN drawer.analysis.tvl
  ELSE IF selected.card.usd = Void THEN Void
  ELSE [of |-> selected.id, by |-> "DefiLlama", usd |-> selected.card.usd]

(* "AI perspective". *)
Perspective ==
  (IF drawer.loading THEN {"loading"} ELSE {}) \cup (IF drawer.error THEN {"unavailable"} ELSE {})
    \cup (IF drawer.analysis # Void /\ ~drawer.loading THEN {"analysis"} ELSE {})

-----------------------------------------------------------------------------
(* analyzeProtocol: three reads at once, each of which may fail.  That of  *)
(* the contract only goes into the text.                                   *)

Checking(i, part) == i \in Awaited /\ inquiries[i].at = "checks" /\ inquiries[i][part] = Wait

CheckEnds(i, now) ==
  inquiries' = [inquiries EXCEPT ![i] =
    [now EXCEPT !.at = IF Wait \in {now.price, now.tvl} THEN "checks" ELSE "text"]]

(* getStxPrice: the first sane quote of four sources, or none. *)
PriceAnswers(i) ==
  /\ Checking(i, "price")
  /\ \E usd \in {1, Void} : CheckEnds(i, [inquiries[i] EXCEPT !.price = usd])
  /\ UNCHANGED <<listing, listError, listLoads, selected, drawer, crossed>>

(* getProtocolTvl: never a guess. *)
ValueAnswers(i) ==
  /\ Checking(i, "tvl")
  /\ \E tvl \in {[of |-> inquiries[i].of, by |-> "DefiLlama", usd |-> 1], Void} :
       CheckEnds(i, [inquiries[i] EXCEPT !.tvl = tvl])
  /\ UNCHANGED <<listing, listError, listLoads, selected, drawer, crossed>>

(* Fault: the domains that a text names are not looked at. *)
Parsed(reply) == reply \notin {"no JSON", "none"}

(* parseAnalysis: the fields that are there, and no domain but the         *)
(* protocol's own.                                                         *)
ParseAnalysis(reply) == reply \in {"plain", "figures too"}

(* The reply is laid over what was read, every field of it.                *)
Analysis(i, reply) ==
  LET q == inquiries[i] IN
  [of |-> q.of, price |-> q.price,
   text |-> IF ~ParseAnalysis(reply) THEN "fallback"
           ELSE IF reply = "names a domain" THEN "foreign" ELSE "model",
   tvl |-> IF reply = "figures too" THEN [of |-> q.of, by |-> "model", usd |-> 2] ELSE q.tvl]

(* The model's reply; the answer arrives in the browser and goes into      *)
(* whatever drawer is open.                                                *)
AnalysisArrives(i) ==
  /\ i \in Awaited /\ inquiries[i].at = "text"
  /\ \E reply \in Replies :
       drawer' = [drawer EXCEPT !.analysis = Analysis(i, reply), !.loading = FALSE]
  /\ inquiries' = [inquiries EXCEPT ![i].at = "over"]
  /\ UNCHANGED <<listing, listError, listLoads, selected, crossed>>

ExplorerNext ==
  \/ ListArrives \/ ListFails \/ ListAgain
  \/ \E p \in Explored : OpenDrawer(p)
  \/ CloseDrawer
  \/ \E i \in DOMAIN inquiries :
       PriceAnswers(i) \/ ValueAnswers(i) \/ AnalysisArrives(i) \/ InquiryFails(i)
=============================================================================
