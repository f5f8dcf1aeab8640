--------------------------- MODULE WebProperties ----------------------------
(***************************************************************************)
(* What the web app promises to whoever uses it.                           *)
(***************************************************************************)
EXTENDS WebApp

-----------------------------------------------------------------------------
(* The checks of the pages against those of the contracts.  What the       *)
(* contracts would do with a call is a parameter of each statement: for    *)
(* the runs ENABLED says it, for the proofs the guards of the call do.     *)

(* What the session shows is what the chain holds now. *)
ViewCurrent ==
  /\ Loaded /\ account # Absent /\ overview.viewer = account
  /\ overview.meta = GetVaultMeta(Shown) /\ overview.risk = GetRiskConfig(Shown)
  /\ \A a \in SupportedAssets(overview.meta.assets) :
       /\ overview.pools[a] = GetPool(Shown, a)
       /\ overview.positions[a] = GetPosition(Shown, a, account)

TokenCurrent == form.asset = "SBTC" => approvedSbtc \in {Absent, AppToken}

Signed(kind, args) == [Submission(kind, args) EXCEPT !.signer = account]

PoolArgs == [asset |-> form.asset, amount |-> form.amount, shown |-> form.preview]

(* With current data the deposit button is enabled exactly when the        *)
(* contract would accept the deposit (and, of STX, the fee stays in the    *)
(* account): deposit/page.tsx:86-104 misses no condition of deposit-stx    *)
(* and deposit-sbtc, spread over four contracts, and adds none.            *)
DepositButtonExact(Fails(_)) ==
  ( /\ Editing("deposit") /\ form.amount > 0
    /\ account \in AppAccounts /\ TokenCurrent
    /\ ViewCurrent
    /\ facts.paused = IsProtocolPaused /\ facts.approved = SbtcApproved
    /\ facts.balances = GetBalances(account) /\ FeeKept
    /\ form.preview = PreviewDeposit(Shown, form.asset, form.amount) )
  => /\ CanDeposit <=> ~Fails(Signed("deposit", PoolArgs))
     /\ CanDeposit => OwnershipAfterDeposit(Held) \in PercentOf(Held, GetPool(Shown, form.asset).supply) .. BPS

(* With current data the redeem button is enabled exactly when the         *)
(* contract would pay, and what it pays is within what the page calls      *)
(* available: no pause of the protocol or of the vault hides it            *)
(* ("Redemption is never blocked by a protocol or vault pause", the page), *)
(* and idle funds bound it (redeem/page.tsx:76-83).  The page does not     *)
(* look whether the contract owns what is idle in the app's sBTC token,    *)
(* which it may not after the admin approved another in between.           *)
RedeemButtonExact(Fails(_)) ==
  ( /\ Editing("redeem") /\ form.amount > 0
    /\ account \in AppAccounts
    /\ form.asset = "SBTC" =>
         approvedSbtc = AppToken /\ idleBalances[Shown]["SBTC"] <= holdings[AppToken][VAULT]
    /\ ViewCurrent
    /\ form.preview = PreviewRedeem(Shown, form.asset, form.amount) )
  => /\ CanRedeem <=> ~Fails(Signed("redeem", PoolArgs))
     /\ CanRedeem => /\ form.preview <= Redeemable
                     /\ OwnershipAfterRedemption <= PercentOf(Held, GetPool(Shown, form.asset).supply)

(* parseRisk under the limits in force says of any input what risk-guard   *)
(* says of it, for the owner's settings and for a new vault: the form      *)
(* stops exactly the doomed transactions (RiskFields.tsx:55-59).           *)
OwnerFormsExact(Fails(_)) ==
  /\ (page = "settings" /\ form # Absent /\ ViewCurrent /\ IsViewersVault) =>
       \A v \in RiskTexts :
         RiskErrors(v, protocolLimits) = {} <=> ~Fails(Signed("risk", v))
  /\ (CanCreate /\ facts.limits = protocolLimits /\ ~protocolPaused /\ nextVaultId <= MaxVaults) =>
       ~Fails(Signed("create", Reviewed))

(* A vault is never created autonomous without the acknowledgement,        *)
(* whatever the way through the steps, back and forth (create/page.tsx).   *)
AutonomyAccepted ==
  page = "create" /\ form.step >= 5 /\ form.values.autonomousEnabled => form.accepted

(* The list is up to date, and for the account. *)
ListCurrent ==
  /\ page = "dashboard" /\ account # Absent /\ list.who = account
  /\ Owned = GetOwnerVaultIds(account) /\ Tab("deposited") = GetHolderVaultIds(account)

(* The cards of a list that is up to date lead to everything the contracts *)
(* would do for the account, and to no deposit they would refuse for the   *)
(* account's or the vault's sake; an item under "Needs attention" names    *)
(* what is the matter and who can mend it (VaultCard.tsx:93-105,           *)
(* dashboard/page.tsx:143-169).                                            *)
CardsExact(Takes(_, _, _), Pays(_, _, _), Unpauses(_)) ==
  ListCurrent => \A v \in Listed :
    /\ \A a \in SupportedAssets(vaults[v].assets), n \in Amounts :
         /\ Takes(v, a, n) => DepositOffered(v)
         /\ ( /\ DepositOffered(v) /\ ~protocolPaused
              /\ a = "SBTC" => approvedSbtc = AppToken
              /\ n <= GetBalances(account)[a] /\ PreviewDeposit(v, a, n) # Refused )
            => Takes(v, a, n)
         /\ Pays(v, a, n) => RedeemOffered(v)
    /\ \A a \in SupportedAssets(vaults[v].assets) :
         LET f == CardFigures(v, a) IN
         /\ f.deployed > 0 => \E s \in StrategyIds : strategyAllocations[v][s][a] > 0
         /\ f.yours > 0 => RedeemOffered(v)
         /\ f.idle + f.deployed <= BPS
    /\ Attention(v) = "unpause" => Unpauses(v)
    /\ Attention(v) = "make the first deposit" => \A a \in Assets : supplies[v][a] = 0

(* The claims, and the steps of the checklist, are those of everything the *)
(* account owns and holds anywhere: the holder index misses no shares, so  *)
(* a list made from it misses no claim (dashboard/page.tsx:87-93).         *)
ClaimsComplete ==
  LET held(a) == {v \in VaultIds : balances[v][a][account] > 0} IN
  ListCurrent =>
    /\ \A a \in Assets :
         ClaimShown(a) = SumFunction([v \in VaultIds |-> GetPosition(v, a, account).claim])
    /\ "deposit" \in StepsDone <=> \E a \in Assets : held(a) # {}
    /\ NextStep = "create" <=> \A v \in VaultIds : vaults[v] # Absent => vaults[v].owner # account
    /\ TabsOffered => Tab("all") = Tab("owned") \cup Tab("deposited")

(* What the pages check, alone and with data of several reads, is what the *)
(* contracts check: no button is dead that would work, and none is live    *)
(* that would burn a fee.                                                  *)
ButtonsExact ==
  LET Takes(v, a, n) == ENABLED (IF a = "STX" THEN DepositStx(account, v, n)
                                              ELSE DepositSbtc(account, v, n, AppToken))
      Pays(v, a, n) == ENABLED (IF a = "STX" THEN RedeemStx(account, v, n)
                                             ELSE RedeemSbtc(account, v, n, AppToken))
      Unpauses(v) == ENABLED UnpauseVault(account, v)
  IN /\ DepositButtonExact(Reverts) /\ RedeemButtonExact(Reverts)
     /\ OwnerFormsExact(Reverts) /\ AutonomyAccepted
     /\ CardsExact(Takes, Pays, Unpauses)

-----------------------------------------------------------------------------
(* Transactions and what is shown of them. *)

(* The wallet may sign with another account than the one the page shows;   *)
(* nobody but the viewer ever pays for a deposit submitted on a page.      *)
OnlyViewerPays ==
  [][\A i \in DOMAIN sent :
       sent[i].kind = "deposit" /\ sent'[i].ledger = "success" /\ sent[i].ledger # "success"
         => \A p \in Principals \ {sent[i].viewer}, t \in Tokens : holdings'[t][p] = holdings[t][p]]_webVars

(* "Confirmed on-chain" is shown of executed transactions only, and a      *)
(* transaction reported as failed is never executed afterwards (comment at *)
(* onchain.ts:387-394): what the API has not indexed is not a failure.     *)
PhasesMatchChain ==
  \A i \in DOMAIN sent :
    /\ sent[i].phase = "confirmed" => sent[i].ledger = "success"
    /\ sent[i].phase = "failed" => sent[i].ledger \in {"aborted", "dropped"}

(* Once the outcome of a transaction is shown and no refresh is under way  *)
(* or has failed, the overview beside it was read after the execution      *)
(* ("Read back from the vault and receipt contracts after confirmation").  *)
OutcomeReadBack ==
  ( /\ Loaded /\ form # Absent /\ page \in {"deposit", "redeem"} /\ ShowsOutcome
    /\ overview.viewer = account /\ ~loadError
    /\ \A i \in DOMAIN refreshes : ~refreshes[i].open )
  => form.done \in overview.seen

(* A deposit mints the shares the page promised ("You will receive"), and  *)
(* a redemption pays what it estimated, whatever others did to the pool in *)
(* between: the deposit's post-condition does not bound the shares, and    *)
(* the redemption's would abort it if the price had moved.                 *)
PreviewsHonoured ==
  \A i \in DOMAIN sent :
    sent[i].ledger = "success" /\ sent[i].kind \in {"deposit", "redeem"}
      => sent[i].got = sent[i].args.shown

(* The number under "is vault # on-chain" is that of the vault that was    *)
(* reviewed, whoever created vaults in between; it belongs to whoever      *)
(* signed (create/page.tsx:111, 330-345).                                  *)
CreatedAsReviewed ==
  \A i \in DOMAIN sent :
    sent[i].kind = "create" /\ sent[i].ledger = "success" =>
      LET v == vaults[sent[i].got] IN
      /\ v # Absent /\ v.owner = sent[i].signer
      /\ v.purpose = sent[i].args.purpose /\ v.assets = sent[i].args.mode

(* What a page says of a transaction is what became of it: its phase, what *)
(* it minted, paid or created, and the overview that is shown beside it.   *)
OutcomesTrue == PhasesMatchChain /\ PreviewsHonoured /\ CreatedAsReviewed /\ OutcomeReadBack

(* The overview never goes back: one that shows a transaction of the       *)
(* session is not replaced by one that was read before it, however the     *)
(* answers of two refreshes overtake each other (useVaultOverview.ts).     *)
OverviewAdvances ==
  [][Loaded /\ Loaded' /\ overview'.viewer = overview.viewer
       => overview.seen \subseteq overview'.seen]_webVars

Settled(e) ==
  \/ e.phase \in {"failed", "timeout"}
  \/ ~e.shown
  \/ e.phase = "confirmed" /\ (e.kind \in {"deposit", "redeem"} => e.readBack = 0)

(* What is awaited ends: a transaction that was broadcast is in time shown *)
(* as failed, as timed out or, with the vault read again, as confirmed,    *)
(* unless its page is left.                                                *)
SubmissionsSettle ==
  \A i \in 1 .. MaxSent :
    (i \in DOMAIN sent /\ sent[i].phase = "confirming") ~> (i \in DOMAIN sent /\ Settled(sent[i]))

-----------------------------------------------------------------------------
(* The dashboard. *)

Owns(role) == role \in {"owner", "owner+holder"}

Holds(role) == role \in {"holder", "owner+holder"}

(* The dashboard "can never show a vault that does not exist or omit one   *)
(* that does" (useMyVaults.ts:16-18): whatever is created or deposited     *)
(* between the calls of a load, the list has every vault its account was   *)
(* indexed for when the load began, in that role, and none that it owns or *)
(* ever held shares of on no account.                                      *)
TreasuriesComplete ==
  LET owned == {v \in DOMAIN list.roles : Owns(list.roles[v])}
      held == {v \in DOMAIN list.roles : Holds(list.roles[v])}
  IN list.who # Absent =>
       /\ list.begun.owned \subseteq owned /\ list.begun.held \subseteq held
       /\ \A v \in owned : vaults[v] # Absent /\ vaults[v].owner = list.who
       /\ \A v \in held : v \in holderRegistered[list.who]
       /\ ClaimsComplete

(* While an account stays connected its list comes to be shown, for good,  *)
(* and shows what the indexes came to hold, whatever loads of a former     *)
(* account, or older ones, end after newer ones.                           *)
ListCatchesUp ==
  \A p \in Wallets :
    <>[](page = "dashboard" /\ account = p)
      => <>[](/\ list.who = p
              /\ {v \in DOMAIN list.roles : Owns(list.roles[v])} = GetOwnerVaultIds(p)
              /\ {v \in DOMAIN list.roles : Holds(list.roles[v])} = GetHolderVaultIds(p))

-----------------------------------------------------------------------------
(* "Loads the authoritative on-chain overview of one vault for the         *)
(* connected viewer" (useVaultOverview.ts:15-16): the positions shown are  *)
(* those of the connected account.  The continuation of a submit refreshes *)
(* for the account that was connected when it was rendered; after a switch *)
(* of account it supersedes the refresh of the new one.                    *)
OverviewOfViewer == Loaded => overview.viewer = account
=============================================================================
