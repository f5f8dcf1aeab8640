----------------------------- MODULE VaultPages -----------------------------
(***************************************************************************)
(* The pages that move funds: vault/[id]/deposit/page.tsx and              *)
(* vault/[id]/redeem/page.tsx, from what the user enters to the            *)
(* transaction they send.  An amount is a number of base units; texts that *)
(* parseUnits rejects count as no amount, 0.                               *)
(***************************************************************************)
EXTENDS WebSession

CONSTANTS
  AppAccounts,   \* accounts of the network this build of the app is for
  FeeReserve     \* STX_FEE_RESERVE

ASSUME PagesAssumption == FeeReserve \in Nat

OnPage(name) == page = name /\ form # Absent /\ account # Absent

IsViewersVault == overview.meta.owner = account

(* The page shows the outcome in place of the form. *)
ShowsOutcome == form.done > 0 /\ PhaseOf(page) = "confirmed"

Editing(kind) == OnPage(kind) /\ ~Busy(kind) /\ ~ShowsOutcome

StartPreview(f) == [f EXCEPT !.preview = IF f.amount > 0 THEN Loading ELSE Unknown]

ChangesFormOnly ==
  /\ UNCHANGED <<account, page, facts, overview, loadError, refreshes, sent>>
  /\ Calm

Choose(a) == form' = StartPreview([form EXCEPT !.asset = a, !.amount = 0]) /\ ChangesFormOnly

Enter(n) == n # form.amount /\ form' = StartPreview([form EXCEPT !.amount = n]) /\ ChangesFormOnly

ChooseAsset ==
  Editing("deposit") /\ \E a \in SupportedAssets(overview.meta.assets) \ {form.asset} : Choose(a)

ChoosePool ==
  Editing("redeem") /\ \E a \in SupportedAssets(overview.meta.assets) \ {form.asset} : Choose(a)

(* Typed, or one of the buttons that take a part of what the wallet holds. *)
EnterAmount == Editing("deposit") /\ \E n \in Amounts \cup {0} : Enter(n)

(* The preview of what is entered now; an effect's clean-up cancels the    *)
(* ones before it.  A read that fails shows as an error too.               *)
PreviewArrives ==
  /\ page \in {"deposit", "redeem"} /\ form # Absent /\ form.preview = Loading
  /\ LET answer == IF page = "deposit" THEN PreviewDeposit(Shown, form.asset, form.amount)
                                       ELSE PreviewRedeem(Shown, form.asset, form.amount)
     IN form' = [form EXCEPT !.preview = answer]
  /\ ChangesFormOnly

PreviewFails ==
  /\ page \in {"deposit", "redeem"} /\ form # Absent /\ form.preview = Loading
  /\ form' = [form EXCEPT !.preview = Refused]
  /\ UNCHANGED <<account, page, facts, overview, loadError, refreshes, sent>>
  /\ Incident

PreviewShown == form.preview \in Nat

(* In 1/100 %, rounded down. *)
PercentOf(value, total) == IF total = 0 THEN 0 ELSE (value * BPS) \div total

-----------------------------------------------------------------------------
(* Deposit. *)

Afforded == facts.balances # Unknown /\ form.amount <= facts.balances[form.asset]

FeeKept == form.asset = "STX" => form.amount + FeeReserve <= facts.balances["STX"]

(* Fault: open deposits are asked of nobody. *)
DepositAllowedToAll ==
  /\ account \in AppAccounts
  /\ facts.paused # TRUE
  /\ ~overview.meta.paused
  /\ form.asset = "SBTC" => facts.approved # FALSE

(* None of the page's blocking conditions; what it could not read (null)   *)
(* blocks nothing.                                                         *)
DepositAllowed ==
  /\ account \in AppAccounts
  /\ facts.paused # TRUE
  /\ ~overview.meta.paused
  /\ overview.meta.openDeposits \/ IsViewersVault
  /\ form.asset = "SBTC" => facts.approved # FALSE

CanDeposit ==
  /\ Editing("deposit")
  /\ form.amount > 0
  /\ DepositAllowed
  /\ Afforded
  /\ FeeKept
  /\ PreviewShown

(* "Ownership after deposit". *)
OwnershipAfterDeposit(shares) ==
  PercentOf(shares + form.preview, overview.pools[form.asset].supply + form.preview)

SubmitDeposit ==
  /\ CanDeposit
  /\ Send("deposit", [asset |-> form.asset, amount |-> form.amount, shown |-> form.preview])
  /\ UNCHANGED <<account, page, form, facts, overview, loadError, refreshes>>

-----------------------------------------------------------------------------
(* Redemption. *)

(* positions[asset]?.shares ?? 0 *)
Held ==
  IF form.asset \in DOMAIN overview.positions THEN overview.positions[form.asset].shares ELSE 0

(* Typed, or a part of the shares; without shares there is no form. *)
EnterShares == Editing("redeem") /\ Held > 0 /\ \E n \in Amounts \cup {0} : Enter(n)

(* Fault: a paused vault pays nothing. *)
CanRedeemUnlessPaused ==
  /\ Editing("redeem") /\ Held > 0
  /\ form.amount > 0
  /\ account \in AppAccounts
  /\ ~overview.meta.paused
  /\ form.amount <= Held
  /\ PreviewShown
  /\ form.preview <= overview.pools[form.asset].idle

CanRedeem ==
  /\ Editing("redeem") /\ Held > 0
  /\ form.amount > 0
  /\ account \in AppAccounts
  /\ form.amount <= Held
  /\ PreviewShown
  /\ form.preview <= overview.pools[form.asset].idle

(* "Available to redeem now" and "Ownership after redemption". *)
Redeemable ==
  IF form.asset \in DOMAIN overview.positions THEN overview.positions[form.asset].redeemable ELSE 0

OwnershipAfterRedemption ==
  PercentOf(Held - form.amount, overview.pools[form.asset].supply - form.amount)

SubmitRedeem ==
  /\ CanRedeem
  /\ Send("redeem", [asset |-> form.asset, amount |-> form.amount, shown |-> form.preview])
  /\ UNCHANGED <<account, page, form, facts, overview, loadError, refreshes>>

-----------------------------------------------------------------------------
(* Afterwards. *)

(* The continuation of submit: once the refresh it started has ended (with *)
(* an overview, with an error or superseded), the outcome is shown and the *)
(* amount cleared.                                                         *)
ShowOutcome(i) ==
  /\ sent[i].kind = page /\ page \in {"deposit", "redeem"} /\ form # Absent
  /\ sent[i].shown /\ sent[i].readBack > 0 /\ ~refreshes[sent[i].readBack].open
  /\ form' = StartPreview([form EXCEPT !.done = i, !.amount = 0])
  /\ SetSent(i, [sent[i] EXCEPT !.readBack = 0])
  /\ UNCHANGED <<account, page, facts, overview, loadError, refreshes>>
  /\ Calm

(* "Make another deposit", "Redeem more". *)
StartOver ==
  /\ page \in {"deposit", "redeem"} /\ OnPage(page) /\ ShowsOutcome
  /\ sent' = Unmounted
  /\ form' = [form EXCEPT !.done = 0]
  /\ UNCHANGED <<account, page, facts, overview, loadError, refreshes>>
  /\ Calm
=============================================================================
