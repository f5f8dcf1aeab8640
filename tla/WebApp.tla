------------------------------- MODULE WebApp -------------------------------
(***************************************************************************)
(* The web app beside the chain: a session of the pages of one vault, or   *)
(* of the creation of one, the transactions it sends and what becomes of   *)
(* them on chain, the dashboard, and other users of the contracts.         *)
(***************************************************************************)
EXTENDS Treasuries

webVars == <<vars, sessionVars, treasuryVars>>

-----------------------------------------------------------------------------
(* How a session begins. *)

(* The first render: below the layout a refresh is under way.              *)
Arriving ==
  /\ refreshes = IF BelowLayout THEN <<NewRefresh(account)>> ELSE <<>>
  /\ overview = Loading
  /\ form = IF page = "create" THEN CreateForm ELSE Absent
  /\ facts = NewFacts

(* The overview has arrived, and the page has mounted over it and read     *)
(* what it reads for itself.                                               *)
Opened ==
  /\ refreshes = <<>>
  /\ GetVaultMeta(Shown) # Absent
  /\ overview = WholeOverview([NewRefresh(account) EXCEPT !.meta = GetVaultMeta(Shown)])
  /\ form = CASE page = "create" -> CreateForm
               [] page = "dashboard" -> Absent
               [] OTHER -> NewForm(page, overview)
  /\ facts = CASE page = "deposit" -> [NewFacts EXCEPT !.paused = IsProtocolPaused,
                       !.approved = SbtcApproved, !.balances = GetBalances(account),
                       !.awaited = FALSE]
                [] page = "redeem" -> NewFacts
                [] OTHER -> [NewFacts EXCEPT !.limits = GetProtocolLimits]

SessionStart ==
  /\ account \in Wallets
  /\ page \in {"deposit", "redeem", "settings", "create", "dashboard"}
  /\ incidents \in 0 .. MaxIncidents
  /\ sent = <<>>
  /\ loadError = FALSE
  /\ list = NoTreasuries /\ loads = NoLoads
  /\ Arriving \/ Opened

-----------------------------------------------------------------------------
(* The call a transaction makes.  Post-conditions in deny mode             *)
(* (lib/wallet.ts): a deposit moves exactly its amount out of the viewer's *)
(* account and nothing else, a redemption moves no more than the previewed *)
(* payout out of the vault; otherwise the chain aborts it.                 *)

(* What the call returns; deposits, redemptions and creations look at it. *)
Outcome(e) ==
  CASE e.kind = "deposit" -> DepositShares(supplies[Shown][e.args.asset],
                                           totalBalances[Shown][e.args.asset], e.args.amount)
    [] e.kind = "redeem" -> RedeemAssets(e.args.amount, supplies[Shown][e.args.asset],
                                         totalBalances[Shown][e.args.asset])
    [] e.kind = "create" -> nextVaultId
    [] OTHER -> 0

AfterPoolCall == UNCHANGED <<height, adminVars, executors, strategyVars>>

AfterConfigCall == UNCHANGED <<chainVars, adminVars, executors, strategyVars, receiptVars>>

(* Fault: the post-condition names the account that signs. *)
DepositCallOfSigner(e) ==
  /\ e.kind = "deposit"
  /\ IF e.args.asset = "STX" THEN DepositStx(e.signer, Shown, e.args.amount)
                             ELSE DepositSbtc(e.signer, Shown, e.args.amount, AppToken)
  /\ AfterPoolCall

DepositCall(e) ==
  /\ e.kind = "deposit"
  /\ IF e.args.asset = "STX" THEN DepositStx(e.signer, Shown, e.args.amount)
                             ELSE DepositSbtc(e.signer, Shown, e.args.amount, AppToken)
  /\ e.signer = e.viewer
  /\ AfterPoolCall

RedeemCall(e) ==
  /\ e.kind = "redeem"
  /\ IF e.args.asset = "STX" THEN RedeemStx(e.signer, Shown, e.args.amount)
                             ELSE RedeemSbtc(e.signer, Shown, e.args.amount, AppToken)
  /\ Outcome(e) <= e.args.shown
  /\ AfterPoolCall

CreateCall(e) ==
  /\ e.kind = "create"
  /\ \E name \in Names :
       CreateVault(e.signer, name, e.args.purpose, e.args.mode, e.args.open, e.args.params)
  /\ AfterConfigCall

MetaCall(e) ==
  /\ e.kind = "meta"
  /\ \E name \in Names : SetVaultConfig(e.signer, Shown, name, e.args.open)
  /\ AfterConfigCall

RiskCall(e) == e.kind = "risk" /\ SetRiskConfig(e.signer, Shown, e.args) /\ AfterConfigCall

PauseCall(e) ==
  /\ e.kind = "pause"
  /\ IF e.args.pause THEN PauseVault(e.signer, Shown) ELSE UnpauseVault(e.signer, Shown)
  /\ AfterConfigCall

Call(e) ==
  \/ DepositCall(e)
  \/ RedeemCall(e)
  \/ CreateCall(e)
  \/ MetaCall(e)
  \/ RiskCall(e)
  \/ PauseCall(e)

Pending(i) == i \in DOMAIN sent /\ sent[i].ledger = "pending"

Unseen == UNCHANGED <<account, page, form, facts, overview, loadError, refreshes>>

(* A miner takes the transaction: it executes, or is included as aborted. *)
Execute(i) ==
  /\ Pending(i)
  /\ Call(sent[i])
  /\ SetSent(i, [sent[i] EXCEPT !.ledger = "success", !.got = Outcome(sent[i])])
  /\ Unseen /\ Calm

Reverts(e) == ~ENABLED Call(e)

Abort(i) ==
  /\ Pending(i)
  /\ Reverts(sent[i])
  /\ SetSent(i, [sent[i] EXCEPT !.ledger = "aborted"])
  /\ Unseen /\ Calm
  /\ UNCHANGED vars

Drop(i) ==
  /\ Pending(i)
  /\ SetSent(i, [sent[i] EXCEPT !.ledger = "dropped"])
  /\ Unseen /\ Incident
  /\ UNCHANGED vars

OthersMove ==
  /\ Next /\ Incident
  /\ UNCHANGED treasuryVars
  /\ UNCHANGED <<account, page, form, facts, overview, loadError, refreshes, sent>>

-----------------------------------------------------------------------------
Reads ==
  \/ \E i \in DOMAIN refreshes : ReadMeta(i) \/ ReadRest(i) \/ ReadFails(i)
  \/ TryAgain
  \/ ReadFacts
  \/ ReadBalances
  \/ PreviewArrives
  \/ PreviewFails

(* On the dashboard a change of account begins a load. *)
Navigation ==
  \/ /\ Connect \/ Disconnect
     /\ IF page = "dashboard" THEN BeginLoad(account') ELSE UNCHANGED treasuryVars
  \/ \E tab \in {"deposit", "redeem", "settings"} : OpenTab(tab) /\ UNCHANGED treasuryVars

Dashboard ==
  /\ page = "dashboard"
  /\ UNCHANGED <<account, page, form, facts, overview, loadError, refreshes, sent>>
  /\ \/ AutoRefresh /\ Calm
     \/ \E i \in 1 .. MaxLoads :
          \/ (ReadOwned(i) \/ ReadHeld(i) \/ ShowLoad(i)) /\ Calm
          \/ LoadFails(i) /\ Incident

Editor ==
  \/ ChooseAsset \/ EnterAmount \/ SubmitDeposit
  \/ ChoosePool \/ EnterShares \/ SubmitRedeem \/ StartOver
  \/ EditSettings \/ SaveMeta \/ SaveRisk \/ TogglePause
  \/ ChoosePurpose \/ EnterName \/ ChooseMode \/ ChooseAccess \/ EnterRisk \/ ChooseAutonomy
  \/ Continue \/ Back \/ Create \/ BackToReview

Following(i) ==
  \/ \E p \in Wallets : WalletSigns(i, p) \/ WalletFails(i, p)
  \/ PollSucceeds(i)
  \/ PollFails(i)
  \/ WaitTimesOut(i)
  \/ ShowOutcome(i)

WebNext ==
  \/ /\ \/ Reads
        \/ Editor
        \/ \E i \in DOMAIN sent : Following(i)
     /\ UNCHANGED <<vars, treasuryVars>>
  \/ Navigation /\ UNCHANGED vars
  \/ Dashboard /\ UNCHANGED vars
  \/ \E i \in DOMAIN sent :
       (Execute(i) \/ Abort(i) \/ Drop(i)) /\ UNCHANGED treasuryVars
  \/ OthersMove

Quiet == UNCHANGED <<vars, sessionVars>>

(* A fetch answers or throws, the polling loop comes round until its       *)
(* deadline, the interval of a visible tab fires, and the app's own        *)
(* continuations run.  The user, the wallet, the miners and the other      *)
(* users owe nothing.                                                      *)
WebFairness ==
  /\ WF_webVars(page = "dashboard" /\ AutoRefresh /\ Quiet)
  /\ \A i \in 1 .. MaxLoads :
       /\ WF_webVars(ReadOwned(i) /\ Quiet)
       /\ WF_webVars(ReadHeld(i) /\ Quiet)
       /\ WF_webVars(ShowLoad(i) /\ Quiet)
  /\ \A i \in 1 .. (MaxSent + MaxIncidents + 1) :
       WF_webVars((ReadMeta(i) \/ ReadRest(i)) /\ UNCHANGED <<vars, treasuryVars>>)
  /\ \A i \in 1 .. MaxSent :
       /\ WF_webVars(i \in DOMAIN sent /\ (PollSucceeds(i) \/ PollFails(i) \/ WaitTimesOut(i))
                     /\ UNCHANGED <<vars, treasuryVars>>)
       /\ WF_webVars(i \in DOMAIN sent /\ ShowOutcome(i) /\ UNCHANGED <<vars, treasuryVars>>)
=============================================================================
