----------------------------- MODULE WebSession -----------------------------
(***************************************************************************)
(* The web app's session with one vault: what it asks the contracts        *)
(* (lib/onchain.ts), the connected account                                 *)
(* (lib/wallet-context.tsx), the overview of the vault that the layout     *)
(* shows and refreshes (hooks/useVaultOverview.ts, vault/[id]/layout.tsx), *)
(* the balances of the account (hooks/useBalances.ts) and the transactions *)
(* that pages send and follow (hooks/useTransaction.ts).                   *)
(*                                                                         *)
(* Between two awaits the app's code runs alone, so an action is what runs *)
(* from one answer (of the chain, the wallet or the user) to the next.     *)
(***************************************************************************)
EXTENDS SovereigntyProtocol, FiniteSetsExt, SequencesExt

CONSTANTS
  Unknown,         \* not read yet, or the read failed (null in the code)
  Loading,         \* being read (undefined in the code)
  Missing,         \* the contract has no such entry
  Refused,         \* a preview that is an error
  AppToken,        \* SBTC_CONTRACT_ID: the sBTC token this build of the app uses
  Wallets,         \* the accounts this browser's wallet can connect
  Shown,           \* the vault whose pages are open
  MaxSent,         \* bound: transactions sent in a session
  MaxIncidents     \* bound: steps of others, failures, changes of account or page, and
                   \* submissions after the first

ASSUME ReadAssumption ==
  /\ AppToken \in SbtcTokens
  /\ {Unknown, Loading, Refused} \cap (Nat \cup BOOLEAN \cup {Absent} \cup [Assets -> Nat]) = {}

ASSUME SessionAssumption ==
  Wallets \subseteq Principals /\ Shown \in VaultIds /\ {MaxSent, MaxIncidents} \subseteq Nat

-----------------------------------------------------------------------------
(* lib/onchain.ts: what the web app asks the contracts, and what each      *)
(* answer says.  Every function is one read-only call (or a few, where the *)
(* code makes a few); how they are spread over time, and what happens to a *)
(* call that fails, is said where they are used.                           *)

SupportedAssets(mode) ==
  CASE mode = 1 -> {"STX"}
    [] mode = 2 -> {"SBTC"}
    [] OTHER -> {"STX", "SBTC"}

(* Name and creation height are left out. *)
GetVaultMeta(v) == vaults[v]

GetRiskConfig(v) == vaultConfig[v].params

GetPool(v, a) ==
  [idle |-> idleBalances[v][a], total |-> totalBalances[v][a], supply |-> supplies[v][a]]

GetPosition(v, a, holder) ==
  LET claim == Claim(balances[v][a][holder], supplies[v][a], totalBalances[v][a]) IN
  [shares |-> balances[v][a][holder], claim |-> claim,
   redeemable |-> IF claim < idleBalances[v][a] THEN claim ELSE idleBalances[v][a]]

(* getStxBalance and getSbtcBalance, which useBalances asks for together. *)
GetBalances(p) == [a \in Assets |-> holdings[IF a = "STX" THEN "STX" ELSE AppToken][p]]

IsProtocolPaused == protocolPaused

GetProtocolLimits == protocolLimits

SbtcApproved == approvedSbtc # Absent

(* The strategies with ids from 1 to the first that has no entry. *)
ListStrategies ==
  {s \in StrategyIds : s \in 1 .. 25 /\ \A r \in 1 .. s : strategies[r] # Absent}

GetAllocations(v, mode) ==
  [s \in {r \in ListStrategies : strategies[r].asset \in SupportedAssets(mode)} |->
     strategyAllocations[v][s][strategies[s].asset]]

(* Fault: computed by the app, over the pool as the deposit will leave it. *)
PreviewAfterCredit(v, a, amount) ==
  IF DepositAccepted(supplies[v][a], totalBalances[v][a], amount, MinInitialDeposit[a])
  THEN DepositShares(supplies[v][a], totalBalances[v][a] + amount, amount)
  ELSE Refused

(* A preview is the contract's own arithmetic: a number, or its error. *)
PreviewDeposit(v, a, amount) ==
  IF DepositAccepted(supplies[v][a], totalBalances[v][a], amount, MinInitialDeposit[a])
  THEN DepositShares(supplies[v][a], totalBalances[v][a], amount)
  ELSE Refused

PreviewRedeem(v, a, shares) ==
  IF RedeemAccepted(shares, supplies[v][a], totalBalances[v][a])
  THEN RedeemAssets(shares, supplies[v][a], totalBalances[v][a])
  ELSE Refused

(* An index is read as its count and then, in parallel, one id per entry. *)
IndexedIds(index, who) == {index[who][i] : i \in DOMAIN index[who]}

GetOwnerVaultIds(owner) == IndexedIds(ownerVaults, owner)

GetHolderVaultIds(holder) == IndexedIds(holderVaults, holder)

-----------------------------------------------------------------------------
VARIABLES
  account,      \* stxAddress, or Absent
  page,         \* the page that is open
  form,         \* the state of the open page's form, Absent while nothing is mounted
  facts,        \* what the open page has read of the chain beside the overview
  overview,     \* Loading, Missing, or what getVaultOverview returned
  loadError,    \* the last refresh failed
  refreshes,    \* refreshes[i]: the i-th refresh; seq.current is the last index
  sent,         \* sent[i]: the i-th transaction a page has submitted
  incidents

sessionVars == <<account, page, form, facts, overview, loadError, refreshes, sent, incidents>>

Loaded == overview \notin {Loading, Missing}

(* The deposit, redeem and settings pages; the creation page and the       *)
(* dashboard stand alone.                                                  *)
BelowLayout == page \notin {"create", "dashboard"}

Incident == incidents < MaxIncidents /\ incidents' = incidents + 1

Calm == UNCHANGED incidents

NewFacts == [paused |-> Unknown, approved |-> Unknown, limits |-> Unknown,
             balances |-> Unknown, awaited |-> TRUE]

(* The first render of a page below the layout, over the overview o. *)
NewForm(tab, o) ==
  IF tab = "settings"
  THEN [values |-> o.risk, open |-> o.meta.openDeposits, accepted |-> o.risk.autonomousEnabled]
  ELSE [asset |-> IF "STX" \in SupportedAssets(o.meta.assets) THEN "STX" ELSE "SBTC",
        amount |-> 0, preview |-> Unknown, done |-> 0]

(* The effect that previews depends on the pool's total and supply. *)
Repriced(o) ==
  IF /\ page # "settings" /\ form.amount > 0
     /\ \/ o.pools[form.asset].total # overview.pools[form.asset].total
        \/ o.pools[form.asset].supply # overview.pools[form.asset].supply
  THEN [form EXCEPT !.preview = Loading]
  ELSE form

-----------------------------------------------------------------------------
(* The overview.  seen is no part of the code's state: it is the set of    *)
(* the session's transactions that were on chain when the refresh began.   *)

NewRefresh(viewer) ==
  [viewer |-> viewer, meta |-> Unknown, open |-> TRUE,
   seen |-> {i \in DOMAIN sent : sent[i].ledger = "success"}]

Closed(r) == [NewRefresh(r.viewer) EXCEPT !.open = FALSE, !.seen = {}]

(* refresh() as the render with this viewer has it. *)
Refresh(viewer) == refreshes' = Append(refreshes, NewRefresh(viewer))

(* Fault: the sequence number is not compared. *)
AnyRefresh(i) == i \in DOMAIN refreshes

(* mine === seq.current *)
IsNewest(i) == i = Len(refreshes)

(* A refresh that was superseded ends without a trace; the first overview  *)
(* of a viewer mounts the page.                                            *)
EndRefresh(i, result) ==
  /\ refreshes' = [refreshes EXCEPT ![i] = Closed(@)]
  /\ IF ~IsNewest(i) THEN UNCHANGED <<overview, loadError, form, facts>>
     ELSE /\ overview' = result
          /\ loadError' = FALSE
          /\ form' = IF result = Missing THEN Absent
                     ELSE IF form = Absent THEN NewForm(page, result) ELSE Repriced(result)
          /\ facts' = IF form = Absent THEN NewFacts ELSE facts

Reading(i) == i \in DOMAIN refreshes /\ refreshes[i].open

ReadMeta(i) ==
  /\ Reading(i) /\ refreshes[i].meta = Unknown
  /\ IF GetVaultMeta(Shown) = Absent
     THEN EndRefresh(i, Missing)
     ELSE /\ refreshes' = [refreshes EXCEPT ![i].meta = GetVaultMeta(Shown)]
          /\ UNCHANGED <<overview, loadError, form, facts>>
  /\ UNCHANGED <<account, page, sent>> /\ Calm

(* What getVaultOverview returns to the refresh r. *)
WholeOverview(r) ==
  LET assets == SupportedAssets(r.meta.assets)
      mine == IF r.viewer = Absent THEN {} ELSE assets
  IN [viewer |-> r.viewer, meta |-> r.meta, risk |-> GetRiskConfig(Shown),
      pools |-> [a \in assets |-> GetPool(Shown, a)],
      positions |-> [a \in mine |-> GetPosition(Shown, a, r.viewer)],
      allocations |-> GetAllocations(Shown, r.meta.assets), seen |-> r.seen]

(* Once the vault's entry is known, the calls that are in flight together  *)
(* and the allocations after them, as one step: nothing here compares one  *)
(* part of the rest with another.                                          *)
ReadRest(i) ==
  /\ Reading(i) /\ refreshes[i].meta # Unknown
  /\ EndRefresh(i, WholeOverview(refreshes[i]))
  /\ UNCHANGED <<account, page, sent>> /\ Calm

(* Any call that throws ends the refresh; what is shown stays. *)
ReadFails(i) ==
  /\ Reading(i)
  /\ refreshes' = [refreshes EXCEPT ![i] = Closed(@)]
  /\ loadError' = IF IsNewest(i) THEN TRUE ELSE loadError
  /\ UNCHANGED <<account, page, form, facts, overview, sent>> /\ Incident

(* The button of the layout when there is nothing to show. *)
TryAgain ==
  /\ overview = Loading /\ loadError
  /\ Refresh(account)
  /\ UNCHANGED <<account, page, form, facts, overview, loadError, sent>> /\ Incident

-----------------------------------------------------------------------------
(* The account, and the tabs of the layout. *)

Unmounted == [i \in DOMAIN sent |-> [sent[i] EXCEPT !.shown = FALSE]]

(* Below the layout the page goes, and comes back with the overview of the *)
(* new viewer; the continuation of its submit goes on behind its back.     *)
(* The other pages stay.                                                   *)
SetAccount(who) ==
  /\ account' = who
  /\ IF ~BelowLayout THEN UNCHANGED <<form, facts, overview, refreshes, sent>>
     ELSE /\ form' = Absent /\ facts' = NewFacts
          /\ overview' = Loading
          /\ Refresh(who)
          /\ sent' = Unmounted
  /\ UNCHANGED <<page, loadError>> /\ Incident

Connect == \E p \in Wallets \ {account} : SetAccount(p)

Disconnect == account # Absent /\ SetAccount(Absent)

OpenTab(tab) ==
  /\ Loaded /\ BelowLayout /\ page # tab
  /\ page' = tab
  /\ form' = NewForm(tab, overview) /\ facts' = NewFacts
  /\ sent' = Unmounted
  /\ UNCHANGED <<account, overview, loadError, refreshes>> /\ Incident

-----------------------------------------------------------------------------
(* What a page reads for itself when it mounts; a read that fails leaves   *)
(* what was there (useBalances) or null (the others).                      *)

ReadFact(what, value) ==
  /\ form # Absent /\ facts[what] = Unknown
  /\ facts' = [facts EXCEPT ![what] = value]
  /\ UNCHANGED <<account, page, form, overview, loadError, refreshes, sent>> /\ Calm

ReadFacts ==
  \/ page = "deposit" /\ ReadFact("paused", IsProtocolPaused)
  \/ page = "deposit" /\ ReadFact("approved", SbtcApproved)
  \/ page \in {"settings", "create"} /\ ReadFact("limits", GetProtocolLimits)

ReadBalances ==
  /\ page = "deposit" /\ form # Absent /\ account # Absent /\ facts.awaited
  /\ facts' = [facts EXCEPT !.balances = GetBalances(account), !.awaited = FALSE]
  /\ UNCHANGED <<account, page, form, overview, loadError, refreshes, sent>> /\ Calm

-----------------------------------------------------------------------------
(* Transactions.  A transaction that a page submits lives on, with the     *)
(* continuation that awaits it, when the page is left: shown says whether  *)
(* the page that sent it is still there to show its phase.  The code's     *)
(* phase "failed" is three here, as the error it shows tells them apart:   *)
(* "unsent" (run's submit threw), "failed" and "timeout".                  *)

Submission(kind, args) ==
  [kind |-> kind, args |-> args, viewer |-> account, shown |-> TRUE, phase |-> "signing",
   ledger |-> "unsent", signer |-> Absent, got |-> 0, readBack |-> 0]

(* The phase of the hook that sends a kind of call: that of its last run.  *)
PhaseOf(kind) ==
  LET mine == {i \in DOMAIN sent : sent[i].kind = kind /\ sent[i].shown}
  IN IF mine = {} THEN "idle" ELSE sent[Max(mine)].phase

Busy(kind) == PhaseOf(kind) \in {"signing", "confirming"}

(* run() begins. *)
Send(kind, args) ==
  /\ Len(sent) < MaxSent
  /\ ~Busy(kind)
  /\ sent' = Append(sent, Submission(kind, args))
  /\ IF sent = <<>> THEN Calm ELSE Incident

SetSent(i, e) == sent' = [sent EXCEPT ![i] = e]

(* The wallet signs with the account that is selected in it, which the app *)
(* does not ask for, and broadcasts.                                       *)
WalletSigns(i, p) ==
  /\ sent[i].phase = "signing"
  /\ SetSent(i, [sent[i] EXCEPT !.phase = "confirming", !.ledger = "pending", !.signer = p])
  /\ UNCHANGED <<account, page, form, facts, overview, loadError, refreshes>> /\ Calm

(* The user refuses, or the reply comes without a transaction id although  *)
(* the wallet did broadcast: either way run() fails.                       *)
WalletFails(i, p) ==
  /\ sent[i].phase = "signing"
  /\ \/ SetSent(i, [sent[i] EXCEPT !.phase = "unsent"])
     \/ SetSent(i, [sent[i] EXCEPT !.phase = "unsent", !.ledger = "pending", !.signer = p])
  /\ UNCHANGED <<account, page, form, facts, overview, loadError, refreshes>> /\ Incident

(* Fault: a 404 or a pending status counts as a failure. *)
NotYetExecuted(e) == e.ledger # "success"

(* tx_status abort_* or dropped*; a 404 or a pending status is polled again. *)
NotExecuted(e) == e.ledger \in {"aborted", "dropped"}

(* The transaction is found executed: every submit but create's goes on    *)
(* with the refresh, and deposit and redeem with the balances, of the      *)
(* viewer for whom it was rendered.                                        *)
PollSucceeds(i) ==
  /\ sent[i].phase = "confirming" /\ sent[i].ledger = "success"
  /\ IF sent[i].kind = "create"
     THEN SetSent(i, [sent[i] EXCEPT !.phase = "confirmed"]) /\ UNCHANGED <<refreshes, facts>>
     ELSE /\ Refresh(sent[i].viewer)
          /\ SetSent(i, [sent[i] EXCEPT !.phase = "confirmed", !.readBack = Len(refreshes')])
          /\ facts' = IF sent[i].shown THEN [facts EXCEPT !.awaited = TRUE] ELSE facts
  /\ UNCHANGED <<account, page, form, overview, loadError>> /\ Calm

PollFails(i) ==
  /\ sent[i].phase = "confirming" /\ NotExecuted(sent[i])
  /\ SetSent(i, [sent[i] EXCEPT !.phase = "failed"])
  /\ UNCHANGED <<account, page, form, facts, overview, loadError, refreshes>> /\ Calm

(* Fault: the deadline is only looked at when there is a final status. *)
WaitEndsWhenFinal(i) ==
  /\ sent[i].phase = "confirming" /\ sent[i].ledger # "pending"
  /\ SetSent(i, [sent[i] EXCEPT !.phase = "timeout"])
  /\ UNCHANGED <<account, page, form, facts, overview, loadError, refreshes>> /\ Calm

(* The deadline of waitForTxResult passes between two polls. *)
WaitTimesOut(i) ==
  /\ sent[i].phase = "confirming"
  /\ SetSent(i, [sent[i] EXCEPT !.phase = "timeout"])
  /\ UNCHANGED <<account, page, form, facts, overview, loadError, refreshes>> /\ Calm
=============================================================================
