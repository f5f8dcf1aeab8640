------------------------------ MODULE WebProofs ------------------------------
(***************************************************************************)
(* Proofs about the web app beside the chain: for any account and page it  *)
(* begins with, over any chain the protocol can be in, with any number of  *)
(* refreshes, loads and transactions in any order.                         *)
(*                                                                         *)
(* ChainInv is what the contracts keep, SessionInv the types of a session. *)
(* Each theorem rests on these two and on invariants of its own: FreshInv  *)
(* of refreshes, OutcomeInv of transactions, TreasuryInv of the loads of   *)
(* the dashboard's list, ViewInv of what a page checks its input against,  *)
(* CreationInv of the creation form.                                       *)
(***************************************************************************)
EXTENDS WebProperties, BooksProofs, SequenceTheorems

-----------------------------------------------------------------------------
(* A session over any sound chain, of any account and page, whatever other *)
(* users do to the contracts in between.                                   *)
AnySession == SoundChain /\ SessionStart /\ [][WebNext]_webVars

(* What a step of the web app can do, component by component.              *)

(* The chain moves by a call of a page's transaction or by other users. *)
ChainMoves ==
  \/ Next /\ UNCHANGED sent
  \/ \E i \in DOMAIN sent : Execute(i)
  \/ UNCHANGED vars

(* What happens to a transaction. *)
TransactionMoves ==
  \/ UNCHANGED sent
  \/ sent' = Unmounted
  \/ SubmitDeposit \/ SubmitRedeem \/ SaveMeta \/ SaveRisk \/ TogglePause \/ Create
  \/ \E i \in DOMAIN sent : Following(i) \/ Execute(i) \/ Abort(i) \/ Drop(i)

LEMMA StepsOfChain == [WebNext]_webVars => ChainMoves
  BY DEF WebNext, ChainMoves, webVars, OthersMove, Abort, Drop

LEMMA StepsOfTransactions == [WebNext]_webVars => TransactionMoves
<1>1. CASE Reads
  BY <1>1 DEF Reads, ReadMeta, ReadRest, ReadFails, TryAgain, ReadFacts, ReadFact, ReadBalances,
     PreviewArrives, PreviewFails, ChangesFormOnly, TransactionMoves
<1>2. CASE Editor
  BY <1>2 DEF Editor, ChooseAsset, EnterAmount, ChoosePool, EnterShares, StartOver, EditSettings,
     ChoosePurpose, EnterName, ChooseMode, ChooseAccess, EnterRisk, ChooseAutonomy,
     Continue, Back, BackToReview, Choose, Enter, EditForm, ChangesFormOnly, TransactionMoves
<1>3. CASE Navigation
  BY <1>3 DEF Navigation, Connect, Disconnect, SetAccount, OpenTab, TransactionMoves
<1>4. QED
  BY <1>1, <1>2, <1>3 DEF WebNext, webVars, sessionVars, Dashboard, OthersMove, TransactionMoves

-----------------------------------------------------------------------------
(* The chain under a session.                                              *)

Pages == {"deposit", "redeem", "settings", "create", "dashboard"}

Kinds == {"deposit", "redeem", "create", "meta", "risk", "pause"}

Phases == {"signing", "confirming", "confirmed", "unsent", "failed", "timeout"}

Ledgers == {"unsent", "pending", "success", "aborted", "dropped"}

(* What the pages pass to a call. *)
ArgsOf(kind) ==
  CASE kind \in {"deposit", "redeem"} -> [asset: Assets, amount: Nat, shown: Nat]
    [] kind = "create" -> [purpose: Nat, mode: Nat, open: BOOLEAN, params: RiskParams]
    [] kind = "meta" -> [open: BOOLEAN]
    [] kind = "risk" -> RiskParams
    [] kind = "pause" -> [pause: BOOLEAN]

AnyArgs == UNION {ArgsOf(k) : k \in Kinds}

Transactions ==
  [kind: Kinds, args: AnyArgs, viewer: Wallets, shown: BOOLEAN,
   phase: Phases, ledger: Ledgers, signer: Wallets \cup {Absent}, got: Nat, readBack: Nat]

(* The arguments of a transaction fit its kind, and what the chain has was *)
(* signed by an account of the wallet.                                     *)
WellSent(e) ==
  /\ e.args \in ArgsOf(e.kind)
  /\ e.ledger # "unsent" => e.signer \in Wallets
  /\ e.phase = "signing" => e.ledger = "unsent"

SentOK == sent \in Seq(Transactions) /\ \A i \in DOMAIN sent : WellSent(sent[i])

LEMMA CallsAreAny ==
  ASSUME SentOK, NEW i \in DOMAIN sent, Execute(i)
  PROVE  AnyPoolStep \/ AnyVaultConfigStep
<1> DEFINE e == sent[i]
<1>1. /\ e.kind \in Kinds /\ e.args \in ArgsOf(e.kind) /\ e.signer \in Principals
      /\ Shown \in VaultIds /\ AppToken \in SbtcTokens
  <2>1. e \in Transactions /\ WellSent(e) /\ e.ledger = "pending"
    BY DEF SentOK, Execute, Pending
  <2>2. e.kind \in Kinds /\ e.args \in ArgsOf(e.kind) /\ e.signer \in Wallets
    BY <2>1 DEF WellSent, Transactions
  <2>3. QED
    BY <2>2, SessionAssumption, ReadAssumption
<1>2. Call(e)
  BY DEF Execute
<1> HIDE DEF e
<1>3. CASE DepositCall(e) \/ RedeemCall(e)
  <2>1. e.args.asset \in Assets /\ e.args.amount \in Nat
    BY <1>1, <1>3 DEF ArgsOf, DepositCall, RedeemCall
  <2>2. PoolCall(e.signer, Shown, e.args.amount)
    BY <1>1, <1>3 DEF DepositCall, RedeemCall, PoolCall
  <2>3. UNCHANGED <<height, adminVars, executors, strategyVars>>
    BY <1>3 DEF DepositCall, RedeemCall, AfterPoolCall
  <2>4. QED
    BY <1>1, <2>1, <2>2, <2>3 DEF AnyPoolStep
<1>4. CASE CreateCall(e)
  <2>1. e.args.purpose \in Nat /\ e.args.mode \in Nat /\ e.args.open \in BOOLEAN
        /\ e.args.params \in RiskParams
    BY <1>1, <1>4 DEF ArgsOf, CreateCall
  <2>2. QED
    BY <1>1, <1>4, <2>1 DEF CreateCall, AfterConfigCall, AnyVaultConfigStep
<1>5. CASE MetaCall(e)
  <2>1. e.args.open \in BOOLEAN
    BY <1>1, <1>5 DEF ArgsOf, MetaCall
  <2>2. QED
    BY <1>1, <1>5, <2>1 DEF MetaCall, AfterConfigCall, AnyVaultConfigStep
<1>6. CASE RiskCall(e)
  <2>1. e.args \in RiskParams
    BY <1>1, <1>6 DEF ArgsOf, RiskCall
  <2>2. QED
    BY <1>1, <1>6, <2>1 DEF RiskCall, AfterConfigCall, AnyVaultConfigStep
<1>7. CASE PauseCall(e)
  BY <1>1, <1>7 DEF PauseCall, AfterConfigCall, AnyVaultConfigStep
<1>8. QED
  BY <1>2, <1>3, <1>4, <1>5, <1>6, <1>7 DEF Call

(* To the contracts, a session is wallets that call them. *)
LEMMA SessionIsAny == SentOK /\ [WebNext]_webVars => [AnyNext]_vars
<1> SUFFICES ASSUME SentOK, [WebNext]_webVars
             PROVE  [AnyNext]_vars
  OBVIOUS
<1>1. CASE \E i \in DOMAIN sent : Execute(i)
  BY <1>1, CallsAreAny DEF AnyNext
<1>2. QED
  BY <1>1, StepsOfChain DEF ChainMoves, AnyNext

(* What the session relies on of the chain. *)
ChainInv ==
  PoolInv /\ SumsInv /\ BooksInv /\ IndexesComplete /\ SharesHaveAVault /\ ListedVaultsExist

LEMMA SoundChainIs == SoundChain => ChainInv
<1> SUFFICES ASSUME SoundChain
             PROVE  ChainInv
  OBVIOUS
<1>1. /\ TypeOK /\ PoolParity /\ PoolSplit /\ AllocationsHaveAHome /\ StrategiesDense
      /\ ConfigMirrorsVaults /\ IndexesComplete /\ SharesHaveAVault /\ ListedVaultsExist
      /\ SumsInv
  BY DEF SoundChain, CustodyBooks, AllocationBooks, VaultBooks, SumsInv
<1>2. IdleWithinTotal
  <2>1. \A v \in VaultIds, a \in Assets : AllocationSum(v, a) \in Nat
    BY <1>1, SumTypes DEF SumsAreNat
  <2>2. \A v \in VaultIds, a \in Assets : totalBalances[v][a] = idleBalances[v][a] + AllocationSum(v, a)
    BY <1>1 DEF PoolSplit, AllocationSum
  <2>3. \A v \in VaultIds, a \in Assets : idleBalances[v][a] \in Nat
    BY <1>1 DEF TypeOK, VaultTypeOK
  <2> HIDE DEF AllocationSum
  <2>4. QED
    BY <2>1, <2>2, <2>3 DEF IdleWithinTotal
<1>3. QED
  BY <1>1, <1>2 DEF ChainInv, PoolInv, BooksInv

LEMMA StepChain == ChainInv /\ SentOK /\ [WebNext]_webVars => ChainInv'
  BY SessionIsAny, AnyStepPools, AnyStepSums, AnyStepBooks, AnyStepIndexes, AnyStepShares,
     AnyStepListed DEF ChainInv

-----------------------------------------------------------------------------
(* The session.                                                            *)

AccountOK == account \in Wallets \cup {Absent} /\ page \in Pages

Answers == Nat \cup {Unknown, Loading, Refused}

(* What the forms of a page can be. *)
FundForms == [asset: Assets, amount: Nat, preview: Answers, done: Nat]

SettingsForms == [values: RiskParams, open: BOOLEAN, accepted: BOOLEAN]

CreateForms ==
  [step: Nat, purpose: 0 .. 5 \cup {Absent}, name: {"none", "suggested", "entered", "unusable"},
   mode: 1 .. 3, open: BOOLEAN, values: RiskParams, accepted: BOOLEAN]

Forms(p) ==
  CASE p \in {"deposit", "redeem"} -> FundForms
    [] p = "settings" -> SettingsForms
    [] p = "create" -> CreateForms
    [] p = "dashboard" -> {}

FormOK == form # Absent => form \in Forms(page)

Refreshes ==
  [viewer: Wallets \cup {Absent}, meta: Vault \cup {Unknown}, open: BOOLEAN, seen: SUBSET Nat]

(* A refresh that knows the vault's entry knows that the vault exists. *)
RefreshesOK ==
  /\ refreshes \in Seq(Refreshes)
  /\ \A i \in DOMAIN refreshes : refreshes[i].meta # Unknown => vaults[Shown] # Absent

OverviewOK == Loaded => overview.meta \in Vault /\ overview.risk \in RiskParams

(* The creation page and the dashboard follow no vault's overview. *)
AloneOK ==
  ~BelowLayout =>
    refreshes = <<>> /\ loadError = FALSE /\ \A i \in DOMAIN sent : sent[i].kind = "create"

SessionInv == AccountOK /\ SentOK /\ FormOK /\ RefreshesOK /\ OverviewOK /\ AloneOK

-----------------------------------------------------------------------------
(* What becomes of a transaction. *)

SameTransaction(e, f) == f.kind = e.kind /\ f.args = e.args /\ f.viewer = e.viewer

Untouched(e, f) ==
  f.phase = e.phase /\ f.ledger = e.ledger /\ f.signer = e.signer /\ f.got = e.got

(* The app shows another phase of it. *)
Followed(e, f) ==
  /\ f.ledger = e.ledger /\ f.signer = e.signer /\ f.got = e.got
  /\ \/ e.phase = "signing" /\ f.phase = "unsent"
     \/ /\ e.phase = "confirming"
        /\ \/ f.phase = "confirmed" /\ e.ledger = "success"
           \/ f.phase = "failed" /\ e.ledger \in {"aborted", "dropped"}
           \/ f.phase = "timeout"

Broadcast(e, f) ==
  /\ e.phase = "signing" /\ f.phase \in {"confirming", "unsent"}
  /\ f.ledger = "pending" /\ f.got = e.got

(* A miner takes it. *)
Taken(e, f) ==
  /\ f.phase = e.phase /\ f.signer = e.signer
  /\ e.ledger = "pending" /\ f.ledger \in {"success", "aborted", "dropped"}

Progress(e, f) ==
  SameTransaction(e, f) /\ (Untouched(e, f) \/ Followed(e, f) \/ Broadcast(e, f) \/ Taken(e, f))

Progresses ==
  /\ Len(sent') \in {Len(sent), Len(sent) + 1}
  /\ \A i \in DOMAIN sent : Progress(sent[i], sent'[i])
  /\ \A i \in DOMAIN sent :
       /\ sent'[i].ledger = "success" => sent[i].ledger = "success" \/ Execute(i)
       /\ sent'[i].phase = "confirmed" => sent[i].phase = "confirmed" \/ PollSucceeds(i)
  /\ \A i \in DOMAIN sent' \ DOMAIN sent :
       /\ sent'[i].phase = "signing" /\ sent'[i].ledger = "unsent"
       /\ ~BelowLayout => sent'[i].kind = "create"

LEMMA SentDomain == SentOK => Len(sent) \in Nat /\ DOMAIN sent = 1 .. Len(sent)
  BY DEF SentOK

(* A transaction that was followed a step further is still one. *)
LEMMA TransactionFilledIn ==
  ASSUME NEW e \in Transactions, NEW ph \in Phases, NEW p \in Wallets
  PROVE  /\ [e EXCEPT !.phase = ph] \in Transactions
         /\ [e EXCEPT !.phase = ph, !.ledger = "pending", !.signer = p] \in Transactions
<1>1. "pending" \in Ledgers
  BY DEF Ledgers
<1>2. QED
  BY <1>1 DEF Transactions

LEMMA UnmountedKeeps ==
  ASSUME SentOK, sent' = Unmounted
  PROVE  SentOK' /\ Progresses
<1>1. Len(sent) \in Nat /\ DOMAIN sent = 1 .. Len(sent)
  BY SentDomain
<1>2. \A i \in DOMAIN sent : sent[i] \in Transactions /\ WellSent(sent[i])
  BY DEF SentOK
<1>3. /\ DOMAIN sent' = DOMAIN sent
      /\ \A i \in DOMAIN sent : sent'[i] = [sent[i] EXCEPT !.shown = FALSE]
  BY DEF Unmounted
<1>4. \A i \in DOMAIN sent : sent'[i] \in Transactions
  <2>1. SUFFICES ASSUME NEW i \in DOMAIN sent PROVE sent'[i] \in Transactions
    OBVIOUS
  <2>2. sent[i] \in Transactions /\ sent'[i] = [sent[i] EXCEPT !.shown = FALSE]
    BY <1>2, <1>3
  <2>3. [sent[i] EXCEPT !.shown = FALSE] \in Transactions
    BY <2>2 DEF Transactions
  <2>4. QED
    BY <2>2, <2>3
<1>5. sent' \in [1 .. Len(sent) -> Transactions]
  BY <1>1, <1>4 DEF Unmounted
<1>6. sent' \in Seq(Transactions) /\ Len(sent') = Len(sent)
  BY <1>1, <1>5
<1>7. \A i \in DOMAIN sent :
        SameTransaction(sent[i], sent'[i]) /\ Untouched(sent[i], sent'[i])
  BY <1>2, <1>3 DEF Transactions, SameTransaction, Untouched
<1>8. \A i \in DOMAIN sent : WellSent(sent'[i])
  BY <1>2, <1>7 DEF WellSent, SameTransaction, Untouched
<1>9. QED
  BY <1>1, <1>3, <1>6, <1>7, <1>8 DEF SentOK, Progresses, Progress, Untouched

LEMMA AppendKeeps ==
  ASSUME SentOK, NEW kind \in Kinds, NEW args \in ArgsOf(kind), account \in Wallets,
         ~BelowLayout => kind = "create", sent' = Append(sent, Submission(kind, args))
  PROVE  SentOK' /\ Progresses
<1> DEFINE e == Submission(kind, args)
<1>1. Len(sent) \in Nat /\ DOMAIN sent = 1 .. Len(sent)
  BY SentDomain
<1>2. /\ e \in Transactions /\ WellSent(e) /\ e.phase = "signing" /\ e.ledger = "unsent"
      /\ e.kind = kind
  <2>1. args \in AnyArgs
    BY DEF AnyArgs
  <2>2. QED
    BY <2>1 DEF Submission, Transactions, WellSent, Phases, Ledgers
<1> HIDE DEF e
<1>3. sent' = Append(sent, e)
  BY DEF e
<1>4. /\ sent' \in Seq(Transactions) /\ Len(sent') = Len(sent) + 1
      /\ DOMAIN sent' = 1 .. Len(sent) + 1
      /\ \A i \in DOMAIN sent : sent'[i] = sent[i]
      /\ sent'[Len(sent) + 1] = e
  BY <1>1, <1>2, <1>3 DEF SentOK
<1>5. \A i \in DOMAIN sent' : i \in DOMAIN sent \/ i = Len(sent) + 1
  BY <1>1, <1>4
<1>6. SentOK'
  BY <1>2, <1>4, <1>5 DEF SentOK
<1>7. QED
  BY <1>2, <1>4, <1>5, <1>6 DEF Progresses, Progress, SameTransaction, Untouched

LEMMA EntryKeeps ==
  ASSUME SentOK, NEW i \in DOMAIN sent, NEW e \in Transactions, WellSent(e),
         SetSent(i, e), Progress(sent[i], e),
         e.ledger = "success" => sent[i].ledger = "success" \/ Execute(i),
         e.phase = "confirmed" => sent[i].phase = "confirmed" \/ PollSucceeds(i)
  PROVE  SentOK' /\ Progresses
<1>1. Len(sent) \in Nat /\ DOMAIN sent = 1 .. Len(sent)
  BY SentDomain
<1>2. /\ sent' \in Seq(Transactions) /\ Len(sent') = Len(sent)
      /\ DOMAIN sent' = DOMAIN sent
      /\ sent'[i] = e /\ \A j \in DOMAIN sent \ {i} : sent'[j] = sent[j]
  BY <1>1 DEF SentOK, SetSent
<1>3. SentOK'
  BY <1>2 DEF SentOK
<1>4. QED
  BY <1>2, <1>3 DEF Progresses, Progress, SameTransaction, Untouched

(* What the pages submit. *)
LEMMA SubmissionsFit ==
  ASSUME SessionInv,
         SubmitDeposit \/ SubmitRedeem \/ SaveMeta \/ SaveRisk \/ TogglePause \/ Create
  PROVE  /\ account \in Wallets
         /\ \E kind \in Kinds : \E args \in ArgsOf(kind) :
              sent' = Append(sent, Submission(kind, args)) /\ (~BelowLayout => kind = "create")
<1>1. AccountOK /\ FormOK /\ OverviewOK
  BY DEF SessionInv
<1>2. CASE SubmitDeposit \/ SubmitRedeem
  <2>1. /\ page \in {"deposit", "redeem"} /\ form # Absent /\ account # Absent /\ PreviewShown
        /\ Send(page, [asset |-> form.asset, amount |-> form.amount, shown |-> form.preview])
    BY <1>2 DEF SubmitDeposit, SubmitRedeem, CanDeposit, CanRedeem, Editing, OnPage
  <2>2. form \in Forms(page)
    BY <1>1, <2>1 DEF FormOK
  <2>3. form.asset \in Assets /\ form.amount \in Nat /\ form.preview \in Nat
    BY <2>1, <2>2 DEF Forms, FundForms, PreviewShown
  <2>4. [asset |-> form.asset, amount |-> form.amount, shown |-> form.preview] \in ArgsOf(page)
    BY <2>1, <2>3 DEF ArgsOf
  <2>5. QED
    BY <1>1, <2>1, <2>4 DEF Send, Kinds, AccountOK, BelowLayout
<1>3. CASE SaveMeta \/ SaveRisk \/ TogglePause
  <2>1. page = "settings" /\ form # Absent /\ account # Absent
    BY <1>3 DEF SaveMeta, SaveRisk, TogglePause, Settling, OnPage
  <2>2. form.values \in RiskParams /\ form.open \in BOOLEAN
    BY <1>1, <2>1 DEF FormOK, Forms, SettingsForms
  <2>3. \E kind \in Kinds : \E args \in ArgsOf(kind) : Send(kind, args)
    <3>1. CASE SaveMeta
      <4>1. [open |-> form.open] \in ArgsOf("meta")
        BY <2>2 DEF ArgsOf
      <4>2. QED
        BY <3>1, <4>1 DEF SaveMeta, Kinds
    <3>2. CASE SaveRisk
      <4>1. form.values \in ArgsOf("risk")
        BY <2>2 DEF ArgsOf
      <4>2. QED
        BY <3>2, <4>1 DEF SaveRisk, Kinds
    <3>3. CASE TogglePause
      <4>1. [pause |-> ~overview.meta.paused] \in ArgsOf("pause")
        BY DEF ArgsOf
      <4>2. QED
        BY <3>3, <4>1 DEF TogglePause, Kinds
    <3>4. QED
      BY <1>3, <3>1, <3>2, <3>3
  <2>4. QED
    BY <1>1, <2>1, <2>3 DEF Send, AccountOK, BelowLayout
<1>4. CASE Create
  <2>1. /\ page = "create" /\ form # Absent /\ account # Absent /\ form.purpose # Absent
        /\ Send("create", Reviewed)
    BY <1>4 DEF Create, CanCreate, OnStep, OnPage
  <2>2. /\ form.purpose \in Nat /\ form.mode \in Nat /\ form.open \in BOOLEAN
        /\ form.values \in RiskParams
    BY <1>1, <2>1 DEF FormOK, Forms, CreateForms
  <2>3. Reviewed \in ArgsOf("create")
    BY <2>2 DEF Reviewed, ArgsOf
  <2>4. QED
    BY <1>1, <2>1, <2>3 DEF Send, Kinds, AccountOK
<1>5. QED
  BY <1>2, <1>3, <1>4

(* What an executed call returns, at a price of one. *)
LEMMA OutcomeIs ==
  ASSUME ChainInv, SentOK, NEW i \in DOMAIN sent, Execute(i)
  PROVE  /\ Outcome(sent[i]) \in Nat
         /\ sent[i].kind \in {"deposit", "redeem"} => Outcome(sent[i]) = sent[i].args.amount
<1> DEFINE e == sent[i]
<1>1. e.kind \in Kinds /\ e.args \in ArgsOf(e.kind) /\ Shown \in VaultIds
  <2>1. e \in Transactions /\ WellSent(e)
    BY DEF SentOK
  <2>2. QED
    BY <2>1, SessionAssumption DEF WellSent, Transactions
<1>2. Call(e)
  BY DEF Execute
<1> HIDE DEF e
<1>3. CASE e.kind \in {"deposit", "redeem"}
  <2>1. e.args.asset \in Assets /\ e.args.amount \in Nat
    BY <1>1, <1>3 DEF ArgsOf
  <2> DEFINE s == supplies[Shown][e.args.asset]
  <2>2. s \in Nat /\ totalBalances[Shown][e.args.asset] = s
    BY <1>1, <2>1 DEF ChainInv, PoolInv, PoolParity, TypeOK, ReceiptTypeOK
  <2>3. e.kind = "redeem" => s > 0
    <3>1. e.kind = "redeem" => RedeemCall(e)
      BY <1>2 DEF Call, DepositCall, CreateCall, MetaCall, RiskCall, PauseCall
    <3>2. QED
      BY <2>1, <3>1 DEF RedeemCall, RedeemStx, RedeemSbtc, Redeem, RedeemAccepted, Assets
  <2> HIDE DEF s
  <2>4. /\ e.kind = "deposit" => Outcome(e) = DepositShares(s, s, e.args.amount)
        /\ e.kind = "redeem" => Outcome(e) = RedeemAssets(e.args.amount, s, s)
    BY <2>2 DEF Outcome, s
  <2>5. QED
    BY <1>3, <2>1, <2>2, <2>3, <2>4, PriceOfOne DEF e
<1>4. CASE e.kind \notin {"deposit", "redeem"}
  <2>1. nextVaultId \in Nat
    BY ChainAssumption DEF ChainInv, PoolInv, TypeOK, VaultTypeOK
  <2>2. Outcome(e) \in Nat
    BY <1>4, <2>1 DEF Outcome
  <2>3. QED
    BY <1>4, <2>2 DEF e
<1>5. QED
  BY <1>3, <1>4

LEMMA FollowingKeeps ==
  ASSUME SessionInv, NEW i \in DOMAIN sent, Following(i)
  PROVE  SentOK' /\ Progresses
<1>1. SentOK /\ sent[i] \in Transactions /\ WellSent(sent[i])
  BY DEF SessionInv, SentOK
<1>2. ASSUME NEW p \in Wallets, WalletSigns(i, p) \/ WalletFails(i, p)
      PROVE  SentOK' /\ Progresses
  <2>1. PICK e : /\ SetSent(i, e)
                 /\ \/ e = [sent[i] EXCEPT !.phase = "confirming", !.ledger = "pending", !.signer = p]
                    \/ e = [sent[i] EXCEPT !.phase = "unsent"]
                    \/ e = [sent[i] EXCEPT !.phase = "unsent", !.ledger = "pending", !.signer = p]
    BY <1>2 DEF WalletSigns, WalletFails
  <2>2. sent[i].phase = "signing"
    BY <1>2 DEF WalletSigns, WalletFails
  <2>3. e \in Transactions
    <3>1. "confirming" \in Phases /\ "unsent" \in Phases
      BY DEF Phases
    <3>2. /\ [sent[i] EXCEPT !.phase = "unsent"] \in Transactions
          /\ \A ph \in {"confirming", "unsent"} :
               [sent[i] EXCEPT !.phase = ph, !.ledger = "pending", !.signer = p] \in Transactions
      BY <1>1, <3>1, TransactionFilledIn
    <3>3. QED
      BY <2>1, <3>2
  <2>4. WellSent(e) /\ Progress(sent[i], e) /\ e.ledger # "success" /\ e.phase # "confirmed"
    BY <1>1, <2>1, <2>2
    DEF Transactions, WellSent, Progress, SameTransaction, Untouched, Followed, Broadcast
  <2>5. QED
    BY <1>1, <2>1, <2>3, <2>4, EntryKeeps
<1>3. CASE PollSucceeds(i) \/ PollFails(i) \/ WaitTimesOut(i)
  <2>1. PICK n \in Nat, ph \in {"confirmed", "failed", "timeout"} :
          /\ SetSent(i, [sent[i] EXCEPT !.phase = ph, !.readBack = n])
          /\ ph = "confirmed" => sent[i].ledger = "success" /\ PollSucceeds(i)
          /\ ph = "failed" => sent[i].ledger \in {"aborted", "dropped"}
    <3>1. sent[i].readBack \in Nat
      BY <1>1 DEF Transactions
    <3>2. \A ph : [sent[i] EXCEPT !.phase = ph] = [sent[i] EXCEPT !.phase = ph, !.readBack = @]
      BY <1>1 DEF Transactions
    <3>3. CASE PollSucceeds(i) /\ sent[i].kind # "create"
      <4>1. Len(refreshes') \in Nat
        BY <3>3 DEF SessionInv, RefreshesOK, PollSucceeds, Refresh
      <4>2. QED
        BY <3>3, <4>1 DEF PollSucceeds
    <3>4. CASE PollSucceeds(i) /\ sent[i].kind = "create"
      BY <3>1, <3>2, <3>4 DEF PollSucceeds
    <3>5. CASE PollFails(i)
      BY <3>1, <3>2, <3>5 DEF PollFails, NotExecuted
    <3>6. CASE WaitTimesOut(i)
      BY <3>1, <3>2, <3>6 DEF WaitTimesOut
    <3>7. QED
      BY <1>3, <3>3, <3>4, <3>5, <3>6
  <2>2. sent[i].phase = "confirming"
    BY <1>3 DEF PollSucceeds, PollFails, WaitTimesOut
  <2> DEFINE e == [sent[i] EXCEPT !.phase = ph, !.readBack = n]
  <2>3. e \in Transactions
    BY <1>1 DEF Transactions, Phases
  <2>4. WellSent(e) /\ Progress(sent[i], e) /\ e.ledger = sent[i].ledger /\ e.phase = ph
    BY <1>1, <2>1, <2>2 DEF Transactions, WellSent, Progress, SameTransaction, Followed
  <2> HIDE DEF e
  <2>5. QED
    BY <1>1, <2>1, <2>3, <2>4, EntryKeeps DEF e
<1>4. CASE ShowOutcome(i)
  <2> DEFINE e == [sent[i] EXCEPT !.readBack = 0]
  <2>1. SetSent(i, e)
    BY <1>4 DEF ShowOutcome
  <2>2. e \in Transactions /\ e.ledger = sent[i].ledger /\ e.phase = sent[i].phase
    BY <1>1 DEF Transactions
  <2>3. WellSent(e) /\ Progress(sent[i], e)
    BY <1>1 DEF Transactions, WellSent, Progress, SameTransaction, Untouched
  <2> HIDE DEF e
  <2>4. QED
    BY <1>1, <2>1, <2>2, <2>3, EntryKeeps
<1>5. QED
  BY <1>2, <1>3, <1>4 DEF Following

LEMMA MiningKeeps ==
  ASSUME ChainInv, SentOK, NEW i \in DOMAIN sent, Execute(i) \/ Abort(i) \/ Drop(i)
  PROVE  SentOK' /\ Progresses
<1>1. sent[i] \in Transactions /\ WellSent(sent[i]) /\ sent[i].ledger = "pending"
  BY DEF SentOK, Execute, Abort, Drop, Pending
<1>2. PICK l \in {"success", "aborted", "dropped"}, n \in Nat :
        /\ SetSent(i, [sent[i] EXCEPT !.ledger = l, !.got = n])
        /\ l = "success" => Execute(i)
  <2>1. sent[i].got \in Nat
    BY <1>1 DEF Transactions
  <2>2. \A l : [sent[i] EXCEPT !.ledger = l] = [sent[i] EXCEPT !.ledger = l, !.got = @]
    BY <1>1 DEF Transactions
  <2>3. CASE Execute(i)
    <3>1. Outcome(sent[i]) \in Nat
      BY <2>3, OutcomeIs
    <3>2. QED
      BY <2>3, <3>1 DEF Execute
  <2>4. CASE Abort(i)
    BY <2>1, <2>2, <2>4 DEF Abort
  <2>5. CASE Drop(i)
    BY <2>1, <2>2, <2>5 DEF Drop
  <2>6. QED
    BY <2>3, <2>4, <2>5
<1> DEFINE e == [sent[i] EXCEPT !.ledger = l, !.got = n]
<1>3. e \in Transactions
  BY <1>1 DEF Transactions, Ledgers
<1>4. WellSent(e) /\ Progress(sent[i], e)
  BY <1>1 DEF Transactions, WellSent, Progress, SameTransaction, Taken
<1>5. (e.ledger = "success" => Execute(i)) /\ e.phase = sent[i].phase
  BY <1>1, <1>2 DEF Transactions
<1> HIDE DEF e
<1>6. QED
  BY <1>2, <1>3, <1>4, <1>5, EntryKeeps DEF e

LEMMA StepSent == ChainInv /\ SessionInv /\ [WebNext]_webVars => SentOK' /\ Progresses
<1> SUFFICES ASSUME ChainInv, SessionInv, [WebNext]_webVars
             PROVE  SentOK' /\ Progresses
  OBVIOUS
<1>1. SentOK
  BY DEF SessionInv
<1>2. CASE UNCHANGED sent
  BY <1>1, <1>2 DEF SentOK, Progresses, Progress, SameTransaction, Untouched
<1>3. CASE SubmitDeposit \/ SubmitRedeem \/ SaveMeta \/ SaveRisk \/ TogglePause \/ Create
  BY <1>1, <1>3, SubmissionsFit, AppendKeeps
<1>4. QED
  BY <1>1, <1>2, <1>3, UnmountedKeeps, FollowingKeeps, MiningKeeps, StepsOfTransactions
  DEF TransactionMoves

-----------------------------------------------------------------------------
(* What becomes of the overview. *)

Begins(who) ==
  Refresh(who) /\ overview' \in {overview, Loading} /\ UNCHANGED loadError

LearnsMeta(i) ==
  /\ GetVaultMeta(Shown) # Absent
  /\ refreshes' = [refreshes EXCEPT ![i].meta = GetVaultMeta(Shown)]
  /\ UNCHANGED <<overview, loadError>>

Ends(i) ==
  /\ refreshes[i].open
  /\ refreshes' = [refreshes EXCEPT ![i] = Closed(@)]
  /\ \/ UNCHANGED <<overview, loadError>> /\ ~IsNewest(i)
     \/ UNCHANGED overview /\ loadError'
     \/ /\ overview' = Missing \/ (overview' = WholeOverview(refreshes[i]) /\ refreshes[i].meta # Unknown)
        /\ IsNewest(i)
        /\ loadError' = FALSE

OverviewMoves ==
  \/ UNCHANGED <<refreshes, overview, loadError>>
  \/ BelowLayout /\ \E who \in Wallets \cup {Absent} : Begins(who)
  \/ \E i \in DOMAIN refreshes : LearnsMeta(i) \/ Ends(i)

LEMMA StepsOfOverview == SessionInv /\ [WebNext]_webVars => OverviewMoves
<1> SUFFICES ASSUME SessionInv, [WebNext]_webVars
             PROVE  OverviewMoves
  OBVIOUS
<1>1. CASE Reads
  <2>1. ASSUME NEW i \in DOMAIN refreshes, ReadMeta(i) \/ ReadRest(i) \/ ReadFails(i)
        PROVE  LearnsMeta(i) \/ Ends(i)
    BY <2>1 DEF ReadMeta, ReadRest, ReadFails, Reading, EndRefresh, LearnsMeta, Ends
  <2>2. CASE TryAgain
    BY <2>2 DEF TryAgain, Begins, SessionInv, AccountOK, AloneOK, OverviewMoves
  <2>3. QED
    BY <1>1, <2>1, <2>2 DEF Reads, ReadFacts, ReadFact, ReadBalances, PreviewArrives,
      PreviewFails, ChangesFormOnly, OverviewMoves
<1>2. CASE Editor
  BY <1>2 DEF Editor, ChooseAsset, EnterAmount, SubmitDeposit, ChoosePool, EnterShares,
     SubmitRedeem, StartOver, EditSettings, SaveMeta, SaveRisk, TogglePause,
     ChoosePurpose, EnterName, ChooseMode, ChooseAccess, EnterRisk, ChooseAutonomy,
     Continue, Back, Create, BackToReview, Choose, Enter, EditForm, SubmitOnly, ChangesFormOnly,
     OverviewMoves
<1>3. CASE Navigation
  <2>1. ASSUME NEW who \in Wallets \cup {Absent}, SetAccount(who)
        PROVE  OverviewMoves
    BY <2>1 DEF SetAccount, Begins, OverviewMoves
  <2>2. QED
    BY <1>3, <2>1 DEF Navigation, Connect, Disconnect, OpenTab, OverviewMoves
<1>4. ASSUME NEW i \in DOMAIN sent, Following(i)
      PROVE  OverviewMoves
  <2>1. CASE PollSucceeds(i)
    <3>1. sent[i] \in Transactions
      BY DEF SessionInv, SentOK
    <3>2. sent[i].kind # "create" => sent[i].viewer \in Wallets /\ BelowLayout
      BY <3>1 DEF SessionInv, AloneOK, Transactions
    <3>3. QED
      BY <2>1, <3>2 DEF PollSucceeds, Begins, OverviewMoves
  <2>2. QED
    BY <1>4, <2>1 DEF Following, WalletSigns, WalletFails, PollFails, WaitTimesOut, ShowOutcome,
      OverviewMoves
<1>5. QED
  BY <1>1, <1>2, <1>3, <1>4
  DEF WebNext, webVars, sessionVars, Dashboard, Execute, Abort, Drop, Unseen, OthersMove, OverviewMoves

LEMMA NewRefreshType ==
  ASSUME SentOK, NEW who \in Wallets \cup {Absent}
  PROVE  NewRefresh(who) \in Refreshes /\ NewRefresh(who).meta = Unknown
<1>1. {i \in DOMAIN sent : sent[i].ledger = "success"} \in SUBSET Nat
  BY SentDomain
<1>2. QED
  BY <1>1 DEF NewRefresh, Refreshes

LEMMA ClosedType ==
  ASSUME SentOK, NEW r \in Refreshes
  PROVE  /\ Closed(r) \in Refreshes
         /\ Closed(r).meta = Unknown /\ Closed(r).open = FALSE /\ Closed(r).seen = {}
  BY NewRefreshType DEF Closed, NewRefresh, Refreshes

(* A vault that exists has a configuration, and stays. *)
LEMMA ShownExists ==
  ASSUME ChainInv, GetVaultMeta(Shown) # Absent
  PROVE  GetVaultMeta(Shown) \in Vault /\ GetRiskConfig(Shown) \in RiskParams
<1>1. Shown \in VaultIds /\ vaults[Shown] # Absent
  BY SessionAssumption DEF GetVaultMeta
<1>2. vaults[Shown] \in Vault
  BY <1>1 DEF ChainInv, PoolInv, TypeOK, VaultTypeOK
<1>3. vaultConfig[Shown] \in VaultConfig
  BY <1>1 DEF ChainInv, BooksInv, ConfigMirrorsVaults, PoolInv, TypeOK, GuardTypeOK
<1>4. QED
  BY <1>2, <1>3 DEF GetVaultMeta, GetRiskConfig, VaultConfig

LEMMA VaultsStay ==
  ASSUME ChainInv, SentOK, [WebNext]_webVars, NEW v \in VaultIds, vaults[v] # Absent
  PROVE  vaults'[v] # Absent /\ SameTerms(vaults[v], vaults'[v])
  BY SessionIsAny, AnyStepVaults DEF ChainInv, BooksInv, VaultsKept

LEMMA StepRefreshes == ChainInv /\ SessionInv /\ [WebNext]_webVars => RefreshesOK' /\ OverviewOK'
<1> SUFFICES ASSUME ChainInv, SessionInv, [WebNext]_webVars
             PROVE  RefreshesOK' /\ OverviewOK'
  OBVIOUS
<1>1. SentOK /\ RefreshesOK /\ OverviewOK
  BY DEF SessionInv
<1>2. vaults[Shown] # Absent => vaults'[Shown] # Absent
  BY <1>1, VaultsStay, SessionAssumption
<1>3. CASE UNCHANGED <<refreshes, overview, loadError>>
  BY <1>1, <1>2, <1>3 DEF RefreshesOK, OverviewOK, Loaded
<1>4. ASSUME NEW who \in Wallets \cup {Absent}, Begins(who)
      PROVE  RefreshesOK' /\ OverviewOK'
  <2>1. refreshes' = Append(refreshes, NewRefresh(who))
    BY <1>4 DEF Begins, Refresh
  <2>2. NewRefresh(who) \in Refreshes /\ NewRefresh(who).meta = Unknown
    BY <1>1, NewRefreshType
  <2>3. RefreshesOK'
    BY <1>1, <1>2, <2>1, <2>2 DEF RefreshesOK
  <2>4. OverviewOK'
    BY <1>1, <1>4 DEF Begins, OverviewOK, Loaded
  <2>5. QED
    BY <2>3, <2>4
<1>5. ASSUME NEW i \in DOMAIN refreshes, LearnsMeta(i)
      PROVE  RefreshesOK' /\ OverviewOK'
  <2>1. refreshes[i] \in Refreshes
    BY <1>1 DEF RefreshesOK
  <2>2. GetVaultMeta(Shown) \in Vault
    BY <1>5, ShownExists DEF LearnsMeta
  <2> DEFINE r == [refreshes[i] EXCEPT !.meta = GetVaultMeta(Shown)]
  <2>3. refreshes' = [refreshes EXCEPT ![i] = r]
    BY <1>5 DEF LearnsMeta
  <2>4. r \in Refreshes
    BY <2>1, <2>2 DEF Refreshes
  <2> HIDE DEF r
  <2>5. vaults'[Shown] # Absent
    BY <1>2, <1>5 DEF LearnsMeta, GetVaultMeta
  <2>6. RefreshesOK'
    BY <1>1, <1>2, <2>3, <2>4, <2>5 DEF RefreshesOK
  <2>7. OverviewOK'
    BY <1>1, <1>5 DEF LearnsMeta, OverviewOK, Loaded
  <2>8. QED
    BY <2>6, <2>7
<1>6. ASSUME NEW i \in DOMAIN refreshes, Ends(i)
      PROVE  RefreshesOK' /\ OverviewOK'
  <2>1. refreshes[i] \in Refreshes
    BY <1>1 DEF RefreshesOK
  <2> DEFINE r == Closed(refreshes[i])
  <2>2. r \in Refreshes /\ r.meta = Unknown
    BY <1>1, <2>1, ClosedType
  <2>3. refreshes' = [refreshes EXCEPT ![i] = r]
    BY <1>6 DEF Ends
  <2> HIDE DEF r
  <2>4. RefreshesOK'
    BY <1>1, <1>2, <2>2, <2>3 DEF RefreshesOK
  <2>5. CASE overview' = WholeOverview(refreshes[i]) /\ refreshes[i].meta # Unknown
    <3>1. overview'.meta = refreshes[i].meta /\ overview'.risk = GetRiskConfig(Shown)
      BY <2>5 DEF WholeOverview
    <3>2. refreshes[i].meta \in Vault
      BY <2>1, <2>5 DEF Refreshes
    <3>3. GetVaultMeta(Shown) # Absent
      BY <1>1, <2>5 DEF RefreshesOK, GetVaultMeta
    <3>4. QED
      BY <2>4, <3>1, <3>2, <3>3, ShownExists DEF OverviewOK
  <2>6. CASE overview' = overview \/ overview' = Missing
    BY <1>1, <2>4, <2>6 DEF OverviewOK, Loaded
  <2>7. QED
    BY <1>6, <2>4, <2>5, <2>6 DEF Ends
<1>7. QED
  BY <1>3, <1>4, <1>5, <1>6, StepsOfOverview DEF OverviewMoves

-----------------------------------------------------------------------------
(* The account, the page and its form.                                     *)

PageMoves ==
  \/ UNCHANGED page
  \/ BelowLayout /\ page' \in {"deposit", "redeem", "settings"} /\ form' = NewForm(page', overview) /\ Loaded

LEMMA StepsOfPage ==
  AccountOK /\ [WebNext]_webVars => PageMoves /\ account' \in Wallets \cup {Absent}
<1> SUFFICES ASSUME AccountOK, [WebNext]_webVars
             PROVE  PageMoves /\ account' \in Wallets \cup {Absent}
  OBVIOUS
<1>1. CASE Reads
  BY <1>1 DEF Reads, ReadMeta, ReadRest, ReadFails, TryAgain, ReadFacts, ReadFact, ReadBalances,
     PreviewArrives, PreviewFails, ChangesFormOnly, PageMoves, AccountOK
<1>2. CASE Editor
  BY <1>2 DEF Editor, ChooseAsset, EnterAmount, SubmitDeposit, ChoosePool, EnterShares,
     SubmitRedeem, StartOver, EditSettings, SaveMeta, SaveRisk, TogglePause,
     ChoosePurpose, EnterName, ChooseMode, ChooseAccess, EnterRisk, ChooseAutonomy,
     Continue, Back, Create, BackToReview, Choose, Enter, EditForm, SubmitOnly, ChangesFormOnly,
     PageMoves, AccountOK
<1>3. CASE Navigation
  BY <1>3 DEF Navigation, Connect, Disconnect, SetAccount, OpenTab, PageMoves, AccountOK
<1>4. ASSUME NEW i \in DOMAIN sent, Following(i)
      PROVE  UNCHANGED <<account, page>>
  BY <1>4 DEF Following, WalletSigns, WalletFails, PollSucceeds, PollFails, WaitTimesOut, ShowOutcome
<1>5. QED
  BY <1>1, <1>2, <1>3, <1>4
  DEF WebNext, webVars, sessionVars, Dashboard, Execute, Abort, Drop, Unseen, OthersMove,
      PageMoves, AccountOK

LEMMA StepAlone == ChainInv /\ SessionInv /\ [WebNext]_webVars => AccountOK' /\ AloneOK'
<1> SUFFICES ASSUME ChainInv, SessionInv, [WebNext]_webVars
             PROVE  AccountOK' /\ AloneOK'
  OBVIOUS
<1>1. AccountOK /\ AloneOK /\ SentOK
  BY DEF SessionInv
<1>2. PageMoves /\ account' \in Wallets \cup {Absent}
  BY <1>1, StepsOfPage
<1>3. AccountOK'
  BY <1>1, <1>2 DEF PageMoves, AccountOK, Pages
<1>4. ASSUME ~BelowLayout'
      PROVE  refreshes' = <<>> /\ loadError' = FALSE /\ \A i \in DOMAIN sent' : sent'[i].kind = "create"
  <2>1. ~BelowLayout
    BY <1>2, <1>4 DEF PageMoves, BelowLayout
  <2>2. refreshes = <<>> /\ loadError = FALSE /\ \A i \in DOMAIN sent : sent[i].kind = "create"
    BY <1>1, <2>1 DEF AloneOK
  <2>3. refreshes' = <<>> /\ loadError' = FALSE
    BY <2>1, <2>2, StepsOfOverview DEF OverviewMoves
  <2>4. Progresses
    BY StepSent
  <2>5. \A i \in DOMAIN sent' : sent'[i].kind = "create"
    BY <2>1, <2>2, <2>4 DEF Progresses, Progress, SameTransaction
  <2>6. QED
    BY <2>3, <2>5
<1>5. QED
  BY <1>3, <1>4 DEF AloneOK

LEMMA NewFormType ==
  ASSUME NEW o, o.meta \in Vault, o.risk \in RiskParams, NEW tab \in {"deposit", "redeem", "settings"}
  PROVE  NewForm(tab, o) \in Forms(tab)
<1>1. o.meta.openDeposits \in BOOLEAN /\ o.risk.autonomousEnabled \in BOOLEAN
  BY DEF Vault, RiskParams
<1>2. CASE tab = "settings"
  BY <1>1, <1>2 DEF NewForm, Forms, SettingsForms
<1>3. CASE tab # "settings"
  BY <1>3 DEF NewForm, Forms, FundForms, Assets, Answers
<1>4. QED
  BY <1>2, <1>3

LEMMA PreviewTypes ==
  ASSUME ChainInv, NEW a \in Assets, NEW n \in Nat
  PROVE  /\ PreviewDeposit(Shown, a, n) \in Answers /\ PreviewRedeem(Shown, a, n) \in Answers
         /\ PreviewDeposit(Shown, a, n) \in Nat => PreviewDeposit(Shown, a, n) = n
         /\ PreviewRedeem(Shown, a, n) \in Nat => PreviewRedeem(Shown, a, n) = n
<1> DEFINE s == supplies[Shown][a]
<1>1. s \in Nat /\ totalBalances[Shown][a] = s
  BY SessionAssumption DEF ChainInv, PoolInv, PoolParity, TypeOK, ReceiptTypeOK
<1>2. DepositShares(s, s, n) = n /\ (s > 0 => RedeemAssets(n, s, s) = n)
  BY <1>1, PriceOfOne
<1>3. Refused \notin Nat
  BY ReadAssumption
<1> HIDE DEF s
<1>4. PreviewDeposit(Shown, a, n) \in {n, Refused}
  BY <1>1, <1>2 DEF PreviewDeposit, s
<1>5. PreviewRedeem(Shown, a, n) \in {n, Refused}
  BY <1>1, <1>2 DEF PreviewRedeem, RedeemAccepted, s
<1>6. QED
  BY <1>3, <1>4, <1>5 DEF Answers

LEMMA FundFormsStep ==
  ASSUME ChainInv, SessionInv, page \in {"deposit", "redeem"}, form # Absent,
         \/ ChooseAsset \/ EnterAmount \/ ChoosePool \/ EnterShares \/ StartOver
         \/ PreviewArrives \/ PreviewFails
         \/ \E i \in DOMAIN sent : ShowOutcome(i)
  PROVE  form' \in FundForms
<1>1. form \in FundForms /\ SentOK
  BY DEF SessionInv, FormOK, Forms, FundForms
<1>2. \A f \in FundForms : StartPreview(f) \in FundForms
  BY DEF StartPreview, FundForms, Answers
<1>3. CASE ChooseAsset \/ ChoosePool
  <2>1. PICK a \in Assets : form' = StartPreview([form EXCEPT !.asset = a, !.amount = 0])
    BY <1>3 DEF ChooseAsset, ChoosePool, Choose, SupportedAssets, Assets
  <2>2. [form EXCEPT !.asset = a, !.amount = 0] \in FundForms
    BY <1>1 DEF FundForms
  <2>3. QED
    BY <1>2, <2>1, <2>2
<1>4. CASE EnterAmount \/ EnterShares
  <2>1. PICK n \in Nat : form' = StartPreview([form EXCEPT !.amount = n])
    BY <1>4, InputAssumption DEF EnterAmount, EnterShares, Enter
  <2>2. [form EXCEPT !.amount = n] \in FundForms
    BY <1>1 DEF FundForms
  <2>3. QED
    BY <1>2, <2>1, <2>2
<1>5. CASE StartOver
  BY <1>1, <1>5 DEF StartOver, FundForms
<1>6. CASE PreviewArrives \/ PreviewFails
  <2>1. PICK x \in Answers : form' = [form EXCEPT !.preview = x]
    <3>1. form.asset \in Assets /\ form.amount \in Nat
      BY <1>1 DEF FundForms
    <3>2. QED
      BY <1>6, <3>1, PreviewTypes DEF PreviewArrives, PreviewFails, Answers
  <2>2. QED
    BY <1>1, <2>1 DEF FundForms
<1>7. ASSUME NEW i \in DOMAIN sent, ShowOutcome(i)
      PROVE  form' \in FundForms
  <2>1. i \in Nat
    BY <1>1, SentDomain
  <2>2. [form EXCEPT !.done = i, !.amount = 0] \in FundForms
    BY <1>1, <2>1 DEF FundForms
  <2>3. QED
    BY <1>2, <1>7, <2>2 DEF ShowOutcome
<1>8. QED
  BY <1>3, <1>4, <1>5, <1>6, <1>7

LEMMA RiskEdits ==
  ASSUME NEW F, form.values \in RiskParams, form.accepted \in BOOLEAN,
         \A w \in RiskParams : [form EXCEPT !.values = w] \in F,
         \A b \in BOOLEAN : [form EXCEPT !.accepted = b] \in F
  PROVE  /\ \A v \in TypedRisk : [form EXCEPT !.values = v] \in F
         /\ \A f \in AutonomyChosen : f \in F
<1>1. \A v \in RiskParams, c \in BOOLEAN : [v EXCEPT !.autonomousEnabled = c] \in RiskParams
  BY DEF RiskParams
<1>2. form.values.autonomousEnabled \in BOOLEAN
  BY DEF RiskParams
<1>3. TypedRisk \subseteq RiskParams
  BY <1>1, <1>2, OwnerAssumption DEF TypedRisk
<1>4. \A c \in BOOLEAN : [form EXCEPT !.values.autonomousEnabled = c] \in F
  <2>1. \A c \in BOOLEAN : [form EXCEPT !.values.autonomousEnabled = c]
                           = [form EXCEPT !.values = [form.values EXCEPT !.autonomousEnabled = c]]
    OBVIOUS
  <2>2. QED
    BY <1>1, <2>1
<1>5. \A f \in AutonomyChosen : f \in F
  BY <1>4 DEF AutonomyChosen
<1>6. QED
  BY <1>3, <1>5

LEMMA SettingsFormsStep ==
  ASSUME SessionInv, page = "settings", form # Absent, EditSettings
  PROVE  form' \in SettingsForms
<1>1. form \in SettingsForms
  BY DEF SessionInv, FormOK, Forms, SettingsForms
<1>2. /\ form.values \in RiskParams /\ form.accepted \in BOOLEAN
      /\ \A w \in RiskParams : [form EXCEPT !.values = w] \in SettingsForms
      /\ \A b \in BOOLEAN : [form EXCEPT !.accepted = b] \in SettingsForms
  BY <1>1 DEF SettingsForms
<1>3. [form EXCEPT !.open = ~@] \in SettingsForms
  BY <1>1 DEF SettingsForms
<1>4. /\ \A v \in TypedRisk : [form EXCEPT !.values = v] \in SettingsForms
      /\ \A f \in AutonomyChosen : f \in SettingsForms
  BY <1>2, RiskEdits
<1>5. QED
  BY <1>3, <1>4 DEF EditSettings, EditForm

LEMMA DefaultTypes == \A id \in 1 .. 6 : PurposeDefaults[id] \in RiskParams
<1>1. \A x \in Nat, i \in Nat, s \in Nat, c \in Nat : Preset(x, i, s, c) \in RiskParams
  BY DEF Preset, RiskParams
<1>2. /\ PurposeDefaults[1] \in RiskParams /\ PurposeDefaults[2] \in RiskParams
      /\ PurposeDefaults[3] \in RiskParams /\ PurposeDefaults[4] \in RiskParams
      /\ PurposeDefaults[5] \in RiskParams /\ PurposeDefaults[6] \in RiskParams
  BY <1>1 DEF PurposeDefaults
<1>3. \A id \in 1 .. 6 : id = 1 \/ id = 2 \/ id = 3 \/ id = 4 \/ id = 5 \/ id = 6
  OBVIOUS
<1>4. QED
  BY <1>2, <1>3

LEMMA CreateFormsStep ==
  ASSUME SessionInv, page = "create", form # Absent,
         \/ ChoosePurpose \/ EnterName \/ ChooseMode \/ ChooseAccess \/ EnterRisk
         \/ ChooseAutonomy \/ Continue \/ Back \/ Create \/ BackToReview
  PROVE  form' \in CreateForms
<1>1. form \in CreateForms
  BY DEF SessionInv, FormOK, Forms, CreateForms
<1>2. /\ form.values \in RiskParams /\ form.accepted \in BOOLEAN
      /\ \A w \in RiskParams : [form EXCEPT !.values = w] \in CreateForms
      /\ \A b \in BOOLEAN : [form EXCEPT !.accepted = b] \in CreateForms
      /\ \A n \in Nat : [form EXCEPT !.step = n] \in CreateForms
  BY <1>1 DEF CreateForms
<1>3. /\ \A v \in TypedRisk : [form EXCEPT !.values = v] \in CreateForms
      /\ \A f \in AutonomyChosen : f \in CreateForms
  BY <1>2, RiskEdits
<1>4. CASE ChoosePurpose
  <2>1. PICK id \in 0 .. 5 : form' = WithPurpose(id)
    BY <1>4 DEF ChoosePurpose, EditForm
  <2>2. PurposeDefaults[id + 1] \in RiskParams
    BY DefaultTypes
  <2>3. QED
    BY <1>1, <2>1, <2>2 DEF WithPurpose, CreateForms
<1>5. CASE EnterName \/ ChooseMode \/ ChooseAccess
  BY <1>1, <1>5, InputAssumption DEF EnterName, ChooseMode, ChooseAccess, EditForm, CreateForms
<1>6. CASE EnterRisk
  BY <1>3, <1>6 DEF EnterRisk, EditForm
<1>7. CASE ChooseAutonomy
  <2>1. PICK f \in CreateForms : form' = [f EXCEPT !.accepted = @ /\ f.values.autonomousEnabled]
    BY <1>3, <1>7 DEF ChooseAutonomy, EditForm
  <2>2. QED
    BY <2>1 DEF CreateForms
<1>8. CASE Continue \/ Back \/ Create \/ BackToReview
  <2>1. form.step \in Nat
    BY <1>1 DEF CreateForms
  <2>2. /\ Continue => form' = [form EXCEPT !.step = form.step + 1]
        /\ Back => form' = [form EXCEPT !.step = form.step - 1] /\ form.step - 1 \in Nat
        /\ Create => form' = [form EXCEPT !.step = 6]
        /\ BackToReview => form' = [form EXCEPT !.step = 5]
    BY <2>1 DEF Continue, Back, Create, BackToReview, EditForm
  <2>3. QED
    BY <1>2, <1>8, <2>1, <2>2
<1>9. QED
  BY <1>4, <1>5, <1>6, <1>7, <1>8

LEMMA StepForm == ChainInv /\ SessionInv /\ [WebNext]_webVars => FormOK'
<1> SUFFICES ASSUME ChainInv, SessionInv, [WebNext]_webVars
             PROVE  FormOK'
  OBVIOUS
<1>1. AccountOK /\ FormOK /\ OverviewOK /\ RefreshesOK /\ AloneOK /\ SentOK
  BY DEF SessionInv
<1>2. CASE UNCHANGED <<form, page>>
  BY <1>1, <1>2 DEF FormOK
<1>3. ASSUME page' # page
      PROVE  FormOK'
  <2>1. page' \in {"deposit", "redeem", "settings"} /\ form' = NewForm(page', overview) /\ Loaded
    BY <1>1, <1>3, StepsOfPage DEF PageMoves
  <2>2. \A tab \in {"deposit", "redeem", "settings"} : NewForm(tab, overview) \in Forms(tab)
    BY <1>1, <2>1, NewFormType DEF OverviewOK
  <2>3. QED
    BY <2>1, <2>2 DEF FormOK
<1>4. ASSUME page' = page, form # Absent, page \in {"deposit", "redeem"}, form' \in FundForms
      PROVE  FormOK'
  BY <1>4 DEF FormOK, Forms
<1>5. ASSUME page' = page, form # Absent, page = "settings", form' \in SettingsForms
      PROVE  FormOK'
  BY <1>5 DEF FormOK, Forms
<1>6. ASSUME page' = page, form # Absent, page = "create", form' \in CreateForms
      PROVE  FormOK'
  BY <1>6 DEF FormOK, Forms
<1>7. ASSUME NEW i \in DOMAIN refreshes, ReadMeta(i) \/ ReadRest(i), page' = page
      PROVE  FormOK'
  <2>1. page \in {"deposit", "redeem", "settings"}
    BY <1>1, <1>7 DEF AloneOK, BelowLayout, AccountOK, Pages
  <2>2. \/ UNCHANGED form
        \/ form' = Absent
        \/ form' \in {form, [form EXCEPT !.preview = Loading]} /\ form # Absent /\ page # "settings"
        \/ form' = form /\ form # Absent
        \/ ReadRest(i) /\ form' = NewForm(page, WholeOverview(refreshes[i]))
    BY <1>7 DEF ReadMeta, ReadRest, EndRefresh, Repriced
  <2>3. CASE ReadRest(i) /\ form' = NewForm(page, WholeOverview(refreshes[i]))
    <3>1. refreshes[i] \in Refreshes /\ refreshes[i].meta # Unknown
      BY <1>1, <2>3 DEF RefreshesOK, ReadRest
    <3>2. WholeOverview(refreshes[i]).meta \in Vault
      BY <3>1 DEF WholeOverview, Refreshes
    <3>3. WholeOverview(refreshes[i]).risk \in RiskParams
      BY <1>1, <3>1, ShownExists DEF WholeOverview, RefreshesOK, GetVaultMeta
    <3>4. form' \in Forms(page)
      BY <2>1, <2>3, <3>2, <3>3, NewFormType
    <3>5. QED
      BY <1>7, <3>4 DEF FormOK
  <2>4. CASE form' = [form EXCEPT !.preview = Loading] /\ form # Absent /\ page # "settings"
    <3>1. form \in FundForms
      BY <1>1, <2>1, <2>4 DEF FormOK, Forms
    <3>2. form' \in FundForms
      BY <2>4, <3>1 DEF FundForms, Answers
    <3>3. QED
      BY <1>4, <1>7, <2>1, <2>4, <3>2
  <2>5. QED
    BY <1>2, <1>7, <2>2, <2>3, <2>4 DEF FormOK
<1>8. CASE Reads /\ page' = page
  <2>1. CASE PreviewArrives \/ PreviewFails
    <3>1. form # Absent /\ page \in {"deposit", "redeem"}
      BY <2>1 DEF PreviewArrives, PreviewFails
    <3>2. QED
      BY <1>4, <1>8, <2>1, <3>1, FundFormsStep
  <2>2. QED
    BY <1>2, <1>7, <1>8, <2>1 DEF Reads, ReadFails, TryAgain, ReadFacts, ReadFact, ReadBalances
<1>9. CASE Editor /\ page' = page
  <2>1. CASE ChooseAsset \/ EnterAmount \/ ChoosePool \/ EnterShares \/ StartOver
    <3>1. form # Absent /\ page \in {"deposit", "redeem"}
      BY <2>1 DEF ChooseAsset, EnterAmount, ChoosePool, EnterShares, StartOver, Editing, OnPage
    <3>2. QED
      BY <1>4, <1>9, <2>1, <3>1, FundFormsStep
  <2>2. CASE EditSettings
    <3>1. form # Absent /\ page = "settings"
      BY <2>2 DEF EditSettings, Settling, OnPage
    <3>2. QED
      BY <1>5, <1>9, <2>2, <3>1, SettingsFormsStep
  <2>3. CASE \/ ChoosePurpose \/ EnterName \/ ChooseMode \/ ChooseAccess \/ EnterRisk
             \/ ChooseAutonomy \/ Continue \/ Back \/ Create \/ BackToReview
    <3>1. form # Absent /\ page = "create"
      BY <2>3 DEF ChoosePurpose, EnterName, ChooseMode, ChooseAccess, EnterRisk, ChooseAutonomy,
         Continue, Back, Create, CanCreate, BackToReview, OnStep, OnPage
    <3>2. QED
      BY <1>6, <1>9, <2>3, <3>1, CreateFormsStep
  <2>4. CASE SubmitDeposit \/ SubmitRedeem \/ SaveMeta \/ SaveRisk \/ TogglePause
    BY <1>2, <2>4 DEF SubmitDeposit, SubmitRedeem, SaveMeta, SaveRisk, TogglePause, SubmitOnly
  <2>5. QED
    BY <1>9, <2>1, <2>2, <2>3, <2>4 DEF Editor
<1>10. CASE Navigation /\ page' = page
  <2>1. UNCHANGED form \/ form' = Absent
    BY <1>10 DEF Navigation, Connect, Disconnect, SetAccount, OpenTab
  <2>2. QED
    BY <1>2, <1>10, <2>1 DEF FormOK
<1>11. ASSUME NEW i \in DOMAIN sent, Following(i), page' = page
       PROVE  FormOK'
  <2>1. CASE ShowOutcome(i)
    <3>1. form # Absent /\ page \in {"deposit", "redeem"}
      BY <2>1 DEF ShowOutcome
    <3>2. QED
      BY <1>4, <1>11, <2>1, <3>1, FundFormsStep
  <2>2. QED
    BY <1>2, <1>11, <2>1 DEF Following, WalletSigns, WalletFails, PollSucceeds, PollFails, WaitTimesOut
<1>12. CASE page' = page
  BY <1>2, <1>8, <1>9, <1>10, <1>11, <1>12
  DEF WebNext, webVars, sessionVars, Dashboard, Execute, Abort, Drop, Unseen, OthersMove
<1>13. QED
  BY <1>3, <1>12

LEMMA StepSession == ChainInv /\ SessionInv /\ [WebNext]_webVars => SessionInv'
  BY StepSent, StepRefreshes, StepAlone, StepForm DEF SessionInv

LEMMA StartSession == SoundChain /\ SessionStart => SessionInv
<1> SUFFICES ASSUME SoundChain, SessionStart
             PROVE  SessionInv
  OBVIOUS
<1>1. ChainInv
  BY SoundChainIs
<1>2. account \in Wallets \cup {Absent} /\ page \in Pages /\ sent = <<>> /\ loadError = FALSE
  BY DEF SessionStart, Pages
<1>3. SentOK /\ \A i \in DOMAIN sent : sent[i].kind = "create"
  BY <1>2 DEF SentOK
<1>4. CreateForm \in CreateForms
  BY DefaultTypes DEF CreateForm, CreateForms
<1>5. CASE Arriving
  <2>1. FormOK
    BY <1>4, <1>5 DEF Arriving, FormOK, Forms
  <2>2. NewRefresh(account) \in Refreshes /\ NewRefresh(account).meta = Unknown
    BY <1>2, <1>3, NewRefreshType
  <2>3. RefreshesOK /\ (~BelowLayout => refreshes = <<>>)
    BY <1>5, <2>2 DEF Arriving, RefreshesOK
  <2>4. OverviewOK
    BY <1>5 DEF Arriving, OverviewOK, Loaded
  <2>5. QED
    BY <1>2, <1>3, <2>1, <2>3, <2>4 DEF SessionInv, AccountOK, AloneOK
<1>6. CASE Opened
  <2>1. overview.meta \in Vault /\ overview.risk \in RiskParams
    <3>1. GetVaultMeta(Shown) \in Vault /\ GetRiskConfig(Shown) \in RiskParams
      BY <1>1, <1>6, ShownExists DEF Opened
    <3>2. overview.meta = GetVaultMeta(Shown) /\ overview.risk = GetRiskConfig(Shown)
      BY <1>6 DEF Opened, WholeOverview, NewRefresh
    <3>3. QED
      BY <3>1, <3>2
  <2>2. FormOK
    <3>1. page \in {"deposit", "redeem", "settings"} => form \in Forms(page)
      BY <1>6, <2>1, NewFormType DEF Opened
    <3>2. page = "create" => form \in Forms(page)
      BY <1>4, <1>6 DEF Opened, Forms
    <3>3. page = "dashboard" => form = Absent
      BY <1>6 DEF Opened
    <3>4. QED
      BY <1>2, <3>1, <3>2, <3>3 DEF FormOK, Pages
  <2>3. refreshes = <<>>
    BY <1>6 DEF Opened
  <2>4. RefreshesOK
    BY <2>3 DEF RefreshesOK
  <2>5. QED
    BY <1>2, <1>3, <2>1, <2>2, <2>3, <2>4 DEF SessionInv, AccountOK, AloneOK, OverviewOK
<1>7. QED
  BY <1>5, <1>6 DEF SessionStart

(* The contracts keep every book, and the session its types, in every      *)
(* session: whatever a page submits is a call the contracts' own proofs    *)
(* allow for.                                                              *)
THEOREM SessionSound == AnySession => [](ChainInv /\ SessionInv)
<1>1. SoundChain /\ SessionStart => ChainInv /\ SessionInv
  BY SoundChainIs, StartSession
<1>2. ChainInv /\ SessionInv /\ [WebNext]_webVars => (ChainInv /\ SessionInv)'
  BY StepChain, StepSession DEF SessionInv
<1>3. QED
  BY <1>1, <1>2, PTL DEF AnySession

-----------------------------------------------------------------------------
(* Who pays.                                                               *)

LEMMA DepositIsPaidBySigner ==
  ASSUME ChainInv, SentOK, NEW i \in DOMAIN sent, sent[i].kind = "deposit", Execute(i),
         NEW p \in Principals \ {sent[i].viewer}, NEW t \in Tokens
  PROVE  holdings'[t][p] = holdings[t][p]
<1> DEFINE e == sent[i]
<1>1. DepositCall(e)
  BY DEF Execute, Call, DepositCall, RedeemCall, CreateCall, MetaCall, RiskCall, PauseCall
<1>2. e.signer = e.viewer
  BY <1>1 DEF DepositCall
<1>3. PICK token \in Tokens : Transfer(token, e.signer, VAULT, e.args.amount)
  BY <1>1, ReadAssumption DEF DepositCall, DepositStx, DepositSbtc, Deposit, Tokens
<1>4. p # VAULT /\ p \in Accounts
  BY ChainAssumption DEF Accounts
<1>5. holdings \in [Tokens -> [Accounts -> Nat]]
  BY DEF ChainInv, PoolInv, TypeOK, ChainTypeOK
<1> HIDE DEF e
<1>6. holdings' = [holdings EXCEPT ![token][e.signer] = @ - e.args.amount,
                                   ![token][VAULT] = @ + e.args.amount]
  BY <1>3 DEF Transfer
<1>7. p # e.signer
  BY <1>2 DEF e
<1>8. QED
  BY <1>4, <1>5, <1>6, <1>7

(* Whatever account the wallet signs with, a deposit that a page submitted *)
(* is paid by the account the page showed, or not executed (lib/wallet.ts, *)
(* the post-conditions in deny mode).                                      *)
THEOREM ViewersPay == AnySession => OnlyViewerPays
<1> DEFINE A == \A i \in DOMAIN sent :
                  sent[i].kind = "deposit" /\ sent'[i].ledger = "success" /\ sent[i].ledger # "success"
                    => \A p \in Principals \ {sent[i].viewer}, t \in Tokens :
                         holdings'[t][p] = holdings[t][p]
<1>1. (ChainInv /\ SessionInv) /\ [WebNext]_webVars => A
  BY StepSent, DepositIsPaidBySigner DEF SessionInv, Progresses
<1>2. (ChainInv /\ SessionInv) /\ [WebNext]_webVars => [A]_webVars
  BY <1>1
<1>3. QED
  BY <1>2, SessionSound, PTL DEF AnySession, OnlyViewerPays

-----------------------------------------------------------------------------
(* What is shown of transactions, and beside them.                         *)

Succeeded == {i \in DOMAIN sent : sent[i].ledger = "success"}

(* After these the vault is read again. *)
Confirmed == {i \in DOMAIN sent : sent[i].phase = "confirmed" /\ sent[i].kind # "create"}

Newest == refreshes[Len(refreshes)]

(* The refresh that may replace the overview began after everything the    *)
(* overview shows and after every confirmation; once it has ended, the     *)
(* overview is its own.                                                    *)
FreshInv ==
  /\ PhasesMatchChain
  /\ \A i \in DOMAIN refreshes : refreshes[i].seen \subseteq Succeeded
  /\ Loaded => overview.seen \subseteq Succeeded
  /\ refreshes = <<>> => Confirmed = {}
  /\ refreshes # <<>> =>
       /\ Newest.open => Confirmed \subseteq Newest.seen
       /\ Newest.open /\ Loaded => overview.seen \subseteq Newest.seen
       /\ ~Newest.open /\ Loaded /\ ~loadError => Confirmed \subseteq overview.seen

LEMMA RefreshGrows ==
  ASSUME RefreshesOK, NEW who, Refresh(who)
  PROVE  Len(refreshes') = Len(refreshes) + 1 /\ Len(refreshes) \in Nat
<1> DEFINE r == NewRefresh(who)
           T == Refreshes \cup {r}
<1>1. refreshes \in Seq(T) /\ r \in T
  <2>1. Refreshes \subseteq T /\ refreshes \in Seq(Refreshes)
    BY DEF RefreshesOK
  <2> HIDE DEF T
  <2>2. refreshes \in Seq(T)
    BY <2>1, SeqMonotonic
  <2>3. QED
    BY <2>2 DEF T
<1>2. refreshes' = Append(refreshes, r)
  BY DEF Refresh
<1> HIDE DEF r, T
<1>3. QED
  BY <1>1, <1>2

LEMMA StepSucceeded ==
  ASSUME ChainInv, SessionInv, PhasesMatchChain, [WebNext]_webVars
  PROVE  /\ PhasesMatchChain'
         /\ Succeeded \subseteq Succeeded' /\ Confirmed' \subseteq Succeeded
         /\ Confirmed \subseteq Confirmed'
         /\ Confirmed' # Confirmed => \E who : Refresh(who)
<1>1. SentOK /\ SentOK' /\ Progresses
  BY StepSent DEF SessionInv
<1>2. \A i \in DOMAIN sent : i \in DOMAIN sent' /\ WellSent(sent[i]) /\ Progress(sent[i], sent'[i])
  BY <1>1, SentDomain DEF SentOK, Progresses
<1>3. Succeeded \subseteq Succeeded'
  BY <1>2 DEF Succeeded, WellSent, Progress, Untouched, Followed, Broadcast, Taken
<1>4. PhasesMatchChain'
  <2>1. ASSUME NEW i \in DOMAIN sent'
        PROVE  /\ sent'[i].phase = "confirmed" => sent'[i].ledger = "success"
               /\ sent'[i].phase = "failed" => sent'[i].ledger \in {"aborted", "dropped"}
    <3>1. CASE i \in DOMAIN sent
      BY <1>2, <3>1 DEF PhasesMatchChain, WellSent, Progress, Untouched, Followed, Broadcast, Taken
    <3>2. CASE i \notin DOMAIN sent
      BY <1>1, <3>2 DEF Progresses
    <3>3. QED
      BY <3>1, <3>2
  <2>2. QED
    BY <2>1 DEF PhasesMatchChain
<1>5. Confirmed' \subseteq Succeeded
  <2>1. ASSUME NEW i \in Confirmed'
        PROVE  i \in Succeeded
    <3>1. i \in DOMAIN sent
      BY <1>1, <2>1 DEF Confirmed, Progresses
    <3>2. QED
      BY <1>1, <2>1, <3>1 DEF Confirmed, Succeeded, Progresses, PhasesMatchChain, PollSucceeds
  <2>2. QED
    BY <2>1
<1>6. Confirmed \subseteq Confirmed'
  BY <1>2 DEF Confirmed, Progress, SameTransaction, Untouched, Followed, Broadcast, Taken
<1>7. ASSUME NEW i \in Confirmed', i \notin Confirmed
      PROVE  \E who : Refresh(who)
  <2>1. i \in DOMAIN sent
    BY <1>1, <1>7 DEF Confirmed, Progresses
  <2>2. PollSucceeds(i) /\ sent[i].kind # "create"
    BY <1>1, <1>2, <1>7, <2>1 DEF Confirmed, Progresses, Progress, SameTransaction
  <2>3. QED
    BY <2>2 DEF PollSucceeds
<1>8. QED
  BY <1>3, <1>4, <1>5, <1>6, <1>7

LEMMA StepFresh ==
  ChainInv /\ SessionInv /\ FreshInv /\ [WebNext]_webVars =>
    FreshInv' /\ (Loaded /\ Loaded' => overview.seen \subseteq overview'.seen)
<1> SUFFICES ASSUME ChainInv, SessionInv, FreshInv, [WebNext]_webVars
             PROVE  FreshInv' /\ (Loaded /\ Loaded' => overview.seen \subseteq overview'.seen)
  OBVIOUS
<1>1. /\ PhasesMatchChain'
      /\ Succeeded \subseteq Succeeded' /\ Confirmed' \subseteq Succeeded
      /\ Confirmed' # Confirmed => \E who : Refresh(who)
  BY StepSucceeded DEF FreshInv
<1>2. refreshes \in Seq(Refreshes) /\ SentOK
  BY DEF SessionInv, RefreshesOK
<1>3. Len(refreshes) \in Nat /\ DOMAIN refreshes = 1 .. Len(refreshes)
  BY <1>2
<1>4. refreshes # <<>> => Len(refreshes) \in DOMAIN refreshes
  BY <1>2, <1>3
<1>5. CASE UNCHANGED <<refreshes, overview, loadError>>
  <2>1. Confirmed' = Confirmed
    BY <1>1, <1>5, RefreshGrows DEF SessionInv
  <2>2. QED
    BY <1>1, <1>5, <2>1 DEF FreshInv, Newest, Loaded
<1>6. ASSUME NEW who \in Wallets \cup {Absent}, Begins(who)
      PROVE  FreshInv' /\ (Loaded /\ Loaded' => overview.seen \subseteq overview'.seen)
  <2>1. /\ refreshes' \in Seq(Refreshes)
        /\ Len(refreshes') = Len(refreshes) + 1
        /\ \A i \in DOMAIN refreshes : refreshes'[i] = refreshes[i]
        /\ refreshes'[Len(refreshes')] = NewRefresh(who)
        /\ DOMAIN refreshes' = DOMAIN refreshes \cup {Len(refreshes')}
    <3>1. NewRefresh(who) \in Refreshes
      BY <1>2, NewRefreshType
    <3>2. refreshes' = Append(refreshes, NewRefresh(who))
      BY <1>6 DEF Begins, Refresh
    <3> DEFINE r == NewRefresh(who)
    <3> HIDE DEF r
    <3>3. /\ refreshes' \in Seq(Refreshes)
          /\ Len(refreshes') = Len(refreshes) + 1
          /\ \A i \in DOMAIN refreshes : refreshes'[i] = refreshes[i]
          /\ refreshes'[Len(refreshes')] = r
          /\ DOMAIN refreshes' = 1 .. Len(refreshes')
      BY <1>2, <1>3, <3>1, <3>2 DEF r
    <3>4. QED
      BY <1>3, <3>3 DEF r
  <2>2. NewRefresh(who).seen = Succeeded /\ NewRefresh(who).open
    BY DEF NewRefresh, Succeeded
  <2>3. refreshes' # <<>>
    BY <1>3, <2>1
  <2>4. Loaded' => Loaded /\ overview' = overview
    BY <1>6 DEF Begins, Loaded
  <2>5. Newest' = NewRefresh(who)
    BY <2>1 DEF Newest
  <2>6. \A i \in DOMAIN refreshes' : refreshes'[i].seen \subseteq Succeeded'
    BY <1>1, <2>1, <2>2 DEF FreshInv
  <2>7. QED
    BY <1>1, <2>2, <2>3, <2>4, <2>5, <2>6 DEF FreshInv
<1>7. ASSUME NEW i \in DOMAIN refreshes, NEW r \in Refreshes,
             refreshes' = [refreshes EXCEPT ![i] = r]
      PROVE  /\ Confirmed' = Confirmed /\ refreshes # <<>> /\ refreshes' # <<>>
             /\ \A j \in DOMAIN refreshes : j # i => refreshes'[j] = refreshes[j]
             /\ Newest' = IF IsNewest(i) THEN r ELSE Newest
             /\ r.seen \subseteq refreshes[i].seen =>
                  \A j \in DOMAIN refreshes' : refreshes'[j].seen \subseteq Succeeded'
  <2>1. /\ refreshes' \in Seq(Refreshes) /\ Len(refreshes') = Len(refreshes)
        /\ DOMAIN refreshes' = DOMAIN refreshes
        /\ refreshes'[i] = r /\ \A j \in DOMAIN refreshes : j # i => refreshes'[j] = refreshes[j]
    BY <1>2, <1>3, <1>7
  <2>2. Confirmed' = Confirmed
    <3>1. Len(refreshes') # Len(refreshes) + 1
      <4>1. Len(refreshes') = Len(refreshes)
        BY <2>1
      <4>2. \A n \in Nat : n # n + 1
        OBVIOUS
      <4>3. QED
        BY <1>3, <4>1, <4>2, Zenon
    <3>2. RefreshesOK
      BY DEF SessionInv
    <3>3. ~\E who : Refresh(who)
      BY <3>1, <3>2, RefreshGrows
    <3>4. QED
      BY <1>1, <3>3
  <2>3. refreshes # <<>> /\ refreshes' # <<>>
    BY <1>2, <1>3, <2>1
  <2>4. Newest' = IF IsNewest(i) THEN r ELSE Newest
    BY <1>4, <2>1, <2>3 DEF Newest, IsNewest
  <2>5. r.seen \subseteq refreshes[i].seen =>
          \A j \in DOMAIN refreshes' : refreshes'[j].seen \subseteq Succeeded'
    BY <1>1, <2>1 DEF FreshInv
  <2>6. QED
    BY <2>1, <2>2, <2>3, <2>4, <2>5
<1>8. ASSUME NEW i \in DOMAIN refreshes, LearnsMeta(i)
      PROVE  FreshInv' /\ (Loaded /\ Loaded' => overview.seen \subseteq overview'.seen)
  <2>1. refreshes[i] \in Refreshes
    BY <1>2
  <2> DEFINE r == [refreshes[i] EXCEPT !.meta = GetVaultMeta(Shown)]
  <2>2. r \in Refreshes /\ r.open = refreshes[i].open /\ r.seen = refreshes[i].seen
    BY <1>8, <2>1, ShownExists DEF LearnsMeta, Refreshes
  <2>3. refreshes' = [refreshes EXCEPT ![i] = r]
    BY <1>8 DEF LearnsMeta
  <2> HIDE DEF r
  <2>4. Newest'.open = Newest.open /\ Newest'.seen = Newest.seen
    BY <1>7, <2>2, <2>3 DEF Newest, IsNewest
  <2>5. UNCHANGED <<overview, loadError>>
    BY <1>8 DEF LearnsMeta
  <2>6. QED
    BY <1>1, <1>7, <2>2, <2>3, <2>4, <2>5 DEF FreshInv, Loaded
<1>9. ASSUME NEW i \in DOMAIN refreshes, Ends(i)
      PROVE  FreshInv' /\ (Loaded /\ Loaded' => overview.seen \subseteq overview'.seen)
  <2>1. refreshes[i] \in Refreshes
    BY <1>2
  <2> DEFINE r == Closed(refreshes[i])
  <2>2. r \in Refreshes /\ r.open = FALSE /\ r.seen = {}
    BY <1>2, <2>1, ClosedType
  <2>3. refreshes' = [refreshes EXCEPT ![i] = r]
    BY <1>9 DEF Ends
  <2> HIDE DEF r
  <2>4. /\ Confirmed' = Confirmed /\ refreshes # <<>> /\ refreshes' # <<>>
        /\ Newest' = IF IsNewest(i) THEN r ELSE Newest
        /\ \A j \in DOMAIN refreshes' : refreshes'[j].seen \subseteq Succeeded'
    BY <1>7, <2>2, <2>3
  <2>5. CASE ~IsNewest(i) /\ UNCHANGED <<overview, loadError>>
    BY <1>1, <2>4, <2>5 DEF FreshInv, Loaded
  <2>6. CASE IsNewest(i) /\ loadError' /\ UNCHANGED overview
    BY <1>1, <2>2, <2>4, <2>6 DEF FreshInv, Loaded
  <2>7. CASE IsNewest(i) /\ overview' = Missing
    BY <1>1, <2>2, <2>4, <2>7 DEF FreshInv, Loaded
  <2>8. CASE IsNewest(i) /\ overview' = WholeOverview(refreshes[i])
    <3>1. overview'.seen = Newest.seen /\ Newest.open
      BY <1>9, <2>8 DEF WholeOverview, Ends, Newest, IsNewest
    <3>2. QED
      BY <1>1, <2>2, <2>4, <2>8, <3>1 DEF FreshInv, Newest, IsNewest
  <2>9. CASE ~IsNewest(i) /\ loadError' /\ UNCHANGED overview
    BY <1>1, <2>4, <2>9 DEF FreshInv, Loaded
  <2>10. QED
    BY <1>9, <2>5, <2>6, <2>7, <2>8, <2>9 DEF Ends
<1>10. QED
  BY <1>5, <1>6, <1>8, <1>9, StepsOfOverview DEF OverviewMoves

LEMMA StartFresh == SoundChain /\ SessionStart => FreshInv
<1> SUFFICES ASSUME SoundChain, SessionStart
             PROVE  FreshInv
  OBVIOUS
<1>1. sent = <<>> /\ (Arriving \/ Opened)
  BY DEF SessionStart
<1>2. PhasesMatchChain /\ Confirmed = {} /\ Succeeded = {}
  BY <1>1 DEF PhasesMatchChain, Confirmed, Succeeded
<1>3. NewRefresh(account).seen = {}
  BY <1>1 DEF NewRefresh
<1>4. CASE Arriving
  <2>1. ~Loaded
    BY <1>4 DEF Arriving, Loaded
  <2>2. \A i \in DOMAIN refreshes : refreshes[i].seen = {}
    BY <1>3, <1>4 DEF Arriving
  <2>3. QED
    BY <1>2, <2>1, <2>2 DEF FreshInv
<1>5. CASE Opened
  <2>1. refreshes = <<>> /\ overview.seen = {}
    BY <1>3, <1>5 DEF Opened, WholeOverview, NewRefresh
  <2>2. QED
    BY <1>2, <2>1 DEF FreshInv
<1>6. QED
  BY <1>1, <1>4, <1>5

LEMMA FreshInvariant == AnySession => []FreshInv
<1>1. (ChainInv /\ SessionInv) /\ FreshInv /\ [WebNext]_webVars => FreshInv'
  BY StepFresh
<1>2. QED
  BY <1>1, StartFresh, SessionSound, PTL DEF AnySession

(* The overview never goes back behind a transaction it has shown, however *)
(* many refreshes overlap and in whatever order their answers come         *)
(* (useVaultOverview.ts, the sequence number).                             *)
THEOREM OverviewsAdvance == AnySession => OverviewAdvances
<1> DEFINE A == Loaded /\ Loaded' /\ overview'.viewer = overview.viewer
                  => overview.seen \subseteq overview'.seen
<1>1. (ChainInv /\ SessionInv) /\ FreshInv /\ [WebNext]_webVars => [A]_webVars
  BY StepFresh
<1>2. QED
  BY <1>1, FreshInvariant, SessionSound, PTL DEF AnySession, OverviewAdvances

-----------------------------------------------------------------------------
(* What a page says of a transaction.                                      *)

FundsOpen == form # Absent /\ page \in {"deposit", "redeem"}

(* What a page may be mounted over: the overview shown, or a new one. *)
Mountable(o) ==
  \/ Loaded /\ o = overview
  \/ \E i \in DOMAIN refreshes : refreshes[i].meta # Unknown /\ o = WholeOverview(refreshes[i])

(* What the form of a deposit or a redemption previews, which outcome it   *)
(* shows, and which asset it is about.                                     *)
FundsMoves ==
  /\ form'.preview \in Nat =>
       \/ form'.preview = form'.amount
       \/ FundsOpen /\ form'.preview = form.preview /\ form'.amount = form.amount
  /\ \/ form'.done = 0
     \/ FundsOpen /\ form'.done = form.done
     \/ \E i \in DOMAIN sent : ShowOutcome(i) /\ form'.done = i
  /\ \/ FundsOpen /\ form'.asset \in SupportedAssets(overview.meta.assets) \cup {form.asset}
     \/ \E o : Mountable(o) /\ form' = NewForm(page', o)

LEMMA NewFundsForm ==
  ASSUME NEW tab \in {"deposit", "redeem"}, NEW o
  PROVE  NewForm(tab, o).preview \notin Nat /\ NewForm(tab, o).done = 0
  BY ReadAssumption DEF NewForm

LEMMA FundsEdited ==
  ASSUME ChainInv, SessionInv, FundsOpen,
         \/ ChooseAsset \/ EnterAmount \/ ChoosePool \/ EnterShares \/ StartOver
         \/ PreviewArrives \/ PreviewFails
         \/ \E i \in DOMAIN sent : ShowOutcome(i)
  PROVE  FundsMoves
<1>1. form \in FundForms /\ SentOK
  BY DEF FundsOpen, SessionInv, FormOK, Forms, FundForms
<1>2. Loading \notin Nat /\ Unknown \notin Nat /\ Refused \notin Nat
  BY ReadAssumption
<1>3. \A f \in FundForms :
        StartPreview(f).preview \notin Nat /\ StartPreview(f).done = f.done /\ StartPreview(f).asset = f.asset
  BY <1>2 DEF StartPreview, FundForms
<1>4. CASE ChooseAsset \/ ChoosePool
  <2>1. PICK a \in Assets :
          /\ a \in SupportedAssets(overview.meta.assets)
          /\ form' = StartPreview([form EXCEPT !.asset = a, !.amount = 0])
    BY <1>4 DEF ChooseAsset, ChoosePool, Choose, SupportedAssets, Assets
  <2> DEFINE f == [form EXCEPT !.asset = a, !.amount = 0]
  <2>2. f \in FundForms /\ f.done = form.done /\ f.asset = a
    BY <1>1 DEF FundForms
  <2> HIDE DEF f
  <2>3. form'.preview \notin Nat /\ form'.done = form.done /\ form'.asset = a
    BY <1>3, <2>1, <2>2 DEF f
  <2>4. QED
    BY <2>1, <2>3 DEF FundsMoves
<1>5. CASE EnterAmount \/ EnterShares
  <2>1. PICK n \in Nat : form' = StartPreview([form EXCEPT !.amount = n])
    BY <1>5, InputAssumption DEF EnterAmount, EnterShares, Enter
  <2> DEFINE f == [form EXCEPT !.amount = n]
  <2>2. f \in FundForms /\ f.done = form.done /\ f.asset = form.asset
    BY <1>1 DEF FundForms
  <2> HIDE DEF f
  <2>3. form'.preview \notin Nat /\ form'.done = form.done /\ form'.asset = form.asset
    BY <1>3, <2>1, <2>2 DEF f
  <2>4. QED
    BY <2>3 DEF FundsMoves
<1>6. CASE StartOver
  <2>1. /\ form'.preview = form.preview /\ form'.amount = form.amount /\ form'.done = 0
        /\ form'.asset = form.asset
    BY <1>1, <1>6 DEF StartOver, FundForms
  <2>2. QED
    BY <2>1 DEF FundsMoves
<1>7. CASE PreviewArrives \/ PreviewFails
  <2>1. form.asset \in Assets /\ form.amount \in Nat
    BY <1>1 DEF FundForms
  <2>2. PICK x : form' = [form EXCEPT !.preview = x] /\ (x \in Nat => x = form.amount)
    BY <1>2, <1>7, <2>1, PreviewTypes DEF PreviewArrives, PreviewFails
  <2>3. /\ form'.preview = x /\ form'.amount = form.amount /\ form'.done = form.done
        /\ form'.asset = form.asset
    BY <1>1, <2>2 DEF FundForms
  <2>4. QED
    BY <2>2, <2>3 DEF FundsMoves
<1>8. ASSUME NEW i \in DOMAIN sent, ShowOutcome(i)
      PROVE  FundsMoves
  <2> DEFINE f == [form EXCEPT !.done = i, !.amount = 0]
  <2>1. i \in Nat
    BY <1>1, SentDomain
  <2>2. f \in FundForms /\ f.done = i /\ f.asset = form.asset
    BY <1>1, <2>1 DEF FundForms
  <2>3. form' = StartPreview(f)
    BY <1>8 DEF ShowOutcome
  <2> HIDE DEF f
  <2>4. form'.preview \notin Nat /\ form'.done = i /\ form'.asset = form.asset
    BY <1>3, <2>2, <2>3
  <2>5. QED
    BY <1>8, <2>4 DEF FundsMoves
<1>9. QED
  BY <1>4, <1>5, <1>6, <1>7, <1>8

LEMMA StepsOfFunds ==
  ASSUME ChainInv, SessionInv, [WebNext]_webVars, FundsOpen'
  PROVE  FundsMoves
<1>1. AccountOK /\ FormOK /\ SentOK /\ RefreshesOK
  BY DEF SessionInv
<1>2. CASE UNCHANGED <<form, page>>
  BY <1>2 DEF FundsMoves, FundsOpen
<1>3. ASSUME NEW o, Mountable(o), form' = NewForm(page', o)
      PROVE  FundsMoves
  BY <1>3, NewFundsForm DEF FundsMoves, FundsOpen
<1>4. CASE page' # page
  <2>1. form' = NewForm(page', overview) /\ Mountable(overview)
    BY <1>1, <1>4, StepsOfPage DEF PageMoves, Mountable
  <2>2. QED
    BY <1>3, <2>1
<1>5. ASSUME NEW i \in DOMAIN refreshes, ReadMeta(i) \/ ReadRest(i)
      PROVE  FundsMoves
  <2>1. page' = page
    BY <1>5 DEF ReadMeta, ReadRest
  <2>2. \/ UNCHANGED form
        \/ form' = [form EXCEPT !.preview = Loading] /\ form # Absent
        \/ \E o : Mountable(o) /\ form' = NewForm(page, o)
    <3> DEFINE o == WholeOverview(refreshes[i])
    <3>1. ReadRest(i) => Mountable(o)
      BY DEF ReadRest, Mountable
    <3>2. QED
      BY <1>5, <2>1, <3>1 DEF ReadMeta, ReadRest, EndRefresh, Repriced, FundsOpen
  <2>3. CASE form' = [form EXCEPT !.preview = Loading] /\ form # Absent
    <3>1. form \in FundForms /\ FundsOpen
      BY <1>1, <2>1, <2>3 DEF FormOK, Forms, FundsOpen
    <3>2. form'.preview \notin Nat /\ form'.done = form.done /\ form'.asset = form.asset
      BY <2>3, <3>1, ReadAssumption DEF FundForms
    <3>3. QED
      BY <3>1, <3>2 DEF FundsMoves
  <2>4. QED
    BY <1>2, <1>3, <2>1, <2>2, <2>3
<1>6. CASE Reads
  <2>1. CASE PreviewArrives \/ PreviewFails
    <3>1. FundsOpen
      BY <2>1 DEF PreviewArrives, PreviewFails, FundsOpen
    <3>2. QED
      BY <2>1, <3>1, FundsEdited
  <2>2. QED
    BY <1>2, <1>5, <1>6, <2>1 DEF Reads, ReadFails, TryAgain, ReadFacts, ReadFact, ReadBalances
<1>7. CASE Editor /\ page' = page
  <2>1. CASE ChooseAsset \/ EnterAmount \/ ChoosePool \/ EnterShares \/ StartOver
    <3>1. FundsOpen
      BY <1>7, <2>1 DEF ChooseAsset, EnterAmount, ChoosePool, EnterShares, StartOver, Editing, OnPage,
         FundsOpen
    <3>2. QED
      BY <2>1, <3>1, FundsEdited
  <2>2. CASE SubmitDeposit \/ SubmitRedeem \/ SaveMeta \/ SaveRisk \/ TogglePause
    BY <1>2, <2>2 DEF SubmitDeposit, SubmitRedeem, SaveMeta, SaveRisk, TogglePause, SubmitOnly
  <2>3. QED
    BY <1>7, <2>1, <2>2 DEF Editor, EditSettings, Settling, ChoosePurpose, EnterName, ChooseMode,
       ChooseAccess, EnterRisk, ChooseAutonomy, Continue, Back, Create, CanCreate, BackToReview,
       OnStep, OnPage, FundsOpen
<1>8. CASE Navigation /\ page' = page
  BY <1>2, <1>8 DEF Navigation, Connect, Disconnect, SetAccount, OpenTab, FundsOpen
<1>9. ASSUME NEW i \in DOMAIN sent, Following(i)
      PROVE  FundsMoves
  <2>1. CASE ShowOutcome(i)
    <3>1. FundsOpen
      BY <2>1 DEF ShowOutcome, FundsOpen
    <3>2. QED
      BY <2>1, <3>1, FundsEdited
  <2>2. QED
    BY <1>2, <1>9, <2>1 DEF Following, WalletSigns, WalletFails, PollSucceeds, PollFails, WaitTimesOut
<1>10. QED
  BY <1>2, <1>4, <1>6, <1>7, <1>8, <1>9
  DEF WebNext, webVars, sessionVars, Dashboard, Execute, Abort, Drop, Unseen, OthersMove

(* When the outcome of a transaction may be shown. *)
LEMMA StepReadBack ==
  ASSUME ChainInv, SessionInv, [WebNext]_webVars, NEW i \in DOMAIN sent', sent'[i].readBack # 0
  PROVE  /\ i \in DOMAIN sent
         /\ sent[i].readBack # 0 \/ (PollSucceeds(i) /\ sent[i].kind # "create")
<1>1. SentOK /\ \A j \in DOMAIN sent : sent[j] \in Transactions
  BY DEF SessionInv, SentOK
<1>2. CASE UNCHANGED sent
  BY <1>2
<1>3. CASE sent' = Unmounted
  BY <1>1, <1>3 DEF Unmounted, Transactions
<1>4. CASE SubmitDeposit \/ SubmitRedeem \/ SaveMeta \/ SaveRisk \/ TogglePause \/ Create
  <2>1. PICK kind, args : sent' = Append(sent, Submission(kind, args))
    BY <1>4, SubmissionsFit
  <2> DEFINE e == Submission(kind, args)
  <2>2. e.readBack = 0
    BY DEF Submission
  <2> HIDE DEF e
  <2>3. sent \in Seq(Transactions \cup {e}) /\ e \in Transactions \cup {e}
    <3> DEFINE T == Transactions \cup {e}
    <3>1. Transactions \subseteq T /\ sent \in Seq(Transactions)
      BY <1>1 DEF SentOK
    <3> HIDE DEF T
    <3>2. sent \in Seq(T)
      BY <3>1, SeqMonotonic
    <3>3. QED
      BY <3>2 DEF T
  <2>4. /\ DOMAIN sent' = 1 .. Len(sent) + 1
        /\ \A j \in DOMAIN sent : sent'[j] = sent[j]
        /\ sent'[Len(sent) + 1] = e
    BY <1>1, <2>1, <2>3, SentDomain DEF e
  <2>5. i \in DOMAIN sent \/ i = Len(sent) + 1
    BY <1>1, <2>4, SentDomain
  <2>6. QED
    BY <2>2, <2>4, <2>5
<1>5. ASSUME NEW j \in DOMAIN sent, NEW e, SetSent(j, e),
             e.readBack \in {0, sent[j].readBack} \/ (PollSucceeds(j) /\ sent[j].kind # "create")
      PROVE  /\ i \in DOMAIN sent
             /\ sent[i].readBack # 0 \/ (PollSucceeds(i) /\ sent[i].kind # "create")
  <2>1. sent' = [sent EXCEPT ![j] = e]
    BY <1>5 DEF SetSent
  <2>2. i \in DOMAIN sent /\ sent'[i] = IF i = j THEN e ELSE sent[i]
    BY <1>1, <2>1 DEF SentOK
  <2>3. QED
    BY <1>5, <2>2
<1>6. ASSUME NEW j \in DOMAIN sent, Following(j) \/ Execute(j) \/ Abort(j) \/ Drop(j)
      PROVE  \E e : /\ SetSent(j, e)
                    /\ \/ e.readBack \in {0, sent[j].readBack}
                       \/ PollSucceeds(j) /\ sent[j].kind # "create"
  <2>1. sent[j] \in Transactions
    BY <1>1
  <2> DEFINE Fits(e) == \/ e.readBack \in {0, sent[j].readBack}
                        \/ PollSucceeds(j) /\ sent[j].kind # "create"
  <2>2. /\ \A ph, l, p : Fits([sent[j] EXCEPT !.phase = ph, !.ledger = l, !.signer = p])
        /\ \A ph : Fits([sent[j] EXCEPT !.phase = ph])
        /\ \A l : Fits([sent[j] EXCEPT !.ledger = l])
        /\ \A l, n : Fits([sent[j] EXCEPT !.ledger = l, !.got = n])
        /\ Fits([sent[j] EXCEPT !.readBack = 0])
    BY <2>1 DEF Transactions
  <2>3. PollSucceeds(j) /\ sent[j].kind # "create" => \A e : Fits(e)
    OBVIOUS
  <2> HIDE DEF Fits
  <2>4. CASE PollSucceeds(j) /\ sent[j].kind # "create"
    <3>1. PICK e : SetSent(j, e)
      BY <2>4 DEF PollSucceeds
    <3>2. QED
      BY <2>3, <2>4, <3>1 DEF Fits
  <2>5. \A e : SetSent(j, e) /\ Fits(e) => \E f : SetSent(j, f) /\ Fits(f)
    OBVIOUS
  <2>6. CASE Following(j) /\ ~(PollSucceeds(j) /\ sent[j].kind # "create")
    BY <2>2, <2>5, <2>6 DEF Following, WalletSigns, WalletFails, PollSucceeds, PollFails, WaitTimesOut,
       ShowOutcome, Fits
  <2>7. CASE Execute(j) \/ Abort(j) \/ Drop(j)
    BY <2>2, <2>5, <2>7 DEF Execute, Abort, Drop, Fits
  <2>8. QED
    BY <1>6, <2>4, <2>6, <2>7
<1>7. QED
  BY <1>2, <1>3, <1>4, <1>5, <1>6, StepsOfTransactions DEF TransactionMoves

(* A transaction that was just submitted asks for what its form showed. *)
LEMMA StepSubmitted ==
  ASSUME ChainInv, SessionInv, [WebNext]_webVars, NEW i \in DOMAIN sent', i \notin DOMAIN sent,
         sent'[i].kind \in {"deposit", "redeem"}
  PROVE  /\ FundsOpen /\ form.preview \in Nat
         /\ sent'[i].args.shown = form.preview /\ sent'[i].args.amount = form.amount
<1>1. SentOK
  BY DEF SessionInv
<1>2. \A j \in DOMAIN sent : \A e : SetSent(j, e) => DOMAIN sent' = DOMAIN sent
  BY DEF SetSent
<1>3. PICK kind, args :
        /\ sent' = Append(sent, Submission(kind, args))
        /\ \/ /\ SubmitDeposit \/ SubmitRedeem
              /\ args = [asset |-> form.asset, amount |-> form.amount, shown |-> form.preview]
           \/ kind \notin {"deposit", "redeem"}
  <2>1. CASE SubmitDeposit \/ SubmitRedeem
    BY <2>1 DEF SubmitDeposit, SubmitRedeem, Send
  <2>2. CASE SaveMeta \/ SaveRisk \/ TogglePause \/ Create
    BY <2>2 DEF SaveMeta, SaveRisk, TogglePause, Create, Send
  <2>3. CASE \E j \in DOMAIN sent : Following(j) \/ Execute(j) \/ Abort(j) \/ Drop(j)
    BY <1>2, <2>3 DEF Following, WalletSigns, WalletFails, PollSucceeds, PollFails, WaitTimesOut,
       ShowOutcome, Execute, Abort, Drop
  <2>4. QED
    BY <2>1, <2>2, <2>3, StepsOfTransactions DEF TransactionMoves, Unmounted
<1> DEFINE e == Submission(kind, args)
<1>4. e.kind = kind /\ e.args = args
  BY DEF Submission
<1>5. sent'[i] = e
  <2> DEFINE T == Transactions \cup {e}
  <2>1. Transactions \subseteq T /\ sent \in Seq(Transactions) /\ e \in T
    BY <1>1 DEF SentOK
  <2> HIDE DEF e, T
  <2>2. sent \in Seq(T) /\ sent' = Append(sent, e)
    BY <1>3, <2>1, SeqMonotonic DEF e
  <2>3. i = Len(sent) + 1
    BY <1>1, <2>1, <2>2, SentDomain
  <2>4. QED
    BY <1>1, <2>1, <2>2, <2>3, SentDomain
<1> HIDE DEF e
<1>6. (SubmitDeposit \/ SubmitRedeem) /\ args = [asset |-> form.asset, amount |-> form.amount, shown |-> form.preview]
  BY <1>3, <1>4, <1>5
<1>7. sent'[i].args.shown = form.preview /\ sent'[i].args.amount = form.amount
  BY <1>4, <1>5, <1>6
<1>8. FundsOpen /\ form.preview \in Nat
  BY <1>6 DEF SubmitDeposit, SubmitRedeem, CanDeposit, CanRedeem, Editing, OnPage, PreviewShown, FundsOpen
<1>9. QED
  BY <1>7, <1>8

(* What was promised of a deposit or a redemption is what it asks for, and *)
(* what the chain gave.                                                    *)
PreviewsTrue ==
  /\ \A i \in DOMAIN sent :
       sent[i].kind \in {"deposit", "redeem"} => sent[i].args.shown = sent[i].args.amount
  /\ PreviewsHonoured
  /\ FundsOpen /\ form.preview \in Nat => form.preview = form.amount

CreationsTrue ==
  /\ \A i \in DOMAIN sent :
       sent[i].kind = "create" /\ sent[i].ledger = "success" => sent[i].got \in VaultIds
  /\ CreatedAsReviewed

(* The outcome a form shows, or is about to show, was confirmed. *)
ShownTrue ==
  /\ \A i \in DOMAIN sent : sent[i].readBack # 0 => i \in Confirmed
  /\ FundsOpen /\ form.done # 0 => form.done \in Confirmed

OutcomeInv == PreviewsTrue /\ CreationsTrue /\ ShownTrue

LEMMA ExecutedGot ==
  ASSUME SentOK, NEW i \in DOMAIN sent, Execute(i)
  PROVE  sent'[i].got = Outcome(sent[i])
<1>1. sent[i] \in Transactions
  BY DEF SentOK
<1>2. sent'[i] = [sent[i] EXCEPT !.ledger = "success", !.got = Outcome(sent[i])]
  BY DEF Execute, SetSent, SentOK
<1>3. QED
  BY <1>1, <1>2 DEF Transactions

LEMMA StepPreviews ==
  ASSUME ChainInv, SessionInv, PreviewsTrue, [WebNext]_webVars
  PROVE  PreviewsTrue'
<1>1. SentOK /\ Progresses
  BY StepSent DEF SessionInv
<1>2. \A i \in DOMAIN sent : WellSent(sent[i]) /\ Progress(sent[i], sent'[i])
  BY <1>1 DEF SentOK, Progresses
<1>3. ASSUME NEW i \in DOMAIN sent', sent'[i].kind \in {"deposit", "redeem"}
      PROVE  sent'[i].args.shown = sent'[i].args.amount
  <2>1. CASE i \in DOMAIN sent
    BY <1>2, <1>3, <2>1 DEF PreviewsTrue, Progress, SameTransaction
  <2>2. CASE i \notin DOMAIN sent
    BY <1>3, <2>2, StepSubmitted DEF PreviewsTrue
  <2>3. QED
    BY <2>1, <2>2
<1>4. ASSUME NEW i \in DOMAIN sent', sent'[i].ledger = "success", sent'[i].kind \in {"deposit", "redeem"}
      PROVE  sent'[i].got = sent'[i].args.shown
  <2>1. i \in DOMAIN sent
    BY <1>1, <1>4 DEF Progresses
  <2>2. Progress(sent[i], sent'[i]) /\ SameTransaction(sent[i], sent'[i])
    BY <1>2, <2>1 DEF Progress
  <2>3. CASE sent[i].ledger = "success"
    <3>1. sent'[i].got = sent[i].got
      BY <1>2, <2>1, <2>2, <2>3
      DEF Progress, Untouched, Followed, Broadcast, Taken, WellSent
    <3>2. QED
      BY <1>4, <2>1, <2>2, <2>3, <3>1 DEF PreviewsTrue, PreviewsHonoured, SameTransaction
  <2>4. CASE Execute(i)
    <3>1. sent'[i].got = Outcome(sent[i])
      BY <1>1, <2>1, <2>4, ExecutedGot
    <3>2. Outcome(sent[i]) = sent[i].args.amount
      BY <1>1, <1>4, <2>1, <2>2, <2>4, OutcomeIs DEF SameTransaction
    <3>3. QED
      BY <1>4, <2>1, <2>2, <3>1, <3>2 DEF PreviewsTrue, SameTransaction
  <2>5. QED
    BY <1>1, <1>4, <2>1, <2>3, <2>4 DEF Progresses
<1>5. FundsOpen' /\ form'.preview \in Nat => form'.preview = form'.amount
  BY StepsOfFunds DEF PreviewsTrue, FundsMoves
<1>6. QED
  BY <1>3, <1>4, <1>5 DEF PreviewsTrue, PreviewsHonoured

LEMMA ExecutedCreation ==
  ASSUME ChainInv, SentOK, NEW i \in DOMAIN sent, sent[i].kind = "create", Execute(i)
  PROVE  /\ sent'[i].got \in VaultIds
         /\ LET v == vaults'[sent'[i].got] IN
            /\ v # Absent /\ v.owner = sent[i].signer
            /\ v.purpose = sent[i].args.purpose /\ v.assets = sent[i].args.mode
<1> DEFINE e == sent[i]
<1>1. CreateCall(e)
  BY DEF Execute, Call, DepositCall, RedeemCall, CreateCall, MetaCall, RiskCall, PauseCall
<1>2. e \in Transactions /\ WellSent(e) /\ e.ledger = "pending"
  BY DEF SentOK, Execute, Pending
<1>3. /\ sent'[i].got = nextVaultId /\ e.signer \in Principals
      /\ e.args.open \in BOOLEAN /\ e.args.purpose \in Nat /\ e.args.mode \in Nat
  BY <1>2, ExecutedGot, SessionAssumption DEF Outcome, WellSent, ArgsOf
<1> HIDE DEF e
<1> DEFINE new == [owner |-> e.signer, purpose |-> e.args.purpose, assets |-> e.args.mode,
                   openDeposits |-> e.args.open, paused |-> FALSE]
<1>4. /\ nextVaultId <= MaxVaults /\ e.args.purpose <= 5 /\ e.args.mode >= 1 /\ e.args.mode <= 3
      /\ vaults' = [vaults EXCEPT ![nextVaultId] = new]
  BY <1>1 DEF CreateCall, CreateVault
<1>5. nextVaultId \in VaultIds /\ vaults \in [VaultIds -> Vault \cup {Absent}]
  BY <1>4 DEF ChainInv, PoolInv, TypeOK, VaultTypeOK, VaultIds
<1>6. new \in Vault
  BY <1>3, <1>4 DEF Vault
<1>7. new # Absent
  BY <1>6, VaultAssumption
<1>8. vaults'[nextVaultId] = new
  BY <1>4, <1>5
<1>9. QED
  BY <1>3, <1>5, <1>7, <1>8 DEF e

LEMMA StepCreations ==
  ASSUME ChainInv, SessionInv, CreationsTrue, [WebNext]_webVars
  PROVE  CreationsTrue'
<1>1. SentOK /\ Progresses
  BY StepSent DEF SessionInv
<1>2. \A i \in DOMAIN sent : WellSent(sent[i]) /\ Progress(sent[i], sent'[i])
  BY <1>1 DEF SentOK, Progresses
<1> DEFINE True(i) == LET v == vaults'[sent'[i].got] IN
                      /\ v # Absent /\ v.owner = sent'[i].signer
                      /\ v.purpose = sent'[i].args.purpose /\ v.assets = sent'[i].args.mode
<1>3. ASSUME NEW i \in DOMAIN sent', sent'[i].kind = "create", sent'[i].ledger = "success"
      PROVE  sent'[i].got \in VaultIds /\ True(i)
  <2>1. i \in DOMAIN sent
    BY <1>1, <1>3 DEF Progresses
  <2>2. Progress(sent[i], sent'[i]) /\ SameTransaction(sent[i], sent'[i])
    BY <1>2, <2>1 DEF Progress
  <2>3. CASE sent[i].ledger = "success"
    <3>1. sent'[i].got = sent[i].got /\ sent'[i].signer = sent[i].signer
      BY <1>2, <2>1, <2>2, <2>3 DEF Progress, Untouched, Followed, Broadcast, Taken, WellSent
    <3>2. sent[i].kind = "create" /\ sent'[i].args = sent[i].args
      BY <1>3, <2>2 DEF SameTransaction
    <3> DEFINE v == sent[i].got
    <3>3. v \in VaultIds /\ vaults[v] # Absent
      BY <2>1, <2>3, <3>2 DEF CreationsTrue, CreatedAsReviewed
    <3>4. /\ vaults[v].owner = sent[i].signer
          /\ vaults[v].purpose = sent[i].args.purpose /\ vaults[v].assets = sent[i].args.mode
      BY <2>1, <2>3, <3>2 DEF CreationsTrue, CreatedAsReviewed
    <3>5. vaults'[v] # Absent /\ SameTerms(vaults[v], vaults'[v])
      BY <1>1, <3>3, VaultsStay
    <3>6. QED
      BY <3>1, <3>2, <3>3, <3>4, <3>5 DEF SameTerms
  <2>4. CASE Execute(i)
    <3>1. sent'[i].signer = sent[i].signer
      BY <1>2, <2>1, <2>2, <2>4 DEF Execute, Pending, WellSent, Progress, Untouched, Followed, Broadcast, Taken
    <3>2. sent[i].kind = "create" /\ sent'[i].args = sent[i].args
      BY <1>3, <2>2 DEF SameTransaction
    <3>3. QED
      BY <1>1, <2>1, <2>4, <3>1, <3>2, ExecutedCreation
  <2>5. QED
    BY <1>1, <1>3, <2>1, <2>3, <2>4 DEF Progresses
<1>4. QED
  BY <1>3 DEF CreationsTrue, CreatedAsReviewed

LEMMA StepShown ==
  ASSUME ChainInv, SessionInv, FreshInv, ShownTrue, [WebNext]_webVars
  PROVE  ShownTrue'
<1>1. Confirmed \subseteq Confirmed'
  BY StepSucceeded DEF FreshInv
<1>2. SentOK /\ SentOK' /\ Progresses
  BY StepSent DEF SessionInv
<1>3. ASSUME NEW i \in DOMAIN sent', sent'[i].readBack # 0
      PROVE  i \in Confirmed'
  <2>1. i \in DOMAIN sent
    BY <1>3, StepReadBack
  <2>2. CASE sent[i].readBack # 0
    BY <1>1, <2>1, <2>2 DEF ShownTrue
  <2>3. CASE PollSucceeds(i) /\ sent[i].kind # "create"
    <3>1. sent'[i].kind = sent[i].kind
      BY <1>2, <2>1 DEF Progresses, Progress, SameTransaction
    <3>2. sent'[i].phase = "confirmed"
      <4>1. sent[i] \in Transactions
        BY <1>2, <2>1 DEF SentOK
      <4>2. \A n : [sent[i] EXCEPT !.phase = "confirmed", !.readBack = n].phase = "confirmed"
        BY <4>1 DEF Transactions
      <4>3. QED
        BY <1>2, <2>1, <2>3, <4>2 DEF PollSucceeds, SetSent, SentOK
    <3>3. QED
      BY <1>3, <2>3, <3>1, <3>2 DEF Confirmed
  <2>4. QED
    BY <1>3, <2>2, <2>3, StepReadBack
<1>4. ASSUME FundsOpen', form'.done # 0
      PROVE  form'.done \in Confirmed'
  <2>1. CASE FundsOpen /\ form'.done = form.done
    BY <1>1, <1>4, <2>1 DEF ShownTrue
  <2>2. ASSUME NEW i \in DOMAIN sent, ShowOutcome(i), form'.done = i
        PROVE  form'.done \in Confirmed'
    <3>1. sent[i].readBack # 0
      BY <2>2 DEF ShowOutcome
    <3>2. QED
      BY <1>1, <2>2, <3>1 DEF ShownTrue
  <2>3. QED
    BY <1>4, <2>1, <2>2, StepsOfFunds DEF FundsMoves
<1>5. QED
  BY <1>3, <1>4 DEF ShownTrue

LEMMA StartOutcomes == SessionStart => OutcomeInv
<1> SUFFICES ASSUME SessionStart
             PROVE  OutcomeInv
  OBVIOUS
<1>1. sent = <<>> /\ (Arriving \/ Opened)
  BY DEF SessionStart
<1>2. FundsOpen => form.preview \notin Nat /\ form.done = 0
  BY <1>1, NewFundsForm DEF Arriving, Opened, FundsOpen
<1>3. QED
  BY <1>1, <1>2 DEF OutcomeInv, PreviewsTrue, PreviewsHonoured, CreationsTrue, CreatedAsReviewed,
     ShownTrue

(* What a page says of a transaction is what became of it: a confirmed one *)
(* was executed and a failed one never is, a deposit minted and a          *)
(* redemption paid what was previewed, a creation made the vault that was  *)
(* reviewed, and the overview beside an outcome was read after it          *)
(* (useTransaction.ts, the submits of the deposit, redeem and creation     *)
(* pages).                                                                 *)
THEOREM OutcomesAreTrue == AnySession => []OutcomesTrue
<1>1. SessionStart => OutcomeInv
  BY StartOutcomes
<1>2. (ChainInv /\ SessionInv) /\ FreshInv /\ OutcomeInv /\ [WebNext]_webVars => OutcomeInv'
  BY StepPreviews, StepCreations, StepShown DEF OutcomeInv
<1>3. SessionInv /\ FreshInv /\ OutcomeInv => OutcomesTrue
  <2> SUFFICES ASSUME SessionInv, FreshInv, OutcomeInv
               PROVE  OutcomesTrue
    OBVIOUS
  <2>1. PhasesMatchChain /\ PreviewsHonoured /\ CreatedAsReviewed
    BY DEF FreshInv, OutcomeInv, PreviewsTrue, CreationsTrue
  <2>2. ASSUME Loaded, form # Absent, page \in {"deposit", "redeem"}, ShowsOutcome, ~loadError,
               \A i \in DOMAIN refreshes : ~refreshes[i].open
        PROVE  form.done \in overview.seen
    <3>1. form.done # 0
      BY <2>2 DEF ShowsOutcome
    <3>2. form.done \in Confirmed
      BY <2>2, <3>1 DEF OutcomeInv, ShownTrue, FundsOpen
    <3>3. refreshes # <<>>
      BY <3>2 DEF FreshInv
    <3>4. Len(refreshes) \in DOMAIN refreshes
      BY <3>3 DEF SessionInv, RefreshesOK
    <3>5. ~Newest.open
      BY <2>2, <3>4 DEF Newest
    <3>6. QED
      BY <2>2, <3>2, <3>3, <3>5 DEF FreshInv
  <2>3. QED
    BY <2>1, <2>2 DEF OutcomesTrue, OutcomeReadBack
<1>4. QED
  BY <1>1, <1>2, <1>3, SessionSound, FreshInvariant, PTL DEF AnySession

-----------------------------------------------------------------------------
(* The dashboard.                                                          *)

(* The indexes as the app reads them are those the contract means. *)
IndexesAreRead ==
  \A p \in Principals :
    /\ GetOwnerVaultIds(p) = {v \in VaultIds : vaults[v] # Absent /\ vaults[v].owner = p}
    /\ GetHolderVaultIds(p) = holderRegistered[p]

LEMMA IndexesRead == ChainInv => IndexesAreRead
<1> SUFFICES ASSUME ChainInv, NEW p \in Principals
             PROVE  /\ GetOwnerVaultIds(p) = {v \in VaultIds : vaults[v] # Absent /\ vaults[v].owner = p}
                    /\ GetHolderVaultIds(p) = holderRegistered[p]
  BY DEF IndexesAreRead
<1>1. /\ ownerVaults[p] \in Seq(VaultIds) /\ holderVaults[p] \in Seq(VaultIds)
      /\ holderRegistered[p] \in SUBSET VaultIds
  BY DEF ChainInv, PoolInv, TypeOK, VaultTypeOK
<1>2. ASSUME NEW s \in Seq(VaultIds), NEW v \in VaultIds
      PROVE  /\ Occurrences(v, s) = 1 => \E i \in DOMAIN s : s[i] = v
             /\ Occurrences(v, s) = 0 => \A i \in DOMAIN s : s[i] # v
  <2> DEFINE S == {i \in DOMAIN s : s[i] = v}
  <2>1. IsFiniteSet(S)
    <3>1. DOMAIN s = 1 .. Len(s) /\ Len(s) \in Nat
      OBVIOUS
    <3>2. IsFiniteSet(DOMAIN s)
      BY <3>1, FS_Interval
    <3>3. QED
      BY <3>2, FS_Subset
  <2>2. Cardinality(S) = 0 <=> S = {}
    BY <2>1, FS_EmptySet
  <2>3. Occurrences(v, s) = Cardinality(S)
    BY DEF Occurrences
  <2>4. QED
    BY <2>2, <2>3
<1>4. \A v \in VaultIds :
        /\ Occurrences(v, ownerVaults[p]) = IF vaults[v] # Absent /\ vaults[v].owner = p THEN 1 ELSE 0
        /\ Occurrences(v, holderVaults[p]) = IF v \in holderRegistered[p] THEN 1 ELSE 0
  BY DEF ChainInv, IndexesComplete
<1>5. GetOwnerVaultIds(p) = {v \in VaultIds : vaults[v] # Absent /\ vaults[v].owner = p}
  <2>1. \A i \in DOMAIN ownerVaults[p] : ownerVaults[p][i] \in VaultIds
    BY <1>1
  <2>2. QED
    BY <1>1, <1>2, <1>4, <2>1 DEF GetOwnerVaultIds, IndexedIds
<1>6. GetHolderVaultIds(p) = holderRegistered[p]
  <2>1. \A i \in DOMAIN holderVaults[p] : holderVaults[p][i] \in VaultIds
    BY <1>1
  <2>2. QED
    BY <1>1, <1>2, <1>4, <2>1 DEF GetHolderVaultIds, IndexedIds
<1>7. QED
  BY <1>5, <1>6

(* Whatever happens between the calls of a load, the indexes only grow. *)
LEMMA IndexesGrow ==
  ASSUME ChainInv, SessionInv, [WebNext]_webVars, NEW p \in Principals
  PROVE  /\ GetOwnerVaultIds(p) \subseteq GetOwnerVaultIds(p)'
         /\ GetHolderVaultIds(p) \subseteq GetHolderVaultIds(p)'
<1>1. ChainInv' /\ SentOK
  BY StepChain DEF SessionInv
<1>2. IndexesAreRead /\ IndexesAreRead'
  BY <1>1, IndexesRead, PTL
<1>3. ListsGrow
  BY <1>1, SessionIsAny, AnyStepListed DEF ChainInv
<1>4. \A v \in VaultIds : vaults[v] # Absent =>
        vaults'[v] # Absent /\ vaults'[v].owner = vaults[v].owner
  BY <1>1, VaultsStay DEF SameTerms
<1>5. QED
  BY <1>2, <1>3, <1>4 DEF IndexesAreRead, ListsGrow

(* A load has what the index it has read held, which was there when it     *)
(* began and is there still.                                               *)
Loads ==
  [who: Wallets, owned: (SUBSET VaultIds) \cup {Unknown}, held: (SUBSET VaultIds) \cup {Unknown},
   begun: [owned: SUBSET VaultIds, held: SUBSET VaultIds]]

LoadOK(l) ==
  /\ l.begun.owned \subseteq GetOwnerVaultIds(l.who)
  /\ l.begun.held \subseteq GetHolderVaultIds(l.who)
  /\ l.owned # Unknown => l.begun.owned \subseteq l.owned /\ l.owned \subseteq GetOwnerVaultIds(l.who)
  /\ l.held # Unknown => l.begun.held \subseteq l.held /\ l.held \subseteq GetHolderVaultIds(l.who)

OwnedOf(l) == {v \in DOMAIN l.roles : Owns(l.roles[v])}

HeldOf(l) == {v \in DOMAIN l.roles : Holds(l.roles[v])}

ListOK(l) ==
  /\ l.who \in Wallets
  /\ \A v \in DOMAIN l.roles : v \in VaultIds /\ l.roles[v] \in {"owner", "holder", "owner+holder"}
  /\ l.begun.owned \subseteq OwnedOf(l) /\ OwnedOf(l) \subseteq GetOwnerVaultIds(l.who)
  /\ l.begun.held \subseteq HeldOf(l) /\ HeldOf(l) \subseteq GetHolderVaultIds(l.who)

TreasuryInv ==
  /\ loads \in [1 .. MaxLoads -> Loads \cup {Absent}]
  /\ \A i \in 1 .. MaxLoads : loads[i] # Absent => LoadOK(loads[i])
  /\ list.who # Absent => ListOK(list)

TreasuryMoves ==
  \/ \E who \in Wallets \cup {Absent} : BeginLoad(who)
  \/ \E i \in 1 .. MaxLoads : ReadOwned(i) \/ ReadHeld(i) \/ ShowLoad(i) \/ LoadFails(i)

LEMMA StepsOfTreasuries ==
  SessionInv /\ [WebNext]_webVars => UNCHANGED treasuryVars \/ (UNCHANGED vars /\ TreasuryMoves)
<1> SUFFICES ASSUME SessionInv, [WebNext]_webVars
             PROVE  UNCHANGED treasuryVars \/ (UNCHANGED vars /\ TreasuryMoves)
  OBVIOUS
<1>1. account \in Wallets \cup {Absent}
  BY DEF SessionInv, AccountOK
<1>2. account' \in Wallets \cup {Absent}
  BY StepsOfPage DEF SessionInv
<1>3. CASE Navigation
  BY <1>2, <1>3 DEF Navigation, TreasuryMoves, WebNext, webVars, OthersMove
<1>4. CASE Dashboard
  BY <1>1, <1>4 DEF Dashboard, AutoRefresh, TreasuryMoves, WebNext, webVars, OthersMove
<1>5. QED
  BY <1>3, <1>4 DEF WebNext, webVars, OthersMove

LEMMA StepTreasuries ==
  ASSUME ChainInv, SessionInv, TreasuryInv, [WebNext]_webVars
  PROVE  TreasuryInv'
<1> DEFINE owned(p) == IndexedIds(ownerVaults, p)
           held(p) == IndexedIds(holderVaults, p)
           OK(l, o, h) == /\ l.begun.owned \subseteq o /\ l.begun.held \subseteq h
                          /\ l.owned # Unknown => l.begun.owned \subseteq l.owned /\ l.owned \subseteq o
                          /\ l.held # Unknown => l.begun.held \subseteq l.held /\ l.held \subseteq h
<1>1. /\ \A l : LoadOK(l) <=> OK(l, owned(l.who), held(l.who))
      /\ \A i : LoadOK(loads[i])' <=> OK(loads'[i], owned(loads[i].who)', held(loads[i].who)')
  BY DEF LoadOK, GetOwnerVaultIds, GetHolderVaultIds
<1>2. Wallets \subseteq Principals
  BY SessionAssumption
<1>3. \A p \in Wallets : owned(p) \subseteq owned(p)' /\ held(p) \subseteq held(p)'
  BY <1>2, IndexesGrow DEF GetOwnerVaultIds, GetHolderVaultIds
<1>4. \A l \in Loads, i \in 1 .. MaxLoads : LoadOK(l) /\ loads'[i] = l => LoadOK(loads[i])'
  <2>1. SUFFICES ASSUME NEW l \in Loads, NEW i \in 1 .. MaxLoads, LoadOK(l), loads'[i] = l
                 PROVE  OK(l, IndexedIds(ownerVaults', l.who), IndexedIds(holderVaults', l.who))
    BY <1>1
  <2>2. l.who \in Wallets
    BY DEF Loads
  <2>3. QED
    BY <1>1, <1>3, <2>1, <2>2
<1>5. \A l : ListOK(l) /\ list' = l => ListOK(list)'
  <2>1. SUFFICES ASSUME NEW l, ListOK(l), list' = l
                 PROVE  ListOK(list)'
    OBVIOUS
  <2>2. /\ OwnedOf(l) \subseteq owned(l.who) /\ HeldOf(l) \subseteq held(l.who) /\ l.who \in Wallets
    BY <2>1 DEF ListOK, GetOwnerVaultIds, GetHolderVaultIds
  <2>3. /\ OwnedOf(l) \subseteq IndexedIds(ownerVaults', l.who)
        /\ HeldOf(l) \subseteq IndexedIds(holderVaults', l.who)
    BY <1>3, <2>2
  <2>4. OwnedOf(list)' = OwnedOf(l) /\ HeldOf(list)' = HeldOf(l)
    BY <2>1 DEF OwnedOf, HeldOf
  <2>5. QED
    BY <2>1, <2>3, <2>4 DEF ListOK, GetOwnerVaultIds, GetHolderVaultIds
<1>6. loads \in [1 .. MaxLoads -> Loads \cup {Absent}]
  BY DEF TreasuryInv
<1>7. ASSUME NEW i \in 1 .. MaxLoads, NEW x \in Loads \cup {Absent}, x # Absent => LoadOK(x),
             loads' = [loads EXCEPT ![i] = x], list' = list \/ list'.who = Absent \/ ListOK(list)'
      PROVE  TreasuryInv'
  <2>1. /\ loads' \in [1 .. MaxLoads -> Loads \cup {Absent}]
        /\ \A j \in 1 .. MaxLoads : loads'[j] = IF j = i THEN x ELSE loads[j]
    BY <1>6, <1>7
  <2>2. ASSUME NEW j \in 1 .. MaxLoads, loads'[j] # Absent
        PROVE  LoadOK(loads[j])'
    <3>1. \E l \in Loads : LoadOK(l) /\ loads'[j] = l
      BY <1>6, <1>7, <2>1, <2>2 DEF TreasuryInv
    <3>2. QED
      BY <1>4, <3>1
  <2>3. list'.who # Absent => ListOK(list)'
    BY <1>5, <1>7 DEF TreasuryInv
  <2>4. QED
    BY <2>1, <2>2, <2>3 DEF TreasuryInv
<1>8. ASSUME UNCHANGED loads, list' = list \/ list'.who = Absent
      PROVE  TreasuryInv'
  <2>1. ASSUME NEW j \in 1 .. MaxLoads, loads'[j] # Absent
        PROVE  LoadOK(loads[j])'
    <3>1. \E l \in Loads : LoadOK(l) /\ loads'[j] = l
      BY <1>6, <1>8, <2>1 DEF TreasuryInv
    <3>2. QED
      BY <1>4, <3>1
  <2>2. list'.who # Absent => ListOK(list)'
    BY <1>5, <1>8 DEF TreasuryInv
  <2>3. QED
    BY <1>6, <1>8, <2>1, <2>2 DEF TreasuryInv
<1> HIDE DEF OK, owned, held
<1>9. \A p \in Wallets :
        /\ GetOwnerVaultIds(p) \in SUBSET VaultIds /\ GetHolderVaultIds(p) \in SUBSET VaultIds
        /\ \A v \in GetOwnerVaultIds(p) \cup GetHolderVaultIds(p) : vaults[v] # Absent
  <2>1. IndexesAreRead
    BY IndexesRead
  <2>2. \A p \in Principals : holderRegistered[p] \in SUBSET VaultIds
    BY DEF ChainInv, PoolInv, TypeOK, VaultTypeOK
  <2>3. ListedVaultsExist
    BY DEF ChainInv
  <2>4. QED
    BY <1>2, <2>1, <2>2, <2>3 DEF IndexesAreRead, ListedVaultsExist
<1>10. ASSUME NEW who \in Wallets \cup {Absent}, BeginLoad(who)
       PROVE  TreasuryInv'
  <2>1. CASE who = Absent
    BY <1>8, <1>10, <2>1 DEF BeginLoad, NoTreasuries
  <2>2. CASE who # Absent
    <3> DEFINE x == NewLoad(who)
    <3>1. FreeSlots # {} /\ loads' = [loads EXCEPT ![Min(FreeSlots)] = x] /\ UNCHANGED list
      BY <1>10, <2>2 DEF BeginLoad
    <3>2. Min(FreeSlots) \in 1 .. MaxLoads
      <4>1. FreeSlots \in SUBSET Nat /\ FreeSlots # {}
        BY <3>1, TreasuriesAssumption DEF FreeSlots
      <4>2. \E n \in FreeSlots : \A m \in FreeSlots : n <= m
        BY <4>1, LeastElement
      <4>3. Min(FreeSlots) \in FreeSlots
        BY <4>2 DEF Min
      <4>4. QED
        BY <4>3 DEF FreeSlots
    <3>3. x \in Loads /\ LoadOK(x)
      <4>1. PICK o \in SUBSET VaultIds, h \in SUBSET VaultIds :
              o = GetOwnerVaultIds(who) /\ h = GetHolderVaultIds(who)
        BY <1>9, <2>2
      <4>2. x = [who |-> who, owned |-> Unknown, held |-> Unknown,
                 begun |-> [owned |-> o, held |-> h]]
        BY <4>1 DEF NewLoad
      <4> HIDE DEF x
      <4>3. x \in Loads
        <5>1. who \in Wallets /\ Unknown \in (SUBSET VaultIds) \cup {Unknown}
          BY <1>10, <2>2, Zenon
        <5>2. [owned |-> o, held |-> h] \in [owned: SUBSET VaultIds, held: SUBSET VaultIds]
          BY <4>1
        <5>3. QED
          BY <4>2, <5>1, <5>2 DEF Loads
      <4>4. LoadOK(x)
        BY <4>1, <4>2 DEF LoadOK
      <4>5. QED
        BY <4>3, <4>4
    <3> HIDE DEF x
    <3>4. QED
      BY <1>7, <3>1, <3>2, <3>3
  <2>3. QED
    BY <2>1, <2>2
<1>11. ASSUME NEW i \in 1 .. MaxLoads, loads[i] # Absent
       PROVE  loads[i] \in Loads /\ LoadOK(loads[i])
  BY <1>6, <1>11 DEF TreasuryInv
<1>12. ASSUME NEW i \in 1 .. MaxLoads, ReadOwned(i) \/ ReadHeld(i)
       PROVE  TreasuryInv'
  <2>1. loads[i] \in Loads /\ LoadOK(loads[i])
    BY <1>11, <1>12 DEF ReadOwned, ReadHeld, Underway
  <2>2. CASE ReadOwned(i)
    <3> DEFINE x == [loads[i] EXCEPT !.owned = GetOwnerVaultIds(loads[i].who)]
    <3>1. loads' = [loads EXCEPT ![i] = x] /\ UNCHANGED list
      BY <2>2 DEF ReadOwned
    <3>2. x \in Loads
      BY <1>9, <2>1 DEF Loads
    <3>3. LoadOK(x)
      <4>1. /\ x.who = loads[i].who /\ x.begun = loads[i].begun /\ x.held = loads[i].held
            /\ x.owned = GetOwnerVaultIds(loads[i].who)
        BY <2>1 DEF Loads
      <4> HIDE DEF x
      <4>2. QED
        BY <2>1, <4>1 DEF LoadOK
    <3> HIDE DEF x
    <3>4. QED
      BY <1>7, <3>1, <3>2, <3>3
  <2>3. CASE ReadHeld(i)
    <3> DEFINE x == [loads[i] EXCEPT !.held = GetHolderVaultIds(loads[i].who)]
    <3>1. loads' = [loads EXCEPT ![i] = x] /\ UNCHANGED list
      BY <2>3 DEF ReadHeld
    <3>2. x \in Loads
      BY <1>9, <2>1 DEF Loads
    <3>3. LoadOK(x)
      <4>1. /\ x.who = loads[i].who /\ x.begun = loads[i].begun /\ x.owned = loads[i].owned
            /\ x.held = GetHolderVaultIds(loads[i].who)
        BY <2>1 DEF Loads
      <4> HIDE DEF x
      <4>2. QED
        BY <2>1, <4>1 DEF LoadOK
    <3> HIDE DEF x
    <3>4. QED
      BY <1>7, <3>1, <3>2, <3>3
  <2>4. QED
    BY <1>12, <2>2, <2>3
<1>13. ASSUME NEW i \in 1 .. MaxLoads, ShowLoad(i)
       PROVE  TreasuryInv'
  <2>1. loads[i] \in Loads /\ LoadOK(loads[i])
    BY <1>11, <1>13 DEF ShowLoad, Underway
  <2> DEFINE l == loads[i]
             found == {v \in l.owned \cup l.held : GetVaultMeta(v) # Absent}
             new == [who |-> l.who, roles |-> [v \in found |-> RoleOf(l, v)], begun |-> l.begun]
  <2>2. /\ l.owned # Unknown /\ l.held # Unknown /\ list' = new
        /\ loads' = [loads EXCEPT ![i] = Absent]
    BY <1>13 DEF ShowLoad
  <2>3. found = l.owned \cup l.held /\ found \subseteq VaultIds /\ l.who \in Wallets
    BY <1>9, <2>1, <2>2 DEF LoadOK, Loads, GetVaultMeta
  <2>4. /\ \A v \in found : RoleOf(l, v) \in {"owner", "holder", "owner+holder"}
        /\ \A v \in found : (Owns(RoleOf(l, v)) <=> v \in l.owned) /\ (Holds(RoleOf(l, v)) <=> v \in l.held)
    <3>1. SUFFICES ASSUME NEW v \in found
                   PROVE  /\ RoleOf(l, v) \in {"owner", "holder", "owner+holder"}
                          /\ Owns(RoleOf(l, v)) <=> v \in l.owned
                          /\ Holds(RoleOf(l, v)) <=> v \in l.held
      OBVIOUS
    <3> HIDE DEF l, found
    <3>2. CASE v \in l.owned /\ v \in l.held
      BY <3>2 DEF RoleOf, Owns, Holds
    <3>3. CASE v \in l.owned /\ v \notin l.held
      BY <3>3 DEF RoleOf, Owns, Holds
    <3>4. CASE v \notin l.owned /\ v \in l.held
      BY <3>4 DEF RoleOf, Owns, Holds
    <3>5. QED
      BY <2>3, <3>1, <3>2, <3>3, <3>4
  <2>5. /\ new.who = l.who /\ new.begun = l.begun /\ DOMAIN new.roles = found
        /\ \A v \in found : new.roles[v] = RoleOf(l, v)
    OBVIOUS
  <2> HIDE DEF found, new
  <2>6. OwnedOf(new) = l.owned /\ HeldOf(new) = l.held
    BY <2>3, <2>4, <2>5 DEF OwnedOf, HeldOf
  <2>7. ListOK(new)
    BY <2>1, <2>2, <2>3, <2>4, <2>5, <2>6 DEF ListOK, LoadOK
  <2>8. QED
    BY <1>5, <1>7, <2>2, <2>7
<1>14. ASSUME NEW i \in 1 .. MaxLoads, LoadFails(i)
       PROVE  TreasuryInv'
  BY <1>7, <1>14 DEF LoadFails
<1>15. QED
  BY <1>8, <1>10, <1>12, <1>13, <1>14, StepsOfTreasuries DEF TreasuryMoves, treasuryVars

(* What a list that is up to date shows is all there is to show: a vault   *)
(* in which the account has shares is in it, as one that takes the asset.  *)
LEMMA CurrentListShows ==
  ASSUME ChainInv, ListOK(list), ListCurrent
  PROVE  /\ account \in Principals /\ list.who = account
         /\ Listed \subseteq VaultIds /\ \A v \in Listed : vaults[v] # Absent
         /\ Owned = {v \in VaultIds : vaults[v] # Absent /\ vaults[v].owner = account}
         /\ \A v \in VaultIds, a \in Assets :
              balances[v][a][account] > 0 => v \in Listed /\ a \in SupportedAssets(vaults[v].assets)
<1>1. account \in Principals /\ list.who = account
  BY SessionAssumption DEF ListCurrent, ListOK
<1>2. IndexesAreRead /\ IndexesComplete /\ SharesHaveAVault /\ ListedVaultsExist
  BY IndexesRead DEF ChainInv
<1>3. Owned = {v \in VaultIds : vaults[v] # Absent /\ vaults[v].owner = account}
  BY <1>1, <1>2 DEF ListCurrent, IndexesAreRead
<1>4. Tab("deposited") = holderRegistered[account]
  BY <1>1, <1>2 DEF ListCurrent, IndexesAreRead
<1>5. \A v \in Listed : v \in VaultIds /\ (v \in Tab("owned") \/ v \in Tab("deposited"))
  BY DEF Tab, ListOK, Listed
<1>6. \A v \in Listed : vaults[v] # Absent
  BY <1>1, <1>2, <1>3, <1>4, <1>5 DEF Owned, ListedVaultsExist
<1>7. Tab("deposited") \subseteq Listed
  BY DEF Tab
<1>8. ASSUME NEW v \in VaultIds, NEW a \in Assets, balances[v][a][account] > 0
      PROVE  v \in Listed /\ a \in SupportedAssets(vaults[v].assets)
  <2>1. v \in holderRegistered[account]
    BY <1>1, <1>2, <1>8 DEF IndexesComplete
  <2>2. SupportsAsset(v, a)
    BY <1>1, <1>2, <1>8 DEF SharesHaveAVault
  <2>3. QED
    BY <1>4, <1>7, <2>1, <2>2 DEF SupportsAsset, AssetInMode, SupportedAssets, Assets
<1>9. QED
  BY <1>1, <1>3, <1>5, <1>6, <1>8

LEMMA ClaimsAreComplete ==
  ASSUME ChainInv, ListOK(list)
  PROVE  ClaimsComplete
<1> SUFFICES ASSUME ListCurrent
             PROVE  ClaimsComplete
  BY DEF ClaimsComplete
<1>1. /\ account \in Principals /\ list.who = account
      /\ Listed \subseteq VaultIds /\ \A v \in Listed : vaults[v] # Absent
      /\ Owned = {v \in VaultIds : vaults[v] # Absent /\ vaults[v].owner = account}
      /\ \A v \in VaultIds, a \in Assets :
           balances[v][a][account] > 0 => v \in Listed /\ a \in SupportedAssets(vaults[v].assets)
  BY CurrentListShows
<1>2. \A v \in VaultIds, a \in Assets :
        balances[v][a][account] \in Nat /\ supplies[v][a] \in Nat /\ totalBalances[v][a] \in Nat
  BY <1>1 DEF ChainInv, PoolInv, TypeOK, ReceiptTypeOK, VaultTypeOK
<1>3. \A m : SupportedAssets(m) \subseteq Assets
  BY DEF SupportedAssets, Assets
<1>4. \A v, a : /\ DOMAIN OverviewOf(v).positions = SupportedAssets(vaults[v].assets)
                /\ a \in SupportedAssets(vaults[v].assets) =>
                     OverviewOf(v).positions[a] = GetPosition(v, a, account)
  BY <1>1 DEF OverviewOf
<1>5. ASSUME NEW a \in Assets
      PROVE  ClaimShown(a) = SumFunction([v \in VaultIds |-> GetPosition(v, a, account).claim])
  <2> DEFINE F == [v \in VaultIds |-> GetPosition(v, a, account).claim]
             T == {v \in Listed : a \in DOMAIN OverviewOf(v).positions}
             H == [v \in T |-> OverviewOf(v).positions[a].claim]
  <2>1. F \in [VaultIds -> Nat]
    <3>1. ASSUME NEW v \in VaultIds
          PROVE  GetPosition(v, a, account).claim \in Nat
      <4>1. Claim(balances[v][a][account], supplies[v][a], totalBalances[v][a]) \in Nat
        <5>1. PICK b \in Nat, s \in Nat, t \in Nat :
                b = balances[v][a][account] /\ s = supplies[v][a] /\ t = totalBalances[v][a]
          BY <1>2
        <5>2. s > 0 => (b * t) \div s \in Nat
          BY Floor
        <5>3. QED
          BY <5>1, <5>2 DEF Claim
      <4>2. QED
        BY <4>1 DEF GetPosition
    <3>2. QED
      BY <3>1
  <2>2. T \in SUBSET VaultIds
    BY <1>1
  <2>3. \A v \in T : H[v] = F[v]
    BY <1>1, <1>4, <2>2
  <2>4. H \in [T -> Nat]
    BY <2>1, <2>2, <2>3
  <2>5. \A v \in VaultIds \ T : F[v] = 0
    <3>1. ASSUME NEW v \in VaultIds \ T
          PROVE  GetPosition(v, a, account).claim = 0
      <4>1. balances[v][a][account] = 0
        BY <1>1, <1>2, <1>4
      <4>2. PICK s \in Nat, t \in Nat : s = supplies[v][a] /\ t = totalBalances[v][a]
        BY <1>2
      <4>3. Claim(0, s, t) = 0
        BY DEF Claim
      <4>4. QED
        BY <4>1, <4>2, <4>3 DEF GetPosition
    <3>2. QED
      BY <3>1
  <2>6. ClaimShown(a) = SumFunction(H)
    BY DEF ClaimShown
  <2> HIDE DEF F, T, H
  <2>7. IsFiniteSet(VaultIds)
    BY FiniteDomains
  <2>8. SumFunction(H) = SumFunction(F)
    BY <2>1, <2>2, <2>3, <2>4, <2>5, <2>7, SumOfPart
  <2>9. QED
    BY <2>6, <2>8 DEF F
<1> DEFINE heldIn(a) == {v \in VaultIds : balances[v][a][account] > 0}
<1>6. "deposit" \in StepsDone <=> \E a \in Assets : heldIn(a) # {}
  <2>0. \A v, a : GetPosition(v, a, account).shares = balances[v][a][account]
    BY DEF GetPosition
  <2> HIDE DEF heldIn
  <2>1. \A v \in Listed : ViewerHoldsShares(OverviewOf(v)) <=>
          \E a \in SupportedAssets(vaults[v].assets) : balances[v][a][account] > 0
    BY <1>4, <2>0 DEF ViewerHoldsShares
  <2>2. "deposit" \in StepsDone <=> \E v \in Listed : ViewerHoldsShares(OverviewOf(v))
    BY DEF StepsDone
  <2>3. QED
    BY <1>1, <1>3, <2>1, <2>2 DEF heldIn
<1>7. NextStep = "create" <=> \A v \in VaultIds : vaults[v] # Absent => vaults[v].owner # account
  <2>1. "create" \in StepsDone <=> Owned # {}
    BY DEF StepsDone
  <2>2. NextStep = "create" <=> "create" \notin StepsDone
    BY DEF NextStep
  <2>3. QED
    BY <1>1, <2>1, <2>2
<1>8. Tab("all") = Tab("owned") \cup Tab("deposited")
  BY DEF Tab, ListOK, Listed
<1>9. QED
  BY <1>5, <1>6, <1>7, <1>8 DEF ClaimsComplete

LEMMA StartTreasuries == SessionStart => TreasuryInv
  BY DEF SessionStart, NoTreasuries, NoLoads, TreasuryInv

(* The dashboard never shows a vault that does not exist and never omits   *)
(* one that its account was indexed for when the load began, whatever is   *)
(* created or deposited between the calls of a load; and what it sums of   *)
(* an up-to-date list is all the account holds anywhere                    *)
(* (useMyVaults.ts, dashboard/page.tsx).                                   *)
THEOREM TreasuriesAreComplete == AnySession => []TreasuriesComplete
<1>1. (ChainInv /\ SessionInv) /\ TreasuryInv /\ [WebNext]_webVars => TreasuryInv'
  BY StepTreasuries
<1>2. ChainInv /\ SessionInv /\ TreasuryInv => TreasuriesComplete
  <2> SUFFICES ASSUME ChainInv, SessionInv, TreasuryInv, list.who # Absent
               PROVE  LET owned == {v \in DOMAIN list.roles : Owns(list.roles[v])}
                          held == {v \in DOMAIN list.roles : Holds(list.roles[v])}
                      IN /\ list.begun.owned \subseteq owned /\ list.begun.held \subseteq held
                         /\ \A v \in owned : vaults[v] # Absent /\ vaults[v].owner = list.who
                         /\ \A v \in held : v \in holderRegistered[list.who]
                         /\ ClaimsComplete
    BY DEF TreasuriesComplete
  <2>1. ListOK(list)
    BY DEF TreasuryInv
  <2>2. IndexesAreRead /\ list.who \in Principals
    BY <2>1, IndexesRead, SessionAssumption DEF ListOK
  <2>3. QED
    BY <2>1, <2>2, ClaimsAreComplete DEF ListOK, OwnedOf, HeldOf, IndexesAreRead
<1>3. QED
  BY <1>1, <1>2, StartTreasuries, SessionSound, PTL DEF AnySession

-----------------------------------------------------------------------------
(* What a page may check its input against.                                *)

(* There is an overview to look at, or a page mounted over one. *)
Viewing == Loaded \/ (form # Absent /\ BelowLayout)

(* A view is the one there was before, or what a refresh returned. *)
ViewMoves ==
  \/ Viewing /\ UNCHANGED overview
  \/ \E i \in DOMAIN refreshes : refreshes[i].meta # Unknown /\ overview' = WholeOverview(refreshes[i])

LEMMA StepsOfViews ==
  ASSUME SessionInv, [WebNext]_webVars, Viewing'
  PROVE  ViewMoves
<1>1. AccountOK
  BY DEF SessionInv
<1>2. CASE UNCHANGED <<overview, page>> /\ (form' # Absent => form # Absent)
  BY <1>2 DEF Viewing, ViewMoves, Loaded, BelowLayout
<1>3. CASE page' # page
  <2>1. Loaded /\ UNCHANGED overview
    <3>1. \E tab \in {"deposit", "redeem", "settings"} : OpenTab(tab)
      <4>1. CASE Reads
        BY <1>3, <4>1 DEF Reads, ReadMeta, ReadRest, ReadFails, TryAgain, ReadFacts, ReadFact,
           ReadBalances, PreviewArrives, PreviewFails, ChangesFormOnly
      <4>2. CASE Editor
        BY <1>3, <4>2 DEF Editor, ChooseAsset, EnterAmount, SubmitDeposit, ChoosePool, EnterShares,
           SubmitRedeem, StartOver, EditSettings, SaveMeta, SaveRisk, TogglePause,
           ChoosePurpose, EnterName, ChooseMode, ChooseAccess, EnterRisk, ChooseAutonomy,
           Continue, Back, Create, BackToReview, Choose, Enter, EditForm, SubmitOnly, ChangesFormOnly
      <4>3. CASE Navigation
        BY <1>3, <4>3 DEF Navigation, Connect, Disconnect, SetAccount
      <4>4. ASSUME NEW i \in DOMAIN sent, Following(i)
            PROVE  FALSE
        BY <1>3, <4>4 DEF Following, WalletSigns, WalletFails, PollSucceeds, PollFails,
           WaitTimesOut, ShowOutcome
      <4>5. QED
        BY <1>3, <4>1, <4>2, <4>3, <4>4
        DEF WebNext, webVars, sessionVars, Dashboard, Execute, Abort, Drop, Unseen, OthersMove
    <3>2. QED
      BY <3>1 DEF OpenTab
  <2>2. QED
    BY <2>1 DEF Viewing, ViewMoves
<1>4. ASSUME NEW i \in DOMAIN refreshes, ReadMeta(i) \/ ReadRest(i)
      PROVE  ViewMoves
  <2>1. page' = page
    BY <1>4 DEF ReadMeta, ReadRest
  <2>2. CASE UNCHANGED <<overview, form>>
    BY <1>2, <2>1, <2>2
  <2>3. CASE overview' = Missing /\ form' = Absent
    BY <2>3 DEF Viewing, Loaded
  <2>4. QED
    BY <1>4, <2>2, <2>3 DEF ReadMeta, ReadRest, EndRefresh, ViewMoves
<1>5. CASE Reads
  BY <1>2, <1>4, <1>5 DEF Reads, ReadFails, TryAgain, ReadFacts, ReadFact, ReadBalances,
     PreviewArrives, PreviewFails, ChangesFormOnly
<1>6. CASE Editor /\ page' = page
  BY <1>2, <1>6 DEF Editor, ChooseAsset, EnterAmount, SubmitDeposit, ChoosePool, EnterShares,
     SubmitRedeem, StartOver, EditSettings, SaveMeta, SaveRisk, TogglePause, Settling,
     ChoosePurpose, EnterName, ChooseMode, ChooseAccess, EnterRisk, ChooseAutonomy, Editing,
     Continue, Back, Create, CanCreate, BackToReview, Choose, Enter, EditForm, SubmitOnly,
     ChangesFormOnly, OnStep, OnPage
<1>7. CASE Navigation /\ page' = page
  <2>1. ASSUME NEW who, SetAccount(who)
        PROVE  ViewMoves
    <3>1. CASE BelowLayout
      BY <2>1, <3>1 DEF SetAccount, Viewing, Loaded
    <3>2. CASE ~BelowLayout
      BY <1>2, <2>1, <3>2 DEF SetAccount
    <3>3. QED
      BY <3>1, <3>2
  <2>2. QED
    BY <1>7, <2>1 DEF Navigation, Connect, Disconnect, OpenTab
<1>8. ASSUME NEW i \in DOMAIN sent, Following(i)
      PROVE  ViewMoves
  BY <1>2, <1>8 DEF Following, WalletSigns, WalletFails, PollSucceeds, PollFails,
     WaitTimesOut, ShowOutcome
<1>9. QED
  BY <1>2, <1>3, <1>5, <1>6, <1>7, <1>8
  DEF WebNext, webVars, sessionVars, Dashboard, Execute, Abort, Drop, Unseen, OthersMove

(* An overview is of the assets o.meta.assets, with the positions of its   *)
(* viewer in each.                                                         *)
WholeFor(o, assets) ==
  /\ o.meta.assets = assets
  /\ o.viewer # Absent => DOMAIN o.positions = SupportedAssets(assets)

(* The assets a vault takes are chosen once: whatever is read of them in   *)
(* whatever order is what they are.                                        *)
ViewInv ==
  /\ \A i \in DOMAIN refreshes :
       refreshes[i].meta # Unknown => refreshes[i].meta.assets = vaults[Shown].assets
  /\ Viewing => vaults[Shown] # Absent /\ WholeFor(overview, vaults[Shown].assets)
  /\ FundsOpen => form.asset \in SupportedAssets(vaults[Shown].assets)

LEMMA WholeOverviewIs ==
  ASSUME NEW r
  PROVE  WholeFor(WholeOverview(r), r.meta.assets) /\ WholeOverview(r).meta = r.meta
  BY DEF WholeOverview, WholeFor

LEMMA NewFormAsset ==
  ASSUME NEW tab \in {"deposit", "redeem"}, NEW o
  PROVE  NewForm(tab, o).asset \in SupportedAssets(o.meta.assets)
  BY DEF NewForm, SupportedAssets

LEMMA StepRefreshAssets ==
  ASSUME ChainInv, SessionInv, ViewInv, [WebNext]_webVars,
         NEW j \in DOMAIN refreshes', refreshes'[j].meta # Unknown
  PROVE  refreshes'[j].meta.assets = vaults'[Shown].assets
<1>1. SentOK /\ RefreshesOK
  BY DEF SessionInv
<1>2. Shown \in VaultIds
  BY SessionAssumption
<1>3. vaults[Shown] # Absent => vaults'[Shown].assets = vaults[Shown].assets
  BY <1>1, <1>2, VaultsStay DEF SameTerms
<1>4. \A i \in DOMAIN refreshes :
        /\ refreshes[i] \in Refreshes
        /\ refreshes[i].meta # Unknown =>
             refreshes[i].meta.assets = vaults[Shown].assets /\ vaults[Shown] # Absent
  BY <1>1 DEF RefreshesOK, ViewInv
<1>5. CASE UNCHANGED refreshes
  BY <1>3, <1>4, <1>5
<1>6. ASSUME NEW who \in Wallets \cup {Absent}, Begins(who)
      PROVE  refreshes'[j].meta.assets = vaults'[Shown].assets
  <2>1. refreshes' = Append(refreshes, NewRefresh(who))
    BY <1>6 DEF Begins, Refresh
  <2>2. NewRefresh(who) \in Refreshes /\ NewRefresh(who).meta = Unknown
    BY <1>1, NewRefreshType
  <2>3. \A i \in DOMAIN refreshes' :
          (i \in DOMAIN refreshes /\ refreshes'[i] = refreshes[i]) \/ refreshes'[i].meta = Unknown
    BY <1>1, <2>1, <2>2 DEF RefreshesOK
  <2>4. QED
    BY <1>3, <1>4, <2>3
<1>7. ASSUME NEW i \in DOMAIN refreshes, LearnsMeta(i)
      PROVE  refreshes'[j].meta.assets = vaults'[Shown].assets
  <2>1. j \in DOMAIN refreshes /\ refreshes'[j] =
          IF j = i THEN [refreshes[j] EXCEPT !.meta = vaults[Shown]] ELSE refreshes[j]
    BY <1>7 DEF LearnsMeta, GetVaultMeta
  <2>2. vaults[Shown] # Absent
    BY <1>7 DEF LearnsMeta, GetVaultMeta
  <2>3. j = i => refreshes'[j].meta = vaults[Shown]
    BY <1>4, <2>1 DEF Refreshes
  <2>4. QED
    BY <1>3, <1>4, <2>1, <2>2, <2>3
<1>8. ASSUME NEW i \in DOMAIN refreshes, Ends(i)
      PROVE  refreshes'[j].meta.assets = vaults'[Shown].assets
  <2>1. j \in DOMAIN refreshes /\ refreshes'[j] = IF j = i THEN Closed(refreshes[j]) ELSE refreshes[j]
    BY <1>8 DEF Ends
  <2>2. Closed(refreshes[j]).meta = Unknown
    BY <1>1, <1>4, <2>1, ClosedType
  <2>3. QED
    BY <1>3, <1>4, <2>1, <2>2
<1>9. QED
  BY <1>5, <1>6, <1>7, <1>8, StepsOfOverview DEF OverviewMoves

LEMMA StepViews == ChainInv /\ SessionInv /\ ViewInv /\ [WebNext]_webVars => ViewInv'
<1> SUFFICES ASSUME ChainInv, SessionInv, ViewInv, [WebNext]_webVars
             PROVE  ViewInv'
  OBVIOUS
<1>1. SentOK /\ RefreshesOK /\ AccountOK
  BY DEF SessionInv
<1>2. vaults[Shown] # Absent => vaults'[Shown] # Absent /\ vaults'[Shown].assets = vaults[Shown].assets
  BY <1>1, VaultsStay, SessionAssumption DEF SameTerms
<1>3. \A i \in DOMAIN refreshes : refreshes[i].meta # Unknown =>
        refreshes[i].meta.assets = vaults[Shown].assets /\ vaults[Shown] # Absent
  BY <1>1 DEF RefreshesOK, ViewInv
<1>4. ASSUME Viewing'
      PROVE  vaults'[Shown] # Absent /\ WholeFor(overview', vaults'[Shown].assets)
  <2>1. CASE Viewing /\ UNCHANGED overview
    BY <1>2, <2>1 DEF ViewInv
  <2>2. ASSUME NEW i \in DOMAIN refreshes, refreshes[i].meta # Unknown,
               overview' = WholeOverview(refreshes[i])
        PROVE  vaults'[Shown] # Absent /\ WholeFor(overview', vaults'[Shown].assets)
    BY <1>2, <1>3, <2>2, WholeOverviewIs
  <2>3. QED
    BY <1>4, <2>1, <2>2, StepsOfViews DEF ViewMoves
<1>5. ASSUME FundsOpen'
      PROVE  form'.asset \in SupportedAssets(vaults'[Shown].assets)
  <2>1. CASE FundsOpen /\ form'.asset \in SupportedAssets(overview.meta.assets) \cup {form.asset}
    <3>1. Viewing
      BY <2>1 DEF FundsOpen, Viewing, BelowLayout
    <3>2. QED
      BY <1>2, <2>1, <3>1 DEF ViewInv, WholeFor
  <2>2. ASSUME NEW o, Mountable(o), form' = NewForm(page', o)
        PROVE  form'.asset \in SupportedAssets(vaults'[Shown].assets)
    <3>1. o.meta.assets = vaults[Shown].assets /\ vaults[Shown] # Absent
      <4>1. CASE Loaded /\ o = overview
        BY <4>1 DEF ViewInv, Viewing, WholeFor
      <4>2. QED
        BY <1>3, <2>2, <4>1, WholeOverviewIs DEF Mountable
    <3>2. QED
      BY <1>2, <1>5, <2>2, <3>1, NewFormAsset DEF FundsOpen
  <2>3. QED
    BY <1>5, <2>1, <2>2, StepsOfFunds DEF FundsMoves
<1>6. QED
  BY <1>4, <1>5, StepRefreshAssets DEF ViewInv

LEMMA StartViews == SoundChain /\ SessionStart => ViewInv
<1> SUFFICES ASSUME SoundChain, SessionStart
             PROVE  ViewInv
  OBVIOUS
<1>1. CASE Arriving
  <2>1. ~Viewing
    BY <1>1 DEF Arriving, Viewing, Loaded, SessionStart, BelowLayout
  <2>2. \A i \in DOMAIN refreshes : refreshes[i].meta = Unknown
    BY <1>1 DEF Arriving, NewRefresh
  <2>3. QED
    BY <2>1, <2>2 DEF ViewInv, Viewing, FundsOpen, BelowLayout
<1>2. CASE Opened
  <2> DEFINE r == [NewRefresh(account) EXCEPT !.meta = GetVaultMeta(Shown)]
  <2>1. r.meta = vaults[Shown]
    BY DEF NewRefresh, GetVaultMeta
  <2>2. refreshes = <<>> /\ vaults[Shown] # Absent /\ overview = WholeOverview(r)
    BY <1>2 DEF Opened, GetVaultMeta
  <2> HIDE DEF r
  <2>3. WholeFor(overview, vaults[Shown].assets) /\ overview.meta = vaults[Shown]
    BY <2>1, <2>2, WholeOverviewIs
  <2>4. FundsOpen => form = NewForm(page, overview)
    BY <1>2 DEF Opened, FundsOpen
  <2>5. FundsOpen => form.asset \in SupportedAssets(vaults[Shown].assets)
    BY <2>3, <2>4, NewFormAsset DEF FundsOpen
  <2>6. QED
    BY <2>2, <2>3, <2>5 DEF ViewInv
<1>3. QED
  BY <1>1, <1>2 DEF SessionStart

-----------------------------------------------------------------------------
(* The creation of a vault. *)

(* Its form is there as long as its page is, and never past the step that  *)
(* asks for the acknowledgement without it.                                *)
CreationInv == page = "create" => form \in CreateForms /\ AutonomyAccepted

LEMMA StepsOfCreation ==
  ASSUME SessionInv, [WebNext]_webVars, page' = "create"
  PROVE  /\ page = "create"
         /\ \/ UNCHANGED form
            \/ /\ form # Absent
               /\ \/ ChoosePurpose \/ EnterName \/ ChooseMode \/ ChooseAccess \/ EnterRisk
                  \/ ChooseAutonomy \/ Continue \/ Back \/ Create \/ BackToReview
<1>1. AccountOK /\ FormOK /\ AloneOK /\ SentOK
  BY DEF SessionInv
<1>2. page = "create" /\ ~BelowLayout
  BY <1>1, StepsOfPage DEF PageMoves, BelowLayout
<1>3. refreshes = <<>>
  BY <1>1, <1>2 DEF AloneOK
<1>4. CASE Reads
  BY <1>2, <1>3, <1>4 DEF Reads, TryAgain, ReadFacts, ReadFact, ReadBalances, PreviewArrives,
     PreviewFails
<1>5. CASE Editor
  BY <1>2, <1>5 DEF Editor, ChooseAsset, EnterAmount, SubmitDeposit, ChoosePool, EnterShares,
     SubmitRedeem, StartOver, EditSettings, SaveMeta, SaveRisk, TogglePause, Settling,
     CanDeposit, CanRedeem, Editing, ChoosePurpose, EnterName, ChooseMode, ChooseAccess, EnterRisk,
     ChooseAutonomy, Continue, Back, Create, CanCreate, BackToReview, OnStep, OnPage
<1>6. CASE Navigation
  BY <1>2, <1>6 DEF Navigation, Connect, Disconnect, SetAccount, OpenTab
<1>7. ASSUME NEW i \in DOMAIN sent, Following(i)
      PROVE  UNCHANGED form
  BY <1>2, <1>7 DEF Following, WalletSigns, WalletFails, PollSucceeds, PollFails, WaitTimesOut,
     ShowOutcome
<1>8. QED
  BY <1>2, <1>4, <1>5, <1>6, <1>7
  DEF WebNext, webVars, sessionVars, Dashboard, Execute, Abort, Drop, Unseen, OthersMove

LEMMA StepCreation == SessionInv /\ CreationInv /\ [WebNext]_webVars => CreationInv'
<1> SUFFICES ASSUME SessionInv, CreationInv, [WebNext]_webVars, page' = "create"
             PROVE  /\ form' \in CreateForms
                    /\ form'.step >= 5 /\ form'.values.autonomousEnabled => form'.accepted
  BY DEF CreationInv, AutonomyAccepted
<1> DEFINE Edits == \/ ChoosePurpose \/ EnterName \/ ChooseMode \/ ChooseAccess \/ EnterRisk
                    \/ ChooseAutonomy \/ Continue \/ Back \/ Create \/ BackToReview
<1>1. page = "create" /\ (UNCHANGED form \/ (form # Absent /\ Edits))
  BY StepsOfCreation
<1>2. /\ form \in CreateForms
      /\ form.step >= 5 /\ form.values.autonomousEnabled => form.accepted
  BY <1>1 DEF CreationInv, AutonomyAccepted
<1>3. CASE UNCHANGED form
  BY <1>2, <1>3
<1>4. CASE form # Absent /\ Edits
  <2>1. form' \in CreateForms
    BY <1>1, <1>4, CreateFormsStep
  <2>2. form.step \in Nat
    BY <1>2 DEF CreateForms
  <2>3. ASSUME form'.step < 5
        PROVE  /\ form' \in CreateForms
               /\ form'.step >= 5 /\ form'.values.autonomousEnabled => form'.accepted
    BY <2>1, <2>3 DEF CreateForms
  <2>4. ASSUME NEW n \in Nat, form' = [form EXCEPT !.step = n], n < 5 \/ form.step >= 5
        PROVE  /\ form' \in CreateForms
               /\ form'.step >= 5 /\ form'.values.autonomousEnabled => form'.accepted
    BY <1>2, <2>1, <2>2, <2>4 DEF CreateForms
  <2>5. CASE ChoosePurpose
    BY <1>2, <2>3, <2>5 DEF ChoosePurpose, OnStep, EditForm, WithPurpose, CreateForms
  <2>6. CASE EnterName \/ ChooseMode \/ ChooseAccess \/ EnterRisk
    BY <1>2, <2>3, <2>6 DEF EnterName, ChooseMode, ChooseAccess, EnterRisk, OnStep, EditForm, CreateForms
  <2>7. CASE ChooseAutonomy
    <3>1. PICK f \in AutonomyChosen : form' = [f EXCEPT !.accepted = @ /\ f.values.autonomousEnabled]
      BY <2>7 DEF ChooseAutonomy, EditForm
    <3>2. f.step = form.step /\ f \in CreateForms
      <4>1. /\ form.values \in RiskParams /\ form.accepted \in BOOLEAN
            /\ \A w \in RiskParams : [form EXCEPT !.values = w] \in CreateForms
            /\ \A b \in BOOLEAN : [form EXCEPT !.accepted = b] \in CreateForms
        BY <1>2 DEF CreateForms
      <4>2. f \in CreateForms
        BY <4>1, RiskEdits
      <4>3. QED
        BY <1>2, <4>2 DEF AutonomyChosen, CreateForms
    <3>3. form'.step = 4
      BY <2>7, <3>1, <3>2 DEF ChooseAutonomy, OnStep, CreateForms
    <3>4. QED
      BY <2>3, <3>3
  <2>8. CASE Continue
    <3>1. form' = [form EXCEPT !.step = form.step + 1] /\ form.step < 5 /\ CanNext
      BY <2>8 DEF Continue, EditForm
    <3>2. CASE form.step = 4
      BY <1>2, <2>1, <3>1, <3>2 DEF CanNext, CreateForms
    <3>3. QED
      BY <2>2, <2>4, <3>1, <3>2
  <2>9. CASE Back
    <3>1. form' = [form EXCEPT !.step = form.step - 1] /\ form.step \in 1 .. 5
      BY <2>9 DEF Back, EditForm
    <3>2. QED
      BY <2>4, <3>1
  <2>10. CASE Create \/ BackToReview
    BY <2>4, <2>10 DEF Create, CanCreate, BackToReview, OnStep
  <2>11. QED
    BY <1>4, <2>1, <2>5, <2>6, <2>7, <2>8, <2>9, <2>10
<1>5. QED
  BY <1>1, <1>3, <1>4

LEMMA StartCreation == SessionStart => CreationInv
<1> SUFFICES ASSUME SessionStart, page = "create"
             PROVE  form \in CreateForms /\ AutonomyAccepted
  BY DEF CreationInv
<1>1. form = CreateForm
  BY DEF SessionStart, Arriving, Opened
<1>2. CreateForm \in CreateForms /\ CreateForm.step = 0
  BY DefaultTypes DEF CreateForm, CreateForms
<1>3. QED
  BY <1>1, <1>2 DEF AutonomyAccepted

-----------------------------------------------------------------------------
(* What the contracts ask of a call.  A call is what it asks of the state  *)
(* (Ready) and what it writes, each variable once: where the runs say      *)
(* ENABLED, the proofs say Ready.                                          *)

(* The token this build of the app moves an asset in, and whether it may. *)
TokenFor(a) == IF a = "STX" THEN "STX" ELSE AppToken

Approved(a) == a = "SBTC" => approvedSbtc = AppToken

DepositReady(p, v, a, n) ==
  /\ Approved(a)
  /\ vaults[v] # Absent
  /\ DepositAccepted(supplies[v][a], totalBalances[v][a], n, MinInitialDeposit[a])
  /\ AssetInMode(vaults[v].assets, a)
  /\ ~protocolPaused
  /\ ~vaults[v].paused
  /\ p = vaults[v].owner \/ vaults[v].openDeposits
  /\ n <= holdings[TokenFor(a)][p]

DepositWrites(p, v, a, n) ==
  /\ holdings' = [holdings EXCEPT ![TokenFor(a)][p] = @ - n, ![TokenFor(a)][VAULT] = @ + n]
  /\ idleBalances' = [idleBalances EXCEPT ![v][a] = @ + n]
  /\ totalBalances' = [totalBalances EXCEPT ![v][a] = @ + n]
  /\ balances' = [balances EXCEPT ![v][a][p] = @ + n]
  /\ supplies' = [supplies EXCEPT ![v][a] = @ + n]
  /\ RegisterHolder(p, v)
  /\ UNCHANGED <<nextVaultId, vaults, ownerVaults, strategyAllocations, guardVars>>

RedeemReady(p, v, a, n) == Approved(a) /\ RedemptionReady(p, v, a, TokenFor(a), n)

CallReady(e) ==
  CASE e.kind = "deposit" ->
         DepositReady(e.signer, Shown, e.args.asset, e.args.amount) /\ e.signer = e.viewer
    [] e.kind = "redeem" ->
         RedeemReady(e.signer, Shown, e.args.asset, e.args.amount) /\ e.args.amount <= e.args.shown
    [] e.kind = "create" ->
         /\ nextVaultId <= MaxVaults /\ vaultConfig[nextVaultId] = Absent
         /\ ~protocolPaused
         /\ e.args.purpose <= 5 /\ e.args.mode \in 1 .. 3
         /\ ParamsValid(e.args.params)
    [] e.kind = "meta" -> IsOwner(e.signer, Shown)
    [] e.kind = "risk" ->
         IsOwner(e.signer, Shown) /\ vaultConfig[Shown] # Absent /\ ParamsValid(e.args)
    [] e.kind = "pause" ->
         IsOwner(e.signer, Shown) /\ vaults[Shown].paused # e.args.pause

CallWrites(e) ==
  CASE e.kind = "deposit" ->
         DepositWrites(e.signer, Shown, e.args.asset, e.args.amount) /\ AfterPoolCall
    [] e.kind = "redeem" ->
         /\ RedemptionWrites(e.signer, Shown, e.args.asset, TokenFor(e.args.asset), e.args.amount)
         /\ AfterPoolCall
    [] e.kind = "create" ->
         /\ vaults' = [vaults EXCEPT ![nextVaultId] =
                         [owner |-> e.signer, purpose |-> e.args.purpose, assets |-> e.args.mode,
                          openDeposits |-> e.args.open, paused |-> FALSE]]
         /\ ownerVaults' = [ownerVaults EXCEPT ![e.signer] = Append(@, nextVaultId)]
         /\ nextVaultId' = nextVaultId + 1
         /\ vaultConfig' = [vaultConfig EXCEPT ![nextVaultId] =
              [params |-> e.args.params, lastUsedNonce |-> 0, lastExecutionHeight |-> 0]]
         /\ UNCHANGED <<protocolLimits, approvedSbtc, mainnetExecutionArmed, indexVars, poolVars>>
         /\ AfterConfigCall
    [] e.kind = "meta" ->
         /\ vaults' = [vaults EXCEPT ![Shown].openDeposits = e.args.open]
         /\ UNCHANGED <<nextVaultId, ownerVaults, indexVars, poolVars, guardVars>>
         /\ AfterConfigCall
    [] e.kind = "risk" ->
         /\ vaultConfig' = [vaultConfig EXCEPT ![Shown].params = e.args]
         /\ UNCHANGED <<protocolLimits, approvedSbtc, mainnetExecutionArmed, vaultVars>>
         /\ AfterConfigCall
    [] e.kind = "pause" ->
         /\ vaults' = [vaults EXCEPT ![Shown].paused = e.args.pause]
         /\ UNCHANGED <<nextVaultId, ownerVaults, indexVars, poolVars, guardVars>>
         /\ AfterConfigCall

LEMMA TokensAre ==
  /\ \A a \in Assets : TokenFor(a) \in TokensOf(a) /\ TokenFor(a) \in Tokens
  /\ TokenFor("STX") = "STX" /\ TokenFor("SBTC") = AppToken
  /\ AppToken # Absent
<1>1. AppToken \in SbtcTokens /\ Absent \notin Tokens /\ SbtcTokens \subseteq Tokens
  BY ReadAssumption, ChainAssumption DEF Tokens
<1>2. QED
  BY <1>1 DEF TokenFor, TokensOf, Tokens, Assets

LEMMA DepositIs ==
  ASSUME PoolInv, NEW p \in Principals, NEW v \in VaultIds, NEW a \in Assets, NEW n \in Nat
  PROVE  (IF a = "STX" THEN DepositStx(p, v, n) ELSE DepositSbtc(p, v, n, AppToken))
           <=> DepositReady(p, v, a, n) /\ DepositWrites(p, v, a, n)
<1> DEFINE t == TokenFor(a)
           s == supplies[v][a]
<1>1. VAULT # p /\ t \in Tokens
  BY ChainAssumption, TokensAre
<1>2. /\ s \in Nat /\ totalBalances[v][a] = s /\ holdings[t][p] \in Nat
  BY <1>1 DEF PoolInv, PoolParity, TypeOK, ReceiptTypeOK, ChainTypeOK, Accounts
<1>3. DepositShares(s, s, n) = n
  BY <1>2, PriceOfOne
<1>4. (IF a = "STX" THEN DepositStx(p, v, n) ELSE DepositSbtc(p, v, n, AppToken))
        <=> Approved(a) /\ Deposit(p, v, a, t, n)
  BY TokensAre DEF DepositStx, DepositSbtc, Approved, TokenFor, Assets
<1>5. Deposit(p, v, a, t, n) /\ Approved(a) <=> DepositReady(p, v, a, n) /\ DepositWrites(p, v, a, n)
  <2>1. CASE ~DepositAccepted(s, s, n, MinInitialDeposit[a])
    BY <1>2, <2>1 DEF Deposit, DepositReady
  <2>2. CASE DepositAccepted(s, s, n, MinInitialDeposit[a])
    <3>1. n > 0
      BY <2>2 DEF DepositAccepted
    <3>2. Transfer(t, p, VAULT, n) <=>
            /\ n <= holdings[t][p]
            /\ holdings' = [holdings EXCEPT ![t][p] = @ - n, ![t][VAULT] = @ + n]
      BY <1>1, <1>2, <3>1 DEF Transfer
    <3>3. Mint(v, a, DepositShares(supplies[v][a], totalBalances[v][a], n), p) <=>
            /\ balances' = [balances EXCEPT ![v][a][p] = @ + n]
            /\ supplies' = [supplies EXCEPT ![v][a] = @ + n]
      BY <1>2, <1>3, <3>1 DEF Mint
    <3>4. QED
      BY <3>2, <3>3 DEF Deposit, DepositReady, DepositWrites
  <2>3. QED
    BY <2>1, <2>2
<1>6. QED
  BY <1>4, <1>5

(* A call of a page is what it asks and what it writes. *)
LEMMA CallIs ==
  ASSUME ChainInv, NEW e, e.kind \in Kinds, e.args \in ArgsOf(e.kind), e.signer \in Wallets
  PROVE  Call(e) <=> CallReady(e) /\ CallWrites(e)
<1>1. Shown \in VaultIds /\ e.signer \in Principals /\ PoolInv /\ AppToken \in SbtcTokens
  BY SessionAssumption, ReadAssumption DEF ChainInv
<1>2. CASE e.kind = "deposit"
  <2>1. e.args.asset \in Assets /\ e.args.amount \in Nat
    BY <1>2 DEF ArgsOf
  <2>2. Call(e) <=> DepositCall(e)
    BY <1>2 DEF Call, DepositCall, RedeemCall, CreateCall, MetaCall, RiskCall, PauseCall
  <2>3. DepositCall(e) <=>
          /\ DepositReady(e.signer, Shown, e.args.asset, e.args.amount)
          /\ DepositWrites(e.signer, Shown, e.args.asset, e.args.amount)
          /\ e.signer = e.viewer /\ AfterPoolCall
    BY <1>1, <1>2, <2>1, DepositIs DEF DepositCall
  <2>4. QED
    BY <1>2, <2>2, <2>3 DEF CallReady, CallWrites
<1>3. CASE e.kind = "redeem"
  <2> DEFINE a == e.args.asset
             n == e.args.amount
  <2>1. a \in Assets /\ n \in Nat /\ e.args.shown \in Nat
    BY <1>3 DEF ArgsOf
  <2>2. Call(e) <=> RedeemCall(e)
    BY <1>3 DEF Call, DepositCall, RedeemCall, CreateCall, MetaCall, RiskCall, PauseCall
  <2>3. TokenFor(a) \in TokensOf(a)
    BY <2>1, TokensAre
  <2>4. (IF a = "STX" THEN RedeemStx(e.signer, Shown, n) ELSE RedeemSbtc(e.signer, Shown, n, AppToken))
          <=> Approved(a) /\ Redeem(e.signer, Shown, a, TokenFor(a), n)
    BY <2>1, TokensAre DEF RedeemStx, RedeemSbtc, Approved, TokenFor, Assets
  <2>5. Redeem(e.signer, Shown, a, TokenFor(a), n) <=>
          /\ RedemptionReady(e.signer, Shown, a, TokenFor(a), n)
          /\ RedemptionWrites(e.signer, Shown, a, TokenFor(a), n)
    BY <1>1, <2>1, <2>3, RedemptionIs
  <2>6. RedemptionReady(e.signer, Shown, a, TokenFor(a), n) => Outcome(e) = n
    BY <1>3 DEF RedemptionReady, Outcome
  <2>7. RedeemCall(e) <=>
          /\ RedeemReady(e.signer, Shown, a, n) /\ n <= e.args.shown
          /\ RedemptionWrites(e.signer, Shown, a, TokenFor(a), n) /\ AfterPoolCall
    BY <1>3, <2>4, <2>5, <2>6 DEF RedeemCall, RedeemReady
  <2>8. QED
    BY <1>3, <2>2, <2>7 DEF CallReady, CallWrites
<1>4. CASE e.kind = "create"
  <2>1. e.args.purpose \in Nat /\ e.args.mode \in Nat
    BY <1>4 DEF ArgsOf
  <2>2. Call(e) <=> CreateCall(e)
    BY <1>4 DEF Call, DepositCall, RedeemCall, CreateCall, MetaCall, RiskCall, PauseCall
  <2>3. \E name \in Names : name # ""
    BY OwnerAssumption
  <2>4. ASSUME NEW name, name # ""
        PROVE  CreateVault(e.signer, name, e.args.purpose, e.args.mode, e.args.open, e.args.params)
                 /\ AfterConfigCall <=> CallReady(e) /\ CallWrites(e)
    <3>1. e.args.mode \in 1 .. 3 <=> e.args.mode >= 1 /\ e.args.mode <= 3
      BY <2>1
    <3>2. CallReady(e) <=>
            /\ nextVaultId <= MaxVaults /\ vaultConfig[nextVaultId] = Absent
            /\ ~protocolPaused
            /\ e.args.purpose <= 5 /\ e.args.mode \in 1 .. 3
            /\ ParamsValid(e.args.params)
      BY <1>4 DEF CallReady
    <3>3. CallWrites(e) <=>
            /\ vaults' = [vaults EXCEPT ![nextVaultId] =
                            [owner |-> e.signer, purpose |-> e.args.purpose, assets |-> e.args.mode,
                             openDeposits |-> e.args.open, paused |-> FALSE]]
            /\ ownerVaults' = [ownerVaults EXCEPT ![e.signer] = Append(@, nextVaultId)]
            /\ nextVaultId' = nextVaultId + 1
            /\ vaultConfig' = [vaultConfig EXCEPT ![nextVaultId] =
                 [params |-> e.args.params, lastUsedNonce |-> 0, lastExecutionHeight |-> 0]]
            /\ UNCHANGED <<protocolLimits, approvedSbtc, mainnetExecutionArmed, indexVars, poolVars>>
            /\ AfterConfigCall
      BY <1>4 DEF CallWrites
    <3>4. QED
      BY <2>4, <3>1, <3>2, <3>3, Zenon DEF CreateVault, InitVaultConfig
  <2>5. ASSUME NEW name,
               CreateVault(e.signer, name, e.args.purpose, e.args.mode, e.args.open, e.args.params)
        PROVE  name # ""
    BY <2>5 DEF CreateVault
  <2>6. QED
    BY <1>4, <2>2, <2>3, <2>4, <2>5 DEF CreateCall
<1>5. CASE e.kind = "meta"
  <2>1. Call(e) <=> MetaCall(e)
    BY <1>5 DEF Call, DepositCall, RedeemCall, CreateCall, MetaCall, RiskCall, PauseCall
  <2>2. QED
    BY <1>5, <2>1, OwnerAssumption DEF MetaCall, SetVaultConfig, CallReady, CallWrites
<1>6. CASE e.kind = "risk"
  <2>1. Call(e) <=> RiskCall(e)
    BY <1>6 DEF Call, DepositCall, RedeemCall, CreateCall, MetaCall, RiskCall, PauseCall
  <2>2. QED
    BY <1>6, <2>1 DEF RiskCall, SetRiskConfig, SetVaultRiskConfig, CallReady, CallWrites
<1>7. CASE e.kind = "pause"
  <2>1. Call(e) <=> PauseCall(e)
    BY <1>7 DEF Call, DepositCall, RedeemCall, CreateCall, MetaCall, RiskCall, PauseCall
  <2>2. e.args.pause \in BOOLEAN
    BY <1>7 DEF ArgsOf
  <2>3. QED
    BY <1>7, <2>1, <2>2 DEF PauseCall, PauseVault, UnpauseVault, SetPaused, CallReady, CallWrites
<1>8. QED
  BY <1>2, <1>3, <1>4, <1>5, <1>6, <1>7 DEF Kinds

-----------------------------------------------------------------------------
(* Parts of a whole, in 1/100 %. *)

LEMMA PercentIs ==
  ASSUME NEW x \in Nat, NEW t \in Nat, x <= t
  PROVE  /\ PercentOf(x, t) \in Nat
         /\ PercentOf(x, t) <= BPS
         /\ PercentOf(x, t) * t <= x * BPS
         /\ PercentOf(x, t) > 0 => x > 0
<1>1. x * BPS \in Nat /\ x * BPS <= BPS * t
  BY Scale DEF BPS
<1>2. CASE t = 0
  BY <1>1, <1>2 DEF PercentOf, BPS
<1>3. CASE t > 0
  <2> DEFINE q == (x * BPS) \div t
  <2>1. PercentOf(x, t) = q
    BY <1>3 DEF PercentOf
  <2>2. q \in Nat /\ q * t <= x * BPS
    BY <1>1, <1>3, Floor
  <2>3. q <= BPS
    BY <1>1, <1>3, FloorBound DEF BPS
  <2>4. x = 0 => q = 0
    <3>1. x = 0 => x * BPS <= 0 * t
      BY DEF BPS
    <3>2. x = 0 => q <= 0
      BY <1>1, <1>3, <3>1, FloorBound
    <3>3. QED
      BY <2>2, <3>2
  <2>5. QED
    BY <2>1, <2>2, <2>3, <2>4
<1>4. QED
  BY <1>2, <1>3

(* What is added to a part and to its whole makes the part no smaller. *)
LEMMA PercentGrows ==
  ASSUME NEW x \in Nat, NEW t \in Nat, NEW n \in Nat, x <= t
  PROVE  PercentOf(x, t) <= PercentOf(x + n, t + n)
<1> DEFINE q == PercentOf(x, t)
<1>1. q \in Nat /\ q <= BPS /\ q * t <= x * BPS
  BY PercentIs
<1>2. CASE t + n = 0
  BY <1>2 DEF PercentOf
<1>3. CASE t + n > 0
  <2> HIDE DEF q
  <2>1. q * n <= BPS * n
    BY <1>1, Scale DEF BPS
  <2>2. q * (t + n) = q * t + q * n /\ (x + n) * BPS = x * BPS + BPS * n
    BY <1>1 DEF BPS
  <2>3. q * (t + n) <= (x + n) * BPS
    <3>1. q * t \in Nat /\ q * n \in Nat /\ x * BPS \in Nat /\ BPS * n \in Nat
      BY <1>1 DEF BPS
    <3>2. QED
      BY <1>1, <2>1, <2>2, <3>1
  <2>4. (x + n) * BPS \in Nat /\ t + n \in Nat /\ t + n > 0
    BY <1>3 DEF BPS
  <2>5. q <= ((x + n) * BPS) \div (t + n)
    BY <1>1, <2>3, <2>4, FloorLargest
  <2>6. PercentOf(x + n, t + n) = ((x + n) * BPS) \div (t + n)
    BY <1>3 DEF PercentOf
  <2>7. QED
    BY <2>5, <2>6 DEF q
<1>4. QED
  BY <1>2, <1>3

(* Two parts do not add up to more than their whole. *)
LEMMA PercentsAddUp ==
  ASSUME NEW x \in Nat, NEW y \in Nat, NEW t \in Nat, t = x + y
  PROVE  PercentOf(x, t) + PercentOf(y, t) <= BPS
<1> DEFINE p == PercentOf(x, t)
           q == PercentOf(y, t)
<1>1. p \in Nat /\ p * t <= x * BPS /\ q \in Nat /\ q * t <= y * BPS
  <2>1. x <= t /\ y <= t
    OBVIOUS
  <2>2. QED
    BY <2>1, PercentIs
<1>2. t = 0 => p = 0 /\ q = 0
  BY DEF PercentOf
<1>3. (p + q) * t <= BPS * t
  <2> HIDE DEF p, q
  <2>1. (p + q) * t = p * t + q * t /\ BPS * t = x * BPS + y * BPS
    BY <1>1 DEF BPS
  <2>2. p * t \in Nat /\ q * t \in Nat /\ x * BPS \in Nat /\ y * BPS \in Nat
    BY <1>1 DEF BPS
  <2>3. QED
    BY <1>1, <2>1, <2>2
<1>4. CASE t > 0
  <2> HIDE DEF p, q
  <2>1. p + q <= BPS
    BY <1>1, <1>3, <1>4, Scale DEF BPS
  <2>2. QED
    BY <2>1 DEF p, q
<1>5. QED
  BY <1>2, <1>4 DEF BPS

(* Nobody holds more shares than there are. *)
LEMMA SharesWithinSupply ==
  ASSUME ChainInv, NEW v \in VaultIds, NEW a \in Assets, NEW p \in Principals
  PROVE  /\ balances[v][a][p] \in Nat /\ supplies[v][a] \in Nat
         /\ totalBalances[v][a] = supplies[v][a]
         /\ balances[v][a][p] <= supplies[v][a]
<1>1. /\ balances[v][a] \in [Principals -> Nat] /\ supplies[v][a] \in Nat
      /\ totalBalances[v][a] = supplies[v][a]
  BY DEF ChainInv, PoolInv, PoolParity, TypeOK, ReceiptTypeOK
<1>2. supplies[v][a] = SumFunction(balances[v][a])
  BY DEF ChainInv, SumsInv, SharesSumToSupply
<1>3. QED
  BY <1>1, <1>2, FiniteDomains, SumNat

-----------------------------------------------------------------------------
(* The buttons, with what the contracts ask in the place of ENABLED. *)

NotReady(e) == ~CallReady(e)

TakesReady(v, a, n) == DepositReady(account, v, a, n)

PaysReady(v, a, n) == RedeemReady(account, v, a, n)

UnpauseReady(v) == IsOwner(account, v) /\ vaults[v].paused

ButtonsGuarded ==
  /\ DepositButtonExact(NotReady) /\ RedeemButtonExact(NotReady)
  /\ OwnerFormsExact(NotReady) /\ AutonomyAccepted
  /\ CardsExact(TakesReady, PaysReady, UnpauseReady)

LEMMA SignedIs ==
  ASSUME NEW kind, NEW args
  PROVE  /\ Signed(kind, args).kind = kind /\ Signed(kind, args).args = args
         /\ Signed(kind, args).signer = account /\ Signed(kind, args).viewer = account
  BY DEF Signed, Submission

(* What a current view of an open form says of the chain. *)
LEMMA CurrentViewIs ==
  ASSUME ChainInv, SessionInv, ViewInv, ViewCurrent
  PROVE  /\ account \in Principals /\ Shown \in VaultIds
         /\ vaults[Shown] \in Vault /\ vaults[Shown] # Absent
         /\ overview.meta = vaults[Shown]
         /\ overview.risk = vaultConfig[Shown].params
         /\ FundsOpen =>
              /\ form \in FundForms
              /\ form.asset \in SupportedAssets(vaults[Shown].assets) /\ form.asset \in Assets
              /\ AssetInMode(vaults[Shown].assets, form.asset)
              /\ overview.pools[form.asset] = GetPool(Shown, form.asset)
              /\ form.asset \in DOMAIN overview.positions
              /\ overview.positions[form.asset] = GetPosition(Shown, form.asset, account)
<1>1. account \in Principals /\ Shown \in VaultIds
  BY SessionAssumption DEF SessionInv, AccountOK, ViewCurrent
<1>2. overview.meta = vaults[Shown] /\ overview.risk = vaultConfig[Shown].params
  BY DEF ViewCurrent, GetVaultMeta, GetRiskConfig
<1>3. vaults[Shown] \in Vault /\ vaults[Shown] # Absent
  BY <1>2, VaultAssumption DEF ViewCurrent, SessionInv, OverviewOK
<1>4. ASSUME FundsOpen
      PROVE  /\ form \in FundForms
             /\ form.asset \in SupportedAssets(vaults[Shown].assets) /\ form.asset \in Assets
             /\ AssetInMode(vaults[Shown].assets, form.asset)
             /\ overview.pools[form.asset] = GetPool(Shown, form.asset)
             /\ form.asset \in DOMAIN overview.positions
             /\ overview.positions[form.asset] = GetPosition(Shown, form.asset, account)
  <2>1. form \in FundForms
    BY <1>4 DEF FundsOpen, SessionInv, FormOK, Forms
  <2>2. form.asset \in SupportedAssets(vaults[Shown].assets) /\ form.asset \in Assets
    BY <1>4, <2>1 DEF ViewInv, FundForms
  <2>3. AssetInMode(vaults[Shown].assets, form.asset)
    <3>1. vaults[Shown].assets \in 1 .. 3
      BY <1>3 DEF Vault
    <3>2. QED
      BY <2>2, <3>1 DEF SupportedAssets, AssetInMode
  <2>4. WholeFor(overview, vaults[Shown].assets) /\ overview.viewer # Absent
    BY DEF ViewInv, Viewing, ViewCurrent
  <2>5. form.asset \in DOMAIN overview.positions
    BY <2>2, <2>4 DEF WholeFor
  <2>6. QED
    BY <1>2, <2>1, <2>2, <2>3, <2>5 DEF ViewCurrent
<1>5. QED
  BY <1>1, <1>2, <1>3, <1>4

LEMMA DepositButtonGuarded ==
  ChainInv /\ SessionInv /\ ViewInv => DepositButtonExact(NotReady)
<1> SUFFICES ASSUME ChainInv, SessionInv, ViewInv, Editing("deposit"), form.amount > 0,
                    account \in AppAccounts, TokenCurrent, ViewCurrent,
                    facts.paused = IsProtocolPaused, facts.approved = SbtcApproved,
                    facts.balances = GetBalances(account), FeeKept,
                    form.preview = PreviewDeposit(Shown, form.asset, form.amount)
             PROVE  /\ CanDeposit <=> CallReady(Signed("deposit", PoolArgs))
                    /\ CanDeposit => OwnershipAfterDeposit(Held)
                                       \in PercentOf(Held, GetPool(Shown, form.asset).supply) .. BPS
  BY DEF DepositButtonExact, NotReady
<1> DEFINE a == form.asset
           n == form.amount
           h == balances[Shown][a][account]
           s == supplies[Shown][a]
<1>1. FundsOpen
  BY DEF Editing, OnPage, FundsOpen
<1>2. /\ account \in Principals /\ Shown \in VaultIds
      /\ vaults[Shown] \in Vault /\ vaults[Shown] # Absent
      /\ overview.meta = vaults[Shown]
  BY CurrentViewIs
<1>3. /\ form \in FundForms /\ a \in Assets
      /\ AssetInMode(vaults[Shown].assets, a)
      /\ overview.pools[a] = GetPool(Shown, a)
      /\ a \in DOMAIN overview.positions
      /\ overview.positions[a] = GetPosition(Shown, a, account)
  BY <1>1, CurrentViewIs
<1>4. n \in Nat
  BY <1>3 DEF FundForms
<1>5. PreviewShown <=> DepositAccepted(s, totalBalances[Shown][a], n, MinInitialDeposit[a])
  <2>1. s \in Nat /\ totalBalances[Shown][a] = s
    BY <1>2, <1>3, SharesWithinSupply
  <2>2. DepositShares(s, s, n) = n
    BY <1>4, <2>1, PriceOfOne
  <2>3. Refused \notin Nat
    BY ReadAssumption
  <2> HIDE DEF s, a, n
  <2>4. QED
    BY <1>4, <2>1, <2>2, <2>3 DEF PreviewShown, PreviewDeposit, a, n, s
<1>6. Afforded <=> n <= holdings[TokenFor(a)][account]
  <2>1. \A b \in Assets : TokenFor(b) \in Tokens
    BY TokensAre
  <2>2. GetBalances(account) = [b \in Assets |-> holdings[TokenFor(b)][account]]
    BY DEF GetBalances, TokenFor
  <2>3. GetBalances(account) \in [Assets -> Nat]
    BY <1>2, <2>1, <2>2 DEF ChainInv, PoolInv, TypeOK, ChainTypeOK, Accounts
  <2>4. Unknown \notin [Assets -> Nat]
    BY ReadAssumption
  <2>5. QED
    BY <1>3, <2>2, <2>3, <2>4 DEF Afforded
<1>7. facts.paused # TRUE <=> ~protocolPaused
  <2>1. protocolPaused \in BOOLEAN
    BY DEF ChainInv, PoolInv, TypeOK, AdminTypeOK
  <2>2. QED
    BY <2>1 DEF IsProtocolPaused
<1>8. (form.asset = "SBTC" => facts.approved # FALSE) <=> Approved(a)
  BY TokensAre DEF SbtcApproved, TokenCurrent, Approved
<1>9. DepositAllowed <=>
        /\ ~protocolPaused /\ ~vaults[Shown].paused /\ Approved(a)
        /\ account = vaults[Shown].owner \/ vaults[Shown].openDeposits
  BY <1>2, <1>7, <1>8 DEF DepositAllowed, IsViewersVault
<1>10. CanDeposit <=> DepositReady(account, Shown, a, n)
  BY <1>2, <1>3, <1>5, <1>6, <1>9 DEF CanDeposit, DepositReady
<1>11. CallReady(Signed("deposit", PoolArgs)) <=> DepositReady(account, Shown, a, n)
  <2> DEFINE e == Signed("deposit", PoolArgs)
  <2>1. PoolArgs.asset = a /\ PoolArgs.amount = n
    BY DEF PoolArgs
  <2>2. e.kind = "deposit" /\ e.args = PoolArgs /\ e.signer = account /\ e.viewer = account
    BY SignedIs
  <2> HIDE DEF e, a, n
  <2>3. CallReady(e) <=> DepositReady(account, Shown, a, n)
    BY <2>1, <2>2 DEF CallReady
  <2>4. QED
    BY <2>3 DEF e
<1>12. ASSUME CanDeposit
       PROVE  OwnershipAfterDeposit(Held) \in PercentOf(Held, GetPool(Shown, form.asset).supply) .. BPS
  <2>1. form.preview = n
    BY <1>3, <1>4, <1>12, PreviewTypes DEF CanDeposit, PreviewShown
  <2>2. Held = h /\ GetPool(Shown, a).supply = s /\ overview.pools[a].supply = s
    BY <1>3 DEF Held, GetPosition, GetPool
  <2>3. h \in Nat /\ s \in Nat /\ h <= s
    BY <1>2, <1>3, SharesWithinSupply
  <2> HIDE DEF h, s, n, a
  <2>4. /\ PercentOf(h, s) \in Nat /\ PercentOf(h + n, s + n) \in Nat
        /\ PercentOf(h + n, s + n) <= BPS
    <3>1. n \in Nat
      BY <1>4 DEF n
    <3>2. h + n \in Nat /\ s + n \in Nat /\ h + n <= s + n
      BY <2>3, <3>1
    <3>3. QED
      BY <2>3, <3>2, PercentIs
  <2>5. PercentOf(h, s) <= PercentOf(h + n, s + n)
    BY <1>4, <2>3, PercentGrows
  <2>6. PercentOf(h + n, s + n) \in PercentOf(h, s) .. BPS
    BY <2>4, <2>5 DEF BPS
  <2>7. QED
    BY <2>1, <2>2, <2>6 DEF OwnershipAfterDeposit, a
<1>13. QED
  BY <1>10, <1>11, <1>12

LEMMA RedeemButtonGuarded ==
  ChainInv /\ SessionInv /\ ViewInv => RedeemButtonExact(NotReady)
<1> SUFFICES ASSUME ChainInv, SessionInv, ViewInv, Editing("redeem"), form.amount > 0,
                    account \in AppAccounts,
                    form.asset = "SBTC" =>
                      approvedSbtc = AppToken /\ idleBalances[Shown]["SBTC"] <= holdings[AppToken][VAULT],
                    ViewCurrent,
                    form.preview = PreviewRedeem(Shown, form.asset, form.amount)
             PROVE  /\ CanRedeem <=> CallReady(Signed("redeem", PoolArgs))
                    /\ CanRedeem => /\ form.preview <= Redeemable
                                    /\ OwnershipAfterRedemption
                                         <= PercentOf(Held, GetPool(Shown, form.asset).supply)
  BY DEF RedeemButtonExact, NotReady
<1> DEFINE a == form.asset
           n == form.amount
           h == balances[Shown][a][account]
           s == supplies[Shown][a]
           i == idleBalances[Shown][a]
           t == TokenFor(a)
<1>1. FundsOpen
  BY DEF Editing, OnPage, FundsOpen
<1>2. /\ account \in Principals /\ Shown \in VaultIds
      /\ vaults[Shown] \in Vault /\ vaults[Shown] # Absent
  BY CurrentViewIs
<1>3. /\ form \in FundForms /\ a \in Assets
      /\ AssetInMode(vaults[Shown].assets, a)
      /\ overview.pools[a] = GetPool(Shown, a)
      /\ a \in DOMAIN overview.positions
      /\ overview.positions[a] = GetPosition(Shown, a, account)
  BY <1>1, CurrentViewIs
<1>4. n \in Nat /\ i \in Nat
  BY <1>2, <1>3 DEF FundForms, ChainInv, PoolInv, TypeOK, VaultTypeOK
<1>5. h \in Nat /\ s \in Nat /\ totalBalances[Shown][a] = s /\ h <= s
  BY <1>2, <1>3, SharesWithinSupply
<1>6. Held = h /\ overview.pools[a].idle = i /\ overview.pools[a].supply = s
      /\ GetPool(Shown, a).supply = s
  BY <1>3 DEF Held, GetPosition, GetPool
<1>7. Approved(a) /\ (n <= i => n <= holdings[t][VAULT])
  <2>1. Approved(a)
    BY DEF Approved
  <2>2. CASE a = "STX"
    <3>1. Payable(t, a, n)
      BY <2>2, TokensAre DEF Payable, TokensOf
    <3>2. QED
      BY <1>2, <1>3, <1>4, <2>1, <3>1, PayableIsOwned DEF ChainInv
  <2>3. CASE a = "SBTC"
    <3>1. t = AppToken /\ AppToken \in Tokens
      <4>1. AppToken \in Tokens
        BY ReadAssumption DEF Tokens
      <4>2. QED
        BY <2>3, <4>1 DEF TokenFor
    <3>2. holdings[t][VAULT] \in Nat
      BY <3>1 DEF ChainInv, PoolInv, TypeOK, ChainTypeOK, Accounts
    <3>3. QED
      BY <1>4, <2>1, <2>3, <3>1, <3>2
  <2>4. QED
    BY <1>3, <2>2, <2>3 DEF Assets
<1>8. s > 0 => RedeemAssets(n, s, s) = n /\ Claim(h, s, s) = h
  BY <1>4, <1>5, PriceOfOne DEF Claim, RedeemAssets
<1>9. PreviewShown <=> RedeemAccepted(n, s, s)
  <2>1. Refused \notin Nat
    BY ReadAssumption
  <2>2. RedeemAccepted(n, s, s) => s > 0
    BY DEF RedeemAccepted
  <2>3. form.preview = IF RedeemAccepted(n, s, s) THEN RedeemAssets(n, s, s) ELSE Refused
    BY <1>5 DEF PreviewRedeem
  <2> HIDE DEF s, a, n
  <2>4. QED
    BY <1>4, <1>8, <2>1, <2>2, <2>3 DEF PreviewShown
<1>10. PreviewShown => form.preview = n /\ s > 0
  BY <1>3, <1>4, <1>9, PreviewTypes DEF PreviewShown, RedeemAccepted
<1>11. CallReady(Signed("redeem", PoolArgs)) <=> RedeemReady(account, Shown, a, n) /\ n <= form.preview
  <2> DEFINE e == Signed("redeem", PoolArgs)
  <2>1. PoolArgs.asset = a /\ PoolArgs.amount = n /\ PoolArgs.shown = form.preview
    BY DEF PoolArgs
  <2>2. e.kind = "redeem" /\ e.args = PoolArgs /\ e.signer = account
    BY SignedIs
  <2> HIDE DEF e, a, n
  <2>3. CallReady(e) <=> RedeemReady(account, Shown, a, n) /\ n <= form.preview
    BY <2>1, <2>2 DEF CallReady
  <2>4. QED
    BY <2>3 DEF e
<1>12. SupportsAsset(Shown, a)
  BY <1>2, <1>3 DEF SupportsAsset
<1>13. RedeemReady(account, Shown, a, n) <=>
         /\ RedeemAccepted(n, s, s) /\ n <= h /\ n <= i
  <2>1. RedeemAccepted(n, s, s) => s > 0 /\ n > 0
    BY DEF RedeemAccepted
  <2>2. QED
    BY <1>5, <1>7, <1>8, <1>12, <2>1 DEF RedeemReady, RedemptionReady
<1>14. CanRedeem <=> /\ PreviewShown /\ n <= h /\ n <= i
  <2>1. PreviewShown /\ n <= h => h > 0
    BY <1>4, <1>5
  <2>2. CanRedeem <=> /\ Held > 0 /\ n <= Held /\ PreviewShown /\ form.preview <= i
    BY <1>6 DEF CanRedeem
  <2>3. QED
    BY <1>6, <1>10, <2>1, <2>2
<1>15. ASSUME CanRedeem
       PROVE  form.preview <= Redeemable
  <2>1. Redeemable = IF h < i THEN h ELSE i
    BY <1>3, <1>5, <1>8, <1>10, <1>14, <1>15 DEF Redeemable, GetPosition
  <2>2. QED
    BY <1>4, <1>5, <1>10, <1>14, <1>15, <2>1
<1>16. ASSUME CanRedeem
       PROVE  OwnershipAfterRedemption <= PercentOf(Held, GetPool(Shown, form.asset).supply)
  <2>1. OwnershipAfterRedemption = PercentOf(h - n, s - n)
    BY <1>6 DEF OwnershipAfterRedemption
  <2> HIDE DEF h, s, n, a
  <2>2. h - n \in Nat /\ s - n \in Nat /\ h - n <= s - n /\ (h - n) + n = h /\ (s - n) + n = s
    BY <1>4, <1>5, <1>14, <1>16
  <2>3. PercentOf(h - n, s - n) <= PercentOf((h - n) + n, (s - n) + n)
    BY <1>4, <2>2, PercentGrows
  <2>4. QED
    BY <1>6, <2>1, <2>2, <2>3 DEF a
<1>17. QED
  BY <1>9, <1>10, <1>11, <1>13, <1>14, <1>15, <1>16, <1>4

(* parseRisk finds an error in exactly what assert-params-valid refuses. *)
LEMMA RiskErrorsAre ==
  ASSUME ChainInv, NEW v \in RiskParams
  PROVE  RiskErrors(v, protocolLimits) = {} <=> ParamsValid(v)
<1>1. /\ v.maxExposureBps \in Nat /\ v.maxSlippageBps \in Nat /\ v.minIdleBps \in Nat
      /\ v.cooldownBlocks \in Nat /\ v.maxTxAmount \in [Assets -> Nat]
  BY DEF RiskParams
<1>2. /\ protocolLimits.maxExposureBps \in Nat /\ protocolLimits.maxSlippageBps \in Nat
      /\ protocolLimits.minLiquidityBps \in Nat /\ protocolLimits.minCooldownBlocks \in Nat
  BY DEF ChainInv, PoolInv, TypeOK, GuardTypeOK, ProtocolLimits
<1>3. RiskErrors(v, protocolLimits) = {} <=>
        /\ v.maxExposureBps \in 1 .. protocolLimits.maxExposureBps
        /\ v.minIdleBps \in protocolLimits.minLiquidityBps .. BPS
        /\ v.maxSlippageBps \in 1 .. protocolLimits.maxSlippageBps
        /\ ~(v.cooldownBlocks < protocolLimits.minCooldownBlocks)
        /\ \A a \in Assets : v.maxTxAmount[a] # 0
  BY DEF RiskErrors
<1>4. \A a \in Assets : v.maxTxAmount[a] # 0 <=> v.maxTxAmount[a] > 0
  BY <1>1
<1>5. QED
  BY <1>1, <1>2, <1>3, <1>4 DEF ParamsValid, BPS

LEMMA OwnerFormsGuarded ==
  ChainInv /\ SessionInv /\ ViewInv /\ CreationInv => OwnerFormsExact(NotReady)
<1> SUFFICES ASSUME ChainInv, SessionInv, ViewInv, CreationInv
             PROVE  OwnerFormsExact(NotReady)
  OBVIOUS
<1>1. ASSUME ViewCurrent, IsViewersVault, NEW v \in RiskTexts
      PROVE  RiskErrors(v, protocolLimits) = {} <=> CallReady(Signed("risk", v))
  <2>1. /\ Shown \in VaultIds /\ vaults[Shown] # Absent /\ overview.meta = vaults[Shown]
    BY <1>1, CurrentViewIs
  <2>2. IsOwner(account, Shown)
    BY <1>1, <2>1 DEF IsOwner, IsViewersVault
  <2>3. vaultConfig[Shown] # Absent
    BY <2>1 DEF ChainInv, BooksInv, ConfigMirrorsVaults
  <2>4. RiskErrors(v, protocolLimits) = {} <=> ParamsValid(v)
    BY <1>1, OwnerAssumption, RiskErrorsAre
  <2>5. CallReady(Signed("risk", v)) <=> ParamsValid(v)
    <3> DEFINE e == Signed("risk", v)
    <3>1. e.kind = "risk" /\ e.args = v /\ e.signer = account
      BY SignedIs
    <3> HIDE DEF e
    <3>2. CallReady(e) <=> ParamsValid(v)
      BY <2>2, <2>3, <3>1 DEF CallReady
    <3>3. QED
      BY <3>2 DEF e
  <2>6. QED
    BY <2>4, <2>5
<1>2. ASSUME CanCreate, facts.limits = protocolLimits, ~protocolPaused, nextVaultId <= MaxVaults
      PROVE  CallReady(Signed("create", Reviewed))
  <2>1. form \in CreateForms /\ form.purpose # Absent
    BY <1>2 DEF CanCreate, OnStep, OnPage, CreationInv
  <2>2. form.purpose <= 5 /\ form.mode \in 1 .. 3 /\ form.values \in RiskParams
    BY <2>1 DEF CreateForms
  <2>3. ParamsValid(form.values)
    BY <1>2, <2>2, RiskErrorsAre DEF CanCreate, ParsesUnder
  <2>4. vaultConfig[nextVaultId] = Absent
    <3>1. nextVaultId \in VaultIds
      BY <1>2, ChainAssumption DEF ChainInv, PoolInv, TypeOK, VaultTypeOK, VaultIds
    <3>2. ~(nextVaultId < nextVaultId)
      BY <3>1 DEF VaultIds
    <3>3. QED
      BY <3>1, <3>2 DEF ChainInv, BooksInv, ConfigMirrorsVaults
  <2>5. /\ Reviewed.purpose = form.purpose /\ Reviewed.mode = form.mode
        /\ Reviewed.params = form.values
    BY DEF Reviewed
  <2> DEFINE e == Signed("create", Reviewed)
  <2>6. e.kind = "create" /\ e.args = Reviewed
    BY SignedIs
  <2> HIDE DEF e
  <2>7. CallReady(e)
    BY <1>2, <2>2, <2>3, <2>4, <2>5, <2>6 DEF CallReady
  <2>8. QED
    BY <2>7 DEF e
<1>3. QED
  BY <1>1, <1>2, Zenon DEF OwnerFormsExact, NotReady

LEMMA CardsGuarded ==
  ChainInv /\ TreasuryInv => CardsExact(TakesReady, PaysReady, UnpauseReady)
<1> SUFFICES ASSUME ChainInv, TreasuryInv, ListCurrent, NEW v \in Listed
             PROVE  /\ \A a \in SupportedAssets(vaults[v].assets), n \in Amounts :
                         /\ TakesReady(v, a, n) => DepositOffered(v)
                         /\ ( /\ DepositOffered(v) /\ ~protocolPaused
                              /\ a = "SBTC" => approvedSbtc = AppToken
                              /\ n <= GetBalances(account)[a] /\ PreviewDeposit(v, a, n) # Refused )
                            => TakesReady(v, a, n)
                         /\ PaysReady(v, a, n) => RedeemOffered(v)
                    /\ \A a \in SupportedAssets(vaults[v].assets) :
                         LET f == CardFigures(v, a) IN
                         /\ f.deployed > 0 => \E s \in StrategyIds : strategyAllocations[v][s][a] > 0
                         /\ f.yours > 0 => RedeemOffered(v)
                         /\ f.idle + f.deployed <= BPS
                    /\ Attention(v) = "unpause" => UnpauseReady(v)
                    /\ Attention(v) = "make the first deposit" => \A a \in Assets : supplies[v][a] = 0
  BY DEF CardsExact
<1>1. ListOK(list)
  BY DEF TreasuryInv, ListCurrent
<1>2. /\ account \in Principals /\ list.who = account
      /\ v \in VaultIds /\ vaults[v] # Absent
      /\ v \in Owned <=> vaults[v].owner = account
  BY <1>1, CurrentListShows
<1>3. vaults[v] \in Vault /\ vaults[v].assets \in 1 .. 3
  BY <1>2 DEF ChainInv, PoolInv, TypeOK, VaultTypeOK, Vault
<1>4. \A a : a \in SupportedAssets(vaults[v].assets) <=> a \in Assets /\ AssetInMode(vaults[v].assets, a)
  BY <1>3 DEF SupportedAssets, AssetInMode, Assets
<1>5. OverviewOf(v).meta = vaults[v]
  BY DEF OverviewOf, GetVaultMeta
<1>6. \A a \in SupportedAssets(vaults[v].assets) :
        /\ OverviewOf(v).pools[a] = GetPool(v, a)
        /\ OverviewOf(v).positions[a] = GetPosition(v, a, account)
  BY <1>2 DEF OverviewOf
<1>7. /\ DOMAIN OverviewOf(v).positions = SupportedAssets(vaults[v].assets)
      /\ DOMAIN OverviewOf(v).pools = SupportedAssets(vaults[v].assets)
  BY DEF OverviewOf
<1>8. \A a \in SupportedAssets(vaults[v].assets) :
        /\ OverviewOf(v).positions[a].shares = balances[v][a][account]
        /\ balances[v][a][account] > 0 => RedeemOffered(v)
  <2>1. \A a : GetPosition(v, a, account).shares = balances[v][a][account]
    BY DEF GetPosition
  <2>2. QED
    BY <1>6, <1>7, <2>1 DEF RedeemOffered, ViewerHoldsShares
<1>9. DepositOffered(v) <=> /\ vaults[v].openDeposits \/ account = vaults[v].owner
                            /\ ~vaults[v].paused
  BY <1>2, <1>5 DEF DepositOffered
<1>10. ASSUME NEW a \in SupportedAssets(vaults[v].assets), NEW n \in Amounts
       PROVE  /\ TakesReady(v, a, n) => DepositOffered(v)
              /\ ( /\ DepositOffered(v) /\ ~protocolPaused
                   /\ a = "SBTC" => approvedSbtc = AppToken
                   /\ n <= GetBalances(account)[a] /\ PreviewDeposit(v, a, n) # Refused )
                 => TakesReady(v, a, n)
              /\ PaysReady(v, a, n) => RedeemOffered(v)
  <2>1. TakesReady(v, a, n) => DepositOffered(v)
    BY <1>9 DEF TakesReady, DepositReady
  <2>2. GetBalances(account)[a] = holdings[TokenFor(a)][account]
    BY <1>4 DEF GetBalances, TokenFor
  <2>3. PreviewDeposit(v, a, n) # Refused =>
          DepositAccepted(supplies[v][a], totalBalances[v][a], n, MinInitialDeposit[a])
    BY DEF PreviewDeposit
  <2>4. ASSUME DepositOffered(v), ~protocolPaused, a = "SBTC" => approvedSbtc = AppToken,
               n <= GetBalances(account)[a], PreviewDeposit(v, a, n) # Refused
        PROVE  TakesReady(v, a, n)
    BY <1>2, <1>4, <1>9, <2>2, <2>3, <2>4 DEF TakesReady, DepositReady, Approved
  <2>5. ASSUME PaysReady(v, a, n)
        PROVE  RedeemOffered(v)
    <3>1. n > 0 /\ n <= balances[v][a][account]
      BY <2>5 DEF PaysReady, RedeemReady, RedemptionReady
    <3>2. n \in Nat /\ balances[v][a][account] \in Nat
      BY <1>2, <1>4, SharesWithinSupply, InputAssumption
    <3>3. QED
      BY <1>8, <3>1, <3>2
  <2>6. QED
    BY <2>1, <2>4, <2>5
<1>11. ASSUME NEW a \in SupportedAssets(vaults[v].assets)
       PROVE  LET f == CardFigures(v, a) IN
              /\ f.deployed > 0 => \E s \in StrategyIds : strategyAllocations[v][s][a] > 0
              /\ f.yours > 0 => RedeemOffered(v)
              /\ f.idle + f.deployed <= BPS
  <2> DEFINE h == balances[v][a][account]
             s == supplies[v][a]
             i == idleBalances[v][a]
             F == [r \in StrategyIds |-> strategyAllocations[v][r][a]]
  <2>1. a \in Assets
    BY <1>4
  <2>2. h \in Nat /\ s \in Nat /\ totalBalances[v][a] = s /\ h <= s
    BY <1>2, <2>1, SharesWithinSupply
  <2>3. /\ CardFigures(v, a).yours = PercentOf(h, s)
        /\ CardFigures(v, a).idle = PercentOf(i, s)
        /\ CardFigures(v, a).deployed = PercentOf(s - i, s)
    <3>1. /\ OverviewOf(v).pools[a].supply = s /\ OverviewOf(v).pools[a].idle = i
          /\ OverviewOf(v).pools[a].total = s
      <4>1. /\ GetPool(v, a).supply = supplies[v][a] /\ GetPool(v, a).idle = idleBalances[v][a]
            /\ GetPool(v, a).total = totalBalances[v][a]
        BY DEF GetPool
      <4>2. QED
        BY <1>6, <2>2, <4>1
    <3>2. OverviewOf(v).positions[a].shares = h
      BY <1>8
    <3> HIDE DEF s, i, h
    <3>3. QED
      BY <3>1, <3>2 DEF CardFigures
  <2>4. i \in Nat /\ F \in [StrategyIds -> Nat]
    BY <1>2, <2>1 DEF ChainInv, PoolInv, TypeOK, VaultTypeOK
  <2>5. s = i + SumFunction(F)
    BY <1>2, <2>1, <2>2 DEF ChainInv, SumsInv, PoolSplit
  <2>6. SumFunction(F) \in Nat /\ ((\A r \in StrategyIds : F[r] = 0) => SumFunction(F) = 0)
    BY <2>4, FiniteDomains, SumNat
  <2>7. (\E r \in StrategyIds : strategyAllocations[v][r][a] > 0) \/ SumFunction(F) = 0
    BY <2>4, <2>6
  <2> HIDE DEF F, h, s, i
  <2>8. s - i \in Nat /\ s - i <= s /\ s - i = SumFunction(F) /\ s = i + (s - i)
    BY <2>2, <2>4, <2>5, <2>6
  <2>9. PercentOf(s - i, s) > 0 => SumFunction(F) > 0
    BY <2>2, <2>8, PercentIs
  <2>10. PercentOf(h, s) > 0 => RedeemOffered(v)
    BY <1>8, <2>2, PercentIs DEF h
  <2>11. PercentOf(i, s) + PercentOf(s - i, s) <= BPS
    BY <2>2, <2>4, <2>8, PercentsAddUp
  <2>12. QED
    BY <2>3, <2>6, <2>7, <2>9, <2>10, <2>11
<1>12. Attention(v) = "unpause" => UnpauseReady(v)
  BY <1>2, <1>5 DEF Attention, UnpauseReady, IsOwner
<1>13. ASSUME Attention(v) = "make the first deposit", NEW a \in Assets
       PROVE  supplies[v][a] = 0
  <2>1. CASE a \in SupportedAssets(vaults[v].assets)
    <3>1. GetPool(v, a).total = 0
      BY <1>6, <1>7, <1>13, <2>1 DEF Attention
    <3>2. QED
      BY <1>2, <3>1, SharesWithinSupply DEF GetPool
  <2>2. CASE a \notin SupportedAssets(vaults[v].assets)
    <3>1. balances[v][a] \in [Principals -> Nat]
      BY <1>2 DEF ChainInv, PoolInv, TypeOK, ReceiptTypeOK
    <3>2. \A p \in Principals : ~(balances[v][a][p] > 0)
      BY <1>2, <1>4, <2>2 DEF ChainInv, SharesHaveAVault, SupportsAsset
    <3>3. \A p \in Principals : balances[v][a][p] = 0
      BY <3>1, <3>2
    <3>4. SumFunction(balances[v][a]) = 0
      BY <3>1, <3>3, FiniteDomains, SumNat
    <3>5. QED
      BY <1>2, <3>4 DEF ChainInv, SumsInv, SharesSumToSupply
  <2>3. QED
    BY <2>1, <2>2
<1>14. QED
  BY <1>10, <1>11, <1>12, <1>13, Zenon

(* What the pages check is what the contracts ask, wherever the app comes  *)
(* from and whatever others do: on current data a button is live exactly   *)
(* when the call's own assertions hold, the owner's forms refuse exactly   *)
(* what risk-guard refuses, no vault becomes autonomous unacknowledged,    *)
(* and the cards offer what the contracts would do.  It is ButtonsExact    *)
(* with what a call asks (CallIs) in the place of ENABLED.                 *)
THEOREM ButtonsAreGuarded == AnySession => []ButtonsGuarded
<1>1. (ChainInv /\ SessionInv) /\ ViewInv /\ [WebNext]_webVars => ViewInv'
  BY StepViews
<1>2. (ChainInv /\ SessionInv) /\ CreationInv /\ [WebNext]_webVars => CreationInv'
  BY StepCreation
<1>3. (ChainInv /\ SessionInv) /\ TreasuryInv /\ [WebNext]_webVars => TreasuryInv'
  BY StepTreasuries
<1>4. (ChainInv /\ SessionInv) /\ ViewInv /\ CreationInv /\ TreasuryInv => ButtonsGuarded
  <2>1. CreationInv => AutonomyAccepted
    BY DEF CreationInv, AutonomyAccepted
  <2>2. QED
    BY <2>1, DepositButtonGuarded, RedeemButtonGuarded, OwnerFormsGuarded, CardsGuarded
    DEF ButtonsGuarded
<1>5. QED
  BY <1>1, <1>2, <1>3, <1>4, StartViews, StartCreation, StartTreasuries, SessionSound, PTL DEF AnySession
=============================================================================
