----------------------------- MODULE OwnerPages -----------------------------
(***************************************************************************)
(* The pages with which a vault's terms are set: vault/create/page.tsx,    *)
(* vault/[id]/settings/page.tsx, and the risk form both use                *)
(* (components/vault/RiskFields.tsx, lib/presets.ts).  A field's text is   *)
(* the number it denotes; one that does not parse counts as 0, which is    *)
(* refused in the same fields.                                             *)
(***************************************************************************)
EXTENDS VaultPages

CONSTANT RiskTexts   \* what a user may enter as a vault's risk parameters

ASSUME OwnerAssumption == RiskTexts \subseteq RiskParams /\ \E name \in Names : name # ""

(* PURPOSES[id].defaults, with the transaction limits as one unit. *)
Preset(exposure, idle, slippage, cooldown) ==
  [maxExposureBps |-> exposure, maxTxAmount |-> [a \in Assets |-> 1],
   maxSlippageBps |-> slippage, minIdleBps |-> idle,
   autonomousEnabled |-> FALSE, cooldownBlocks |-> cooldown]

PurposeDefaults ==
  <<Preset(1500, 5000, 25, 720), Preset(5000, 1000, 100, 60), Preset(3000, 3500, 50, 288),
    Preset(2500, 4000, 30, 1008), Preset(1000, 6000, 10, 1440), Preset(2000, 3000, 50, 144)>>

(* Fault: the protocol's liquidity minimum is not compared. *)
RiskErrorsSansFloor(v, limits) ==
  {f \in {"exposure"} : v.maxExposureBps \notin 1 .. limits.maxExposureBps}
    \cup {f \in {"idle"} : v.minIdleBps > BPS}
    \cup {f \in {"slippage"} : v.maxSlippageBps \notin 1 .. limits.maxSlippageBps}
    \cup {f \in {"cooldown"} : v.cooldownBlocks < limits.minCooldownBlocks}
    \cup {a \in Assets : v.maxTxAmount[a] = 0}

(* parseRisk: the fields with an error; both assets' limits are checked,   *)
(* whichever of them the form shows.                                       *)
RiskErrors(v, limits) ==
  {f \in {"exposure"} : v.maxExposureBps \notin 1 .. limits.maxExposureBps}
    \cup {f \in {"idle"} : v.minIdleBps \notin limits.minLiquidityBps .. BPS}
    \cup {f \in {"slippage"} : v.maxSlippageBps \notin 1 .. limits.maxSlippageBps}
    \cup {f \in {"cooldown"} : v.cooldownBlocks < limits.minCooldownBlocks}
    \cup {a \in Assets : v.maxTxAmount[a] = 0}

ParsesUnder(limits) == limits # Unknown /\ RiskErrors(form.values, limits) = {}

EditForm(f) == form' = f /\ ChangesFormOnly

(* The fields of the form: all but the autonomy. *)
TypedRisk == {[v EXCEPT !.autonomousEnabled = form.values.autonomousEnabled] : v \in RiskTexts}

(* Manual, or autonomous with "I understand." below it. *)
AutonomyChosen ==
  {[form EXCEPT !.values.autonomousEnabled = c] : c \in BOOLEAN}
    \cup (IF form.values.autonomousEnabled THEN {[form EXCEPT !.accepted = ~@]} ELSE {})

SubmitOnly == UNCHANGED <<account, page, form, facts, overview, loadError, refreshes>>

-----------------------------------------------------------------------------
(* The settings of the shown vault: three forms with a hook each. *)

Settling(kind) == OnPage("settings") /\ IsViewersVault /\ ~Busy(kind)

EditSettings ==
  \/ Settling("meta") /\ EditForm([form EXCEPT !.open = ~@])
  \/ /\ Settling("risk")
     /\ \/ \E v \in TypedRisk : EditForm([form EXCEPT !.values = v])
        \/ \E f \in AutonomyChosen : EditForm(f)

SaveMeta ==
  /\ Settling("meta") /\ account \in AppAccounts
  /\ form.open # overview.meta.openDeposits
  /\ Send("meta", [open |-> form.open])
  /\ SubmitOnly

AutonomyNeedsAck ==
  form.values.autonomousEnabled /\ ~overview.risk.autonomousEnabled /\ ~form.accepted

(* The button is enabled with errors too: they are shown and nothing sent. *)
SaveRisk ==
  /\ Settling("risk") /\ account \in AppAccounts
  /\ ~AutonomyNeedsAck
  /\ ParsesUnder(facts.limits)
  /\ Send("risk", form.values)
  /\ SubmitOnly

TogglePause ==
  /\ Settling("pause") /\ account \in AppAccounts
  /\ Send("pause", [pause |-> ~overview.meta.paused])
  /\ SubmitOnly

-----------------------------------------------------------------------------
(* The creation of a vault: six steps, the transaction, and back. *)

CreateForm ==
  [step |-> 0, purpose |-> Absent, name |-> "none", mode |-> 1, open |-> FALSE,
   values |-> PurposeDefaults[6], accepted |-> FALSE]

OnStep(n) == OnPage("create") /\ form.step = n

(* choosePurpose: a name that the user typed stays. *)
WithPurpose(id) ==
  [form EXCEPT !.purpose = id, !.values = PurposeDefaults[id + 1],
               !.open = FALSE, !.accepted = FALSE,
               !.name = IF @ \in {"none", "suggested"} THEN "suggested" ELSE @]

(* PURPOSES has six. *)
ChoosePurpose == OnStep(0) /\ \E id \in Purposes \cap 0 .. 5 : EditForm(WithPurpose(id))

(* Trimmed, of 1 to 48 characters, which is what the contract's type and   *)
(* its check take.                                                         *)
NameValid == form.name \in {"suggested", "entered"}

EnterName == OnStep(1) /\ \E n \in {"entered", "unusable"} : EditForm([form EXCEPT !.name = n])

(* ASSET_MODES has three. *)
ChooseMode == OnStep(2) /\ \E m \in AssetModes \cap 1 .. 3 : EditForm([form EXCEPT !.mode = m])

ChooseAccess == OnStep(2) /\ EditForm([form EXCEPT !.open = ~@])

EnterRisk == OnStep(3) /\ \E v \in TypedRisk : EditForm([form EXCEPT !.values = v])

(* Here the choice of manual takes the acknowledgement back. *)
ChooseAutonomy ==
  /\ OnStep(4)
  /\ \E f \in AutonomyChosen :
       EditForm([f EXCEPT !.accepted = @ /\ f.values.autonomousEnabled])

(* Fault: the acknowledgement is asked for but not required. *)
CanNextUnaccepted ==
  /\ form.step = 0 => form.purpose # Absent
  /\ form.step = 1 => NameValid
  /\ form.step = 3 => ParsesUnder(facts.limits)

(* next() refuses to leave the risk step with errors or before the limits  *)
(* are read.                                                               *)
CanNext ==
  /\ form.step = 0 => form.purpose # Absent
  /\ form.step = 1 => NameValid
  /\ form.step = 3 => ParsesUnder(facts.limits)
  /\ form.step = 4 => ~form.values.autonomousEnabled \/ form.accepted

Continue ==
  /\ OnPage("create") /\ form.step < 5
  /\ CanNext
  /\ EditForm([form EXCEPT !.step = @ + 1])

Back == OnPage("create") /\ form.step \in 1 .. 5 /\ EditForm([form EXCEPT !.step = @ - 1])

(* "This is exactly what will be written to the chain when you sign." *)
Reviewed ==
  [purpose |-> form.purpose, mode |-> form.mode, open |-> form.open, params |-> form.values]

CanCreate ==
  /\ OnStep(5) /\ ParsesUnder(facts.limits)
  /\ NameValid /\ form.purpose # Absent /\ account \in AppAccounts

Create ==
  /\ CanCreate
  /\ Send("create", Reviewed)
  /\ form' = [form EXCEPT !.step = 6]
  /\ UNCHANGED <<account, page, facts, overview, loadError, refreshes>>

BackToReview ==
  /\ OnStep(6) /\ PhaseOf("create") \in {"unsent", "failed", "timeout"}
  /\ sent' = Unmounted
  /\ form' = [form EXCEPT !.step = 5]
  /\ UNCHANGED <<account, page, facts, overview, loadError, refreshes>>
  /\ Calm
=============================================================================
