------------------------- MODULE PipelineProperties -------------------------
(***************************************************************************)
(* What the agent's decision records promise about the chain.              *)
(***************************************************************************)
EXTENDS DecisionPipeline, RecommendationPage

SettledStatuses == {"RECOMMENDED", "TESTNET_BLOCKED", "EXECUTED", "FAILED", "REJECTED"}

Aborted(r) == transaction[r] # Absent /\ transaction[r].status \in Aborts

Executed(r) == transaction[r] # Absent /\ transaction[r].status = "success"

(* Whatever the page reads out of a record, now or after the gate has      *)
(* moved: "executed" only of what was; "could not be evaluated", "rules    *)
(* rejected" and "no transaction was created" only where none was sent     *)
(* (RecommendationView.tsx:216, 226; TestnetGate.tsx:89); a recommendation *)
(* alone executes nothing (:103).                                          *)
PagesReadRight(r) ==
  LET rec == record[r]
      list == Checklist(rec)
  IN
  /\ list.outcome = "executed" => Executed(r)
  /\ \/ list.limits = "could not be evaluated" \/ list.risk # "PASSED"
     \/ list.outcome = "nothing to execute" \/ BlockedOutcome(rec) \/ RulesRejected(rec)
     \/ AttentionItem(rec) # "none"
     \/ HistoryRow(rec) = "not executed - testnet" \/ r \notin ExecuteRequests
     => transaction[r] = Absent
  /\ BlockedOutcome(rec) => list.risk = "PASSED"

(* An outcome in a record is the chain's: CONFIRMED only after the         *)
(* transaction succeeded, a FAILED execution only after it was aborted, and *)
(* nothing claims an execution that was never sent (txMonitor.ts:8-13:     *)
(* "Never guesses a result").                                              *)
RecordsMatchChain ==
  /\ PipelineTypeOK
  /\ \A r \in Requests : record[r] # Absent =>
      /\ record[r].status = "EXECUTED" \/ record[r].execution = "CONFIRMED" => Executed(r)
      /\ record[r].execution = "FAILED" => Aborted(r)
      /\ record[r].execution = "SUBMITTED" => transaction[r] # Absent
      /\ record[r].execution = "NOT_EXECUTED_TESTNET" => transaction[r] = Absent
      /\ PagesReadRight(r)

(* A verdict is final: no later step of the request or of its monitor      *)
(* rewrites a settled status (server.ts:102-104: "it never rewrites a      *)
(* terminal status"; pipeline.ts:145 returns every record not VALIDATED).  *)
SettledStaysSettled ==
  [][\A r \in Requests :
       record[r] # Absent /\ record[r].status \in SettledStatuses =>
         record'[r] # Absent /\ record'[r].status = record[r].status]_pipelineVars

(* Requests that proposed from the same snapshot are executed once between *)
(* them, whatever the order their transactions are mined in                *)
(* (docs/security-model.md:74, the vault's nonce).                         *)
OneExecutionPerNonce ==
  \A r, q \in Requests :
    r # q /\ Executed(r) /\ Executed(q)
    /\ transaction[r].intent.vault = transaction[q].intent.vault
    => transaction[r].intent.nonce # transaction[q].intent.nonce

(* A service configured for testnet sends nothing, even beside a mainnet   *)
(* whose gate is armed (gate.ts:4-14: "Either one saying no stops          *)
(* everything").                                                           *)
TestnetServiceNeverSubmits ==
  \A r \in Requests : ServiceNetwork[r] = "testnet" => transaction[r] = Absent

(* Every request received is answered while calls settle, whatever the     *)
(* chain does between two of its reads.                                    *)
RequestsAnswered ==
  \A r \in Requests : [](InProgress(r) => <>(job[r].at = "answered"))

(* A record that says SUBMITTED is not waited for for ever.                *)
MonitorsEnd == \A r \in Requests : [](monitor[r] = "polling" => <>(monitor[r] = "ended"))

(* Whatever a request starts comes to an end. *)
RequestsEnd == RequestsAnswered /\ MonitorsEnd
=============================================================================
