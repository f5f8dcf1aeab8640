-------------------------- MODULE DecisionPipeline --------------------------
(***************************************************************************)
(* The agent against a moving chain: agent/src/pipeline.ts with the reads  *)
(* of data/protocolState.ts, execution/gate.ts, execution/submitIntent.ts  *)
(* and monitoring/txMonitor.ts.  A request advances from one await to the  *)
(* next; between two awaits the chain and the other requests take any      *)
(* number of steps.  Decision records are updated in memory here; the      *)
(* file they live in is the subject of DecisionLog.                        *)
(***************************************************************************)
EXTENDS DecisionEngine

CONSTANTS
  Requests,          \* HTTP requests the agent serves
  ExecuteRequests,   \* those to /execute; the others are to /recommendation
  PoolsAsked,        \* the vaults and assets a request may name
  ServiceNetwork,    \* ServiceNetwork[r]: config.network of the host that serves r
  ExecutorAddress,   \* EXECUTOR_ADDRESS, or Absent
  ExecutorKey        \* the address of EXECUTOR_PRIVATE_KEY, or Absent

ASSUME PipelineAssumption ==
  /\ ExecuteRequests \subseteq Requests
  /\ PoolsAsked \subseteq [vault: VaultIds, asset: Assets]
  /\ ServiceNetwork \in [Requests -> {"testnet", "mainnet"}]
  /\ ExecutorAddress \in Principals \cup {Absent}
  /\ ExecutorKey \in Principals \cup {Absent}

VARIABLES
  job,           \* job[r]: where request r stands and what it knows
  record,        \* record[r]: the decision record of request r, or Absent
  transaction,   \* transaction[r]: the transaction sent for request r, or Absent
  monitor        \* monitor[r]: what waits for that transaction

agentVars == <<job, record, transaction, monitor>>
pipelineVars == <<vars, agentVars>>

(* The call a request is waiting for, or where it stands without one. *)
Awaits == {"waiting", "height", "paused", "environment", "strategies", "vault", "pool",
           "config", "allocations", "registry", "evaluation", "gate", "broadcast", "reply",
           "answered"}

Intent == [vault: VaultIds, strategy: StrategyIds, asset: Assets, amount: Nat,
           maxSlippageBps: Nat, nonce: Nat, deadline: Nat]

(* seen is a snapshot that fills up; probe is the last strategy asked for, *)
(* again is the second reading of the chain that executing does.           *)
Job == [at: Awaits, again: BOOLEAN, probe: Nat,
        seen: [height: Nat, protocolPaused: BOOLEAN, executionEnabled: BOOLEAN,
               strategies: [StrategyIds -> Strategy \cup {Absent}],
               vault: VaultIds \cup {Absent}, asset: Assets \cup {Absent},
               owner: Principals \cup {Absent}, supportsAsset: BOOLEAN, paused: BOOLEAN,
               idle: Nat, total: Nat, config: VaultConfig \cup {Absent},
               allocations: [StrategyIds -> Nat]],
        intent: Intent \cup {Absent}, sender: Principals \cup {Absent}]

Record == [status: {"RECOMMENDED", "VALIDATING", "VALIDATED", "TESTNET_BLOCKED", "EXECUTED",
                    "FAILED", "REJECTED"},
           execution: {"NOT_APPLICABLE", "NOT_EXECUTED_TESTNET", "NOT_SUBMITTED", "SUBMITTED",
                       "CONFIRMED", "FAILED"},
           validation: {"none", "PASSED", "FAILED", "UNAVAILABLE"}]

Transaction == [intent: Intent, contract: StrategyContracts,
                status: {"pending", "success", "abort_by_response", "abort_by_post_condition",
                         "dropped"}]

ASSUME EntryAssumption == Absent \notin Record /\ Absent \notin Transaction

PipelineTypeOK ==
  /\ job \in [Requests -> Job]
  /\ record \in [Requests -> Record \cup {Absent}]
  /\ transaction \in [Requests -> Transaction \cup {Absent}]
  /\ monitor \in [Requests -> {"none", "polling", "ended"}]

NothingSeen(v, a) ==
  [height |-> 0, protocolPaused |-> FALSE, executionEnabled |-> FALSE,
   strategies |-> [s \in StrategyIds |-> Absent], vault |-> v, asset |-> a,
   owner |-> Absent, supportsAsset |-> FALSE, paused |-> FALSE,
   idle |-> 0, total |-> 0, config |-> Absent, allocations |-> [s \in StrategyIds |-> 0]]

JobAt(at, v, a) ==
  [at |-> at, again |-> FALSE, probe |-> 0, seen |-> NothingSeen(v, a),
   intent |-> Absent, sender |-> Absent]

Answered == JobAt("answered", Absent, Absent)

AgentInit ==
  /\ job = [r \in Requests |-> JobAt("waiting", Absent, Absent)]
  /\ record = [r \in Requests |-> Absent]
  /\ transaction = [r \in Requests |-> Absent]
  /\ monitor = [r \in Requests |-> "none"]

Answer(r) == job' = [job EXCEPT ![r] = Answered]

(* recordDecision. *)
Open(r, status, execution) ==
  record' = [record EXCEPT ![r] = [status |-> status, execution |-> execution,
                                   validation |-> "none"]]

(* updateDecision. *)
Note(r, status, execution) ==
  record' = [record EXCEPT ![r].status = status, ![r].execution = execution]

NoteStatus(r, status) == record' = [record EXCEPT ![r].status = status]

-----------------------------------------------------------------------------
(* getProtocolContext, then getVaultSnapshot: one read-only call an await. *)

Read(r, here, next, seen) ==
  /\ job[r].at = here
  /\ job' = [job EXCEPT ![r].at = next, ![r].seen = seen]
  /\ UNCHANGED <<record, transaction, monitor>>

Receive(r) ==
  /\ job[r].at = "waiting"
  /\ \E pool \in PoolsAsked : job' = [job EXCEPT ![r] = JobAt("height", pool.vault, pool.asset)]
  /\ UNCHANGED <<record, transaction, monitor>>

ReadHeight(r) == Read(r, "height", "paused", [job[r].seen EXCEPT !.height = height])

ReadPaused(r) ==
  Read(r, "paused", "environment", [job[r].seen EXCEPT !.protocolPaused = protocolPaused])

ReadEnvironment(r) ==
  Read(r, "environment", "strategies",
       [job[r].seen EXCEPT !.executionEnabled = IsStrategyExecutionEnabled])

IsProbed(s) == s <= MaxStrategyProbe /\ s \in StrategyIds /\ strategies[s] # Absent

(* Fault: the loop asks for the same id again. *)
ReadSameStrategy(r) ==
  LET s == job[r].probe + 1 IN
  /\ job[r].at = "strategies"
  /\ IsProbed(s)
  /\ job' = [job EXCEPT ![r].seen.strategies[s] = IF strategies[s].active
                                                  THEN strategies[s] ELSE Absent]
  /\ UNCHANGED <<record, transaction, monitor>>

ReadStrategy(r) ==
  LET s == job[r].probe + 1 IN
  /\ job[r].at = "strategies"
  /\ IsProbed(s)
  /\ job' = [job EXCEPT ![r].probe = s,
                        ![r].seen.strategies[s] = IF strategies[s].active
                                                  THEN strategies[s] ELSE Absent]
  /\ UNCHANGED <<record, transaction, monitor>>

EndStrategies(r) ==
  /\ job[r].at = "strategies"
  /\ ~IsProbed(job[r].probe + 1)
  /\ job' = [job EXCEPT ![r].at = "vault", ![r].probe = 0]
  /\ UNCHANGED <<record, transaction, monitor>>

ReadVault(r) ==
  LET v == job[r].seen.vault IN
  /\ job[r].at = "vault"
  /\ vaults[v] # Absent
  /\ job' = [job EXCEPT ![r].at = "pool", ![r].seen.owner = vaults[v].owner,
                        ![r].seen.paused = vaults[v].paused,
                        ![r].seen.supportsAsset = SupportsAsset(v, job[r].seen.asset)]
  /\ UNCHANGED <<record, transaction, monitor>>

ReadPool(r) ==
  LET v == job[r].seen.vault
      a == job[r].seen.asset
  IN
  /\ job[r].at = "pool"
  /\ job' = [job EXCEPT ![r].at = "config", ![r].seen.idle = idleBalances[v][a],
                        ![r].seen.total = totalBalances[v][a]]
  /\ UNCHANGED <<record, transaction, monitor>>

ReadConfig(r) ==
  LET seen == job[r].seen IN
  /\ job[r].at = "config"
  /\ vaultConfig[seen.vault] # Absent
  /\ Read(r, "config", "allocations", [seen EXCEPT !.config = vaultConfig[seen.vault]])

(* The active strategies of the asset, in the order of their ids. *)
Unread(r) == {s \in AssetStrategies(job[r].seen) : s > job[r].probe}

ReadAllocation(r) ==
  \E s \in Unread(r) :
    /\ job[r].at = "allocations"
    /\ \A other \in Unread(r) : s <= other
    /\ job' = [job EXCEPT ![r].probe = s,
                          ![r].seen.allocations[s] =
                            strategyAllocations[job[r].seen.vault][s][job[r].seen.asset]]
    /\ UNCHANGED <<record, transaction, monitor>>

SnapshotTaken(r) == job[r].at = "allocations" /\ Unread(r) = {}

-----------------------------------------------------------------------------
(* runRecommendation: the record is written before the contracts are asked. *)

(* The identity of autonomous submissions: the address given, else that of the key. *)
SubmittingIdentity == IF ExecutorAddress # Absent THEN ExecutorAddress ELSE ExecutorKey

Recommend(r) ==
  /\ SnapshotTaken(r) /\ ~job[r].again
  /\ Decision(job[r].seen) # "REBALANCE"
  /\ Open(r, "RECOMMENDED", "NOT_APPLICABLE")
  /\ Answer(r)
  /\ UNCHANGED <<transaction, monitor>>

Propose(r) ==
  LET seen == job[r].seen
      asExecutor == seen.config.params.autonomousEnabled /\ SubmittingIdentity # Absent
  IN
  /\ SnapshotTaken(r) /\ ~job[r].again
  /\ Decision(seen) = "REBALANCE"
  /\ Open(r, "VALIDATING", "NOT_SUBMITTED")
  /\ job' = [job EXCEPT ![r].at = IF asExecutor THEN "registry" ELSE "evaluation",
                        ![r].probe = 0, ![r].intent = BuildIntent(seen),
                        ![r].sender = seen.owner]
  /\ UNCHANGED <<transaction, monitor>>

ReadRegistry(r) ==
  /\ job[r].at = "registry"
  /\ job' = [job EXCEPT ![r].at = "evaluation",
                        ![r].sender = IF IsAuthorizedExecutor(SubmittingIdentity)
                                      THEN SubmittingIdentity ELSE @]
  /\ UNCHANGED <<record, transaction, monitor>>

(* Fault: the service's own network is not looked at. *)
BlockedByChain(r, enabled) == ~enabled

ExecutionBlocked(r, enabled) == ServiceNetwork[r] # "mainnet" \/ ~enabled

(* Fault: executeValidatedIntent goes on with any record that has an intent. *)
ExecutesAnything(r, status) == r \in ExecuteRequests

Executes(r, status) == r \in ExecuteRequests /\ status = "VALIDATED"

(* The record has its verdict; executeValidatedIntent starts to read again. *)
Conclude(r, validation, status, execution) ==
  /\ record' = [record EXCEPT ![r] = [status |-> status, execution |-> execution,
                                      validation |-> validation]]
  /\ IF Executes(r, status)
     THEN job' = [job EXCEPT ![r].at = "height", ![r].again = TRUE,
                             ![r].seen = NothingSeen(@.vault, @.asset)]
     ELSE Answer(r)
  /\ UNCHANGED <<transaction, monitor>>

EvaluationPasses(r) ==
  /\ job[r].at = "evaluation"
  /\ Evaluate(job[r].sender, job[r].intent)
  /\ IF ExecutionBlocked(r, job[r].seen.executionEnabled)
     THEN Conclude(r, "PASSED", "TESTNET_BLOCKED", "NOT_EXECUTED_TESTNET")
     ELSE Conclude(r, "PASSED", "VALIDATED", "NOT_SUBMITTED")

EvaluationFails(r) ==
  /\ job[r].at = "evaluation"
  /\ ~Evaluate(job[r].sender, job[r].intent)
  /\ Conclude(r, "FAILED", "REJECTED", "NOT_SUBMITTED")

(* Fault: only a rule that fails stops an intent. *)
UnavailableCountsAsPassed(r) ==
  /\ job[r].at = "evaluation"
  /\ Conclude(r, "UNAVAILABLE", "VALIDATED", "NOT_SUBMITTED")

EvaluationUnavailable(r) ==
  /\ job[r].at = "evaluation"
  /\ Conclude(r, "UNAVAILABLE", "RECOMMENDED", "NOT_SUBMITTED")

-----------------------------------------------------------------------------
(* executeValidatedIntent and submitRebalanceIntent. *)

MayExecute(r) ==
  /\ job[r].seen.config.params.autonomousEnabled
  /\ ExecutorKey # Absent
  /\ job[r].intent.strategy \in AssetStrategies(job[r].seen)

Recheck(r) ==
  /\ SnapshotTaken(r) /\ job[r].again
  /\ IF MayExecute(r)
     THEN /\ job' = [job EXCEPT ![r].at = "gate", ![r].probe = 0]
          /\ UNCHANGED record
     ELSE /\ NoteStatus(r, "REJECTED")
          /\ Answer(r)
  /\ UNCHANGED <<transaction, monitor>>

ReadGate(r) ==
  /\ job[r].at = "gate"
  /\ IF ExecutionBlocked(r, IsStrategyExecutionEnabled)
     THEN /\ Note(r, "TESTNET_BLOCKED", "NOT_EXECUTED_TESTNET")
          /\ Answer(r)
     ELSE /\ job' = [job EXCEPT ![r].at = "broadcast"]
          /\ UNCHANGED record
  /\ UNCHANGED <<transaction, monitor>>

(* The node takes the transaction; its reply is still on the way. *)
Broadcast(r) ==
  /\ job[r].at = "broadcast"
  /\ transaction' =
       [transaction EXCEPT ![r] =
          [intent |-> job[r].intent,
           contract |-> job[r].seen.strategies[job[r].intent.strategy].contract,
           status |-> "pending"]]
  /\ job' = [job EXCEPT ![r].at = "reply"]
  /\ UNCHANGED <<record, monitor>>

ReceiveTxId(r) ==
  /\ job[r].at = "reply"
  /\ record' = [record EXCEPT ![r].execution = "SUBMITTED"]
  /\ monitor' = [monitor EXCEPT ![r] = "polling"]
  /\ Answer(r)
  /\ UNCHANGED transaction

(* The gate read failed, or the node refused the transaction, or no reply came. *)
SubmissionThrows(r) ==
  /\ job[r].at \in {"gate", "broadcast", "reply"}
  /\ NoteStatus(r, "FAILED")
  /\ Answer(r)
  /\ UNCHANGED <<transaction, monitor>>

(* Any other call throws: the handler answers 502 and the record stays. *)
ReadThrows(r) ==
  /\ job[r].at \in {"height", "paused", "environment", "strategies", "vault", "pool",
                    "config", "allocations", "registry"}
  /\ ~SnapshotTaken(r)
  /\ Answer(r)
  /\ UNCHANGED <<record, transaction, monitor>>

(* A vault that is not there ends the request, the first time with an error. *)
VaultMissing(r) ==
  /\ job[r].at = "vault"
  /\ vaults[job[r].seen.vault] = Absent
  /\ IF job[r].again THEN NoteStatus(r, "REJECTED") ELSE UNCHANGED record
  /\ Answer(r)
  /\ UNCHANGED <<transaction, monitor>>

-----------------------------------------------------------------------------
(* waitForConfirmation, and what happens to the transaction meanwhile. *)

Aborts == {"abort_by_response", "abort_by_post_condition"}

PollSettles(r) ==
  /\ monitor[r] = "polling"
  /\ \/ /\ transaction[r].status = "success"
        /\ Note(r, "EXECUTED", "CONFIRMED")
     \/ /\ transaction[r].status \in Aborts
        /\ Note(r, "FAILED", "FAILED")
  /\ monitor' = [monitor EXCEPT ![r] = "ended"]
  /\ UNCHANGED <<job, transaction>>

(* Fault: the time limit counts as a failure. *)
TimesOutFailed(r) ==
  /\ monitor[r] = "polling"
  /\ Note(r, "FAILED", "FAILED")
  /\ monitor' = [monitor EXCEPT ![r] = "ended"]
  /\ UNCHANGED <<job, transaction>>

(* Fault: the loop runs on while the transaction is neither mined nor pending. *)
TimesOutPending(r) ==
  /\ monitor[r] = "polling"
  /\ transaction[r].status # "dropped"
  /\ Note(r, "VALIDATED", "SUBMITTED")
  /\ monitor' = [monitor EXCEPT ![r] = "ended"]
  /\ UNCHANGED <<job, transaction>>

TimesOut(r) ==
  /\ monitor[r] = "polling"
  /\ Note(r, "VALIDATED", "SUBMITTED")
  /\ monitor' = [monitor EXCEPT ![r] = "ended"]
  /\ UNCHANGED <<job, transaction>>

(* A poll throws; nothing catches it. *)
PollThrows(r) ==
  /\ monitor[r] = "polling"
  /\ monitor' = [monitor EXCEPT ![r] = "ended"]
  /\ UNCHANGED <<job, record, transaction>>

InProgress(r) == job[r].at \notin {"waiting", "answered"}

(* The process ends, by an unhandled rejection or a restart: what it was   *)
(* doing is lost, what the records say stays.                              *)
ServiceStops ==
  /\ \E r \in Requests : InProgress(r) \/ monitor[r] = "polling"
  /\ job' = [r \in Requests |-> IF InProgress(r) THEN Answered ELSE job[r]]
  /\ monitor' = [r \in Requests |-> IF monitor[r] = "polling" THEN "ended" ELSE monitor[r]]
  /\ UNCHANGED <<record, transaction>>

EndTransaction(r, status) ==
  /\ transaction[r] # Absent
  /\ transaction[r].status = "pending"
  /\ transaction' = [transaction EXCEPT ![r].status = status]
  /\ UNCHANGED <<job, record, monitor>>

(* Signed with the executor's key.  In deny mode without post-conditions   *)
(* no token may move, so a strategy that pulls aborts it.                  *)
MineSuccess(r) ==
  /\ EndTransaction(r, "success")
  /\ LET intent == transaction[r].intent IN
     \E t \in TokensOf(intent.asset) :
       SubmitRebalanceIntent(ExecutorKey, intent, transaction[r].contract, t, FALSE)
  /\ UNCHANGED <<height, adminVars, executors, strategyVars, receiptVars>>

(* Mined, but a rule or the strategy refuses it or a token would move; or never mined. *)
MineNothing(r) ==
  /\ \E status \in Aborts \cup {"dropped"} : EndTransaction(r, status)
  /\ UNCHANGED vars

-----------------------------------------------------------------------------

(* What the request goes on to do once the call it waits for has returned. *)
Progress(r) ==
  \/ Receive(r) \/ ReadHeight(r) \/ ReadPaused(r) \/ ReadEnvironment(r)
  \/ ReadStrategy(r) \/ EndStrategies(r) \/ ReadVault(r) \/ VaultMissing(r) \/ ReadPool(r)
  \/ ReadConfig(r) \/ ReadAllocation(r)
  \/ Recommend(r) \/ Propose(r) \/ ReadRegistry(r)
  \/ EvaluationPasses(r) \/ EvaluationFails(r)
  \/ Recheck(r) \/ ReadGate(r) \/ Broadcast(r) \/ ReceiveTxId(r)

(* The monitor has its answer, or none within its time limit. *)
MonitorReturns(r) == PollSettles(r) \/ TimesOut(r)

Throws(r) ==
  \/ EvaluationUnavailable(r) \/ SubmissionThrows(r) \/ ReadThrows(r) \/ PollThrows(r)

AgentStep ==
  /\ \/ \E r \in Requests : Progress(r) \/ MonitorReturns(r) \/ Throws(r)
     \/ ServiceStops
  /\ UNCHANGED vars

Mining == \E r \in Requests : MineSuccess(r) \/ MineNothing(r)

ChainStep == Next /\ UNCHANGED agentVars

PipelineNext == AgentStep \/ Mining \/ ChainStep

(* Every call the agent awaits settles, and a monitor stops at its limit.  *)
(* Nothing is assumed of the chain.                                        *)
PipelineFairness ==
  \A r \in Requests : /\ WF_pipelineVars(Progress(r) /\ UNCHANGED vars)
                     /\ WF_pipelineVars(MonitorReturns(r) /\ UNCHANGED vars)

PipelineInit == Init /\ AgentInit

PipelineSpec == PipelineInit /\ [][PipelineNext]_pipelineVars /\ PipelineFairness
=============================================================================
