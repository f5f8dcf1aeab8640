--------------------------- MODULE PipelineProofs ---------------------------
(***************************************************************************)
(* Proofs about the agent against a moving chain, for every number of      *)
(* requests and every order of their steps, the chain's and the miners'.   *)
(* The invariant says of each request by itself what it knows, and what    *)
(* its record, its transaction and its monitor can be at that point; of    *)
(* all of them, that a nonce that was executed is no longer unused.        *)
(* At the end, that every step of a request brings it nearer to its end.   *)
(***************************************************************************)
EXTENDS PipelineProperties, AdviceProofs

Reads == {"height", "paused", "environment", "strategies", "vault", "pool", "config",
          "allocations"}

Sending == {"gate", "broadcast", "reply"}

Seen == [height: Nat, protocolPaused: BOOLEAN, executionEnabled: BOOLEAN,
         strategies: [StrategyIds -> Strategy \cup {Absent}],
         vault: VaultIds \cup {Absent}, asset: Assets \cup {Absent},
         owner: Principals \cup {Absent}, supportsAsset: BOOLEAN, paused: BOOLEAN,
         idle: Nat, total: Nat, config: VaultConfig \cup {Absent},
         allocations: [StrategyIds -> Nat]]

(* What a request has read by the time it waits for the next answer. *)
Knows(j) ==
  /\ j \in Job
  /\ j.at \notin {"waiting", "answered"} => j.seen.vault \in VaultIds /\ j.seen.asset \in Assets
  /\ j.at \in {"pool", "config", "allocations"} => j.seen.owner \in Principals
  /\ j.at = "allocations" => j.seen.config \in VaultConfig
  /\ j.at \in {"registry", "evaluation"} \cup Sending \/ j.again => j.intent \in Intent
  /\ j.at \in {"gate", "broadcast"} => j.intent.strategy \in AssetStrategies(j.seen)

Entry(status, execution, validation) ==
  [status |-> status, execution |-> execution, validation |-> validation]

Validated == Entry("VALIDATED", "NOT_SUBMITTED", "PASSED")

(* The records there can be, beside what became of the transaction. *)
Outcome(r, e, t) ==
  \/ e = Absent /\ t = Absent
  \/ /\ e \in {Entry("RECOMMENDED", "NOT_APPLICABLE", "none"),
               Entry("VALIDATING", "NOT_SUBMITTED", "none"),
               Entry("RECOMMENDED", "NOT_SUBMITTED", "UNAVAILABLE"),
               Entry("REJECTED", "NOT_SUBMITTED", "FAILED"),
               Entry("REJECTED", "NOT_SUBMITTED", "PASSED"),
               Entry("TESTNET_BLOCKED", "NOT_EXECUTED_TESTNET", "PASSED")}
     /\ t = Absent
  \/ /\ e \in {Validated, Entry("FAILED", "NOT_SUBMITTED", "PASSED")}
     /\ t # Absent => r \in ExecuteRequests
  \/ /\ e = Entry("VALIDATED", "SUBMITTED", "PASSED")
     /\ t # Absent /\ r \in ExecuteRequests
  \/ /\ e = Entry("EXECUTED", "CONFIRMED", "PASSED")
     /\ t # Absent /\ t.status = "success" /\ r \in ExecuteRequests
  \/ /\ e = Entry("FAILED", "FAILED", "PASSED")
     /\ t # Absent /\ t.status \in Aborts /\ r \in ExecuteRequests

(* What the record, the transaction and the monitor are at that point. *)
Agrees(r, j, e, t, m) ==
  /\ j.at = "waiting" \/ (j.at \in Reads /\ ~j.again) =>
       e = Absent /\ t = Absent /\ m = "none"
  /\ j.at \in {"registry", "evaluation"} =>
       e = Entry("VALIDATING", "NOT_SUBMITTED", "none") /\ t = Absent /\ m = "none"
  /\ (j.at \in Reads /\ j.again) \/ j.at \in Sending =>
       /\ e = Validated /\ m = "none" /\ r \in ExecuteRequests
       /\ t = Absent <=> j.at # "reply"
  /\ j.at \in {"broadcast", "reply"} \/ t # Absent => ServiceNetwork[r] = "mainnet"
  /\ m = "polling" => e = Entry("VALIDATED", "SUBMITTED", "PASSED")
  /\ Outcome(r, e, t)

RequestOK(r, j, e, t, m) ==
  /\ Knows(j)
  /\ e \in Record \cup {Absent}
  /\ t \in Transaction \cup {Absent}
  /\ m \in {"none", "polling", "ended"}
  /\ Agrees(r, j, e, t, m)

RequestsOK ==
  /\ PipelineTypeOK
  /\ \A r \in Requests : RequestOK(r, job[r], record[r], transaction[r], monitor[r])

(* One request moves, the others stay where they are. *)
Moves(r, j, e, t, m) ==
  /\ job' = [job EXCEPT ![r] = j]
  /\ record' = [record EXCEPT ![r] = e]
  /\ transaction' = [transaction EXCEPT ![r] = t]
  /\ monitor' = [monitor EXCEPT ![r] = m]

LEMMA MoveKeepsOthers ==
  ASSUME RequestsOK, NEW r \in Requests, NEW j, NEW e, NEW t, NEW m,
         Moves(r, j, e, t, m), RequestOK(r, j, e, t, m)
  PROVE  RequestsOK'
<1>1. j \in Job
  BY DEF RequestOK, Knows
<1>2. PipelineTypeOK'
  BY <1>1 DEF RequestsOK, PipelineTypeOK, RequestOK, Moves
<1>3. /\ job'[r] = j /\ record'[r] = e /\ transaction'[r] = t /\ monitor'[r] = m
      /\ \A q \in Requests \ {r} :
           /\ job'[q] = job[q] /\ record'[q] = record[q]
           /\ transaction'[q] = transaction[q] /\ monitor'[q] = monitor[q]
  BY DEF RequestsOK, PipelineTypeOK, Moves
<1>4. ASSUME NEW q \in Requests
      PROVE  RequestOK(q, job'[q], record'[q], transaction'[q], monitor'[q])
  BY <1>3 DEF RequestsOK
<1>5. QED
  BY <1>2, <1>4 DEF RequestsOK

(* Where only the job changes. *)
LEMMA JobMoves ==
  ASSUME RequestsOK, NEW r \in Requests, NEW j, RequestOK(r, j, record[r], transaction[r], monitor[r]),
         job' = [job EXCEPT ![r] = j], UNCHANGED <<record, transaction, monitor>>
  PROVE  RequestsOK'
<1>1. Moves(r, j, record[r], transaction[r], monitor[r])
  BY DEF RequestsOK, PipelineTypeOK, Moves
<1>2. QED
  BY <1>1, MoveKeepsOthers

(* The next call of the same reading. *)
LEMMA ReadOn ==
  ASSUME RequestsOK, NEW r \in Requests, NEW j, Knows(j),
         job[r].at \in Reads, j.at \in Reads, j.again = job[r].again
  PROVE  RequestOK(r, j, record[r], transaction[r], monitor[r])
<1>1. RequestOK(r, job[r], record[r], transaction[r], monitor[r])
  BY DEF RequestsOK
<1>2. Agrees(r, j, record[r], transaction[r], monitor[r])
  BY <1>1 DEF RequestOK, Agrees, Reads, Sending
<1>3. QED
  BY <1>1, <1>2 DEF RequestOK

(* A request that ends leaves its record, its transaction and its monitor. *)
LEMMA AnsweredOK ==
  ASSUME NEW r, NEW e, NEW t, NEW m,
         e \in Record \cup {Absent}, t \in Transaction \cup {Absent},
         m \in {"none", "polling", "ended"},
         t # Absent => ServiceNetwork[r] = "mainnet",
         m = "polling" => e = Entry("VALIDATED", "SUBMITTED", "PASSED"),
         Outcome(r, e, t)
  PROVE  RequestOK(r, Answered, e, t, m)
<1>1. Answered.at = "answered" /\ Answered.again = FALSE
  BY DEF Answered, JobAt
<1>2. Answered \in Job
  <2>1. NothingSeen(Absent, Absent) \in Seen
    BY DEF NothingSeen, Seen
  <2>2. QED
    BY <2>1 DEF Answered, JobAt, Job, Awaits, Seen
<1>3. Knows(Answered)
  BY <1>1, <1>2 DEF Knows, Sending
<1>4. Agrees(r, Answered, e, t, m)
  BY <1>1 DEF Agrees, Reads, Sending
<1>5. QED
  BY <1>3, <1>4 DEF RequestOK

LEMMA AnswerMoves ==
  ASSUME RequestsOK, NEW r \in Requests, Answer(r), UNCHANGED <<record, transaction, monitor>>
  PROVE  RequestsOK'
<1>1. RequestOK(r, job[r], record[r], transaction[r], monitor[r])
  BY DEF RequestsOK
<1>2. RequestOK(r, Answered, record[r], transaction[r], monitor[r])
  BY <1>1, AnsweredOK DEF RequestOK, Agrees
<1>3. QED
  BY <1>2, JobMoves DEF Answer

-----------------------------------------------------------------------------
(* The reads. *)

LEMMA ReceiveOK ==
  ASSUME RequestsOK, NEW r \in Requests, Receive(r)
  PROVE  RequestsOK'
<1>1. PICK pool \in PoolsAsked : job' = [job EXCEPT ![r] = JobAt("height", pool.vault, pool.asset)]
  BY DEF Receive
<1> DEFINE j == JobAt("height", pool.vault, pool.asset)
<1>2. pool.vault \in VaultIds /\ pool.asset \in Assets
  BY PipelineAssumption
<1>3. j.at = "height" /\ j.again = FALSE /\ j.seen.vault = pool.vault /\ j.seen.asset = pool.asset
  BY DEF JobAt, NothingSeen
<1>4. j \in Job
  <2>1. NothingSeen(pool.vault, pool.asset) \in Seen
    BY <1>2 DEF NothingSeen, Seen
  <2>2. QED
    BY <2>1 DEF JobAt, Job, Awaits, Seen
<1> HIDE DEF j
<1>5. Knows(j)
  BY <1>2, <1>3, <1>4 DEF Knows, Sending
<1>6. RequestOK(r, job[r], record[r], transaction[r], monitor[r])
  BY DEF RequestsOK
<1>7. RequestOK(r, j, record[r], transaction[r], monitor[r])
  BY <1>3, <1>5, <1>6 DEF RequestOK, Agrees, Reads, Sending, Receive
<1>8. QED
  BY <1>1, <1>7, JobMoves DEF Receive, j

(* The chain answers with what its state is. *)
LEMMA ChainAnswers ==
  ASSUME TypeOK
  PROVE  /\ height \in Nat /\ protocolPaused \in BOOLEAN
         /\ IsStrategyExecutionEnabled \in BOOLEAN
<1>1. IsStrategyExecutionEnabled \in BOOLEAN
  BY Zenon DEF IsStrategyExecutionEnabled
<1>2. QED
  BY <1>1 DEF TypeOK, ChainTypeOK, AdminTypeOK

(* The request as it is when a read of the snapshot returns. *)
LEMMA Reading ==
  ASSUME RequestsOK, NEW r \in Requests
  PROVE  /\ Knows(job[r]) /\ job[r] \in Job /\ job[r].seen \in Seen
         /\ job[r].at \notin {"waiting", "answered"} =>
              job[r].seen.vault \in VaultIds /\ job[r].seen.asset \in Assets
<1>1. Knows(job[r])
  BY DEF RequestsOK, RequestOK
<1>2. QED
  BY <1>1 DEF Knows, Job, Seen

LEMMA JobFilledIn ==
  ASSUME NEW j \in Job, NEW at \in Awaits, NEW probe \in Nat, NEW seen \in Seen
  PROVE  [j EXCEPT !.at = at, !.probe = probe, !.seen = seen] \in Job
<1>1. Job = [at: Awaits, again: BOOLEAN, probe: Nat, seen: Seen,
             intent: Intent \cup {Absent}, sender: Principals \cup {Absent}]
  BY DEF Job, Seen
<1>2. QED
  BY <1>1

(* A read goes on to the next call with more of the snapshot filled in. *)
LEMMA ReadMoves ==
  ASSUME RequestsOK, NEW r \in Requests, NEW at \in Reads, NEW probe \in Nat, NEW seen \in Seen,
         job[r].at \in Reads,
         job' = [job EXCEPT ![r] = [job[r] EXCEPT !.at = at, !.probe = probe, !.seen = seen]],
         UNCHANGED <<record, transaction, monitor>>,
         seen.vault = job[r].seen.vault, seen.asset = job[r].seen.asset,
         at \in {"pool", "config", "allocations"} => seen.owner \in Principals,
         at = "allocations" => seen.config \in VaultConfig
  PROVE  RequestsOK'
<1> DEFINE j == [job[r] EXCEPT !.at = at, !.probe = probe, !.seen = seen]
<1>1. /\ Knows(job[r]) /\ job[r] \in Job
      /\ job[r].seen.vault \in VaultIds /\ job[r].seen.asset \in Assets
  BY Reading DEF Reads
<1>2. /\ j.at = at /\ j.probe = probe /\ j.seen = seen
      /\ j.again = job[r].again /\ j.intent = job[r].intent /\ j.sender = job[r].sender
  BY <1>1 DEF Job
<1>3. j \in Job
  <2>1. at \in Awaits
    BY DEF Awaits, Reads
  <2>2. QED
    BY <1>1, <2>1, JobFilledIn
<1> HIDE DEF j
<1>4. Knows(j)
  BY <1>1, <1>2, <1>3 DEF Knows, Reads, Sending
<1>5. RequestOK(r, j, record[r], transaction[r], monitor[r])
  BY <1>2, <1>4, ReadOn
<1>6. QED
  BY <1>5, JobMoves DEF j

(* A read that fills in one field. *)
LEMMA FieldMoves ==
  ASSUME RequestsOK, NEW r \in Requests, NEW here \in Reads, NEW next \in Reads, NEW seen \in Seen,
         Read(r, here, next, seen),
         seen.vault = job[r].seen.vault, seen.asset = job[r].seen.asset,
         next \in {"pool", "config", "allocations"} => seen.owner \in Principals,
         next = "allocations" => seen.config \in VaultConfig
  PROVE  RequestsOK'
<1>1. job \in [Requests -> Job] /\ job[r] \in Job
  BY DEF RequestsOK, PipelineTypeOK
<1>2. job[r].probe \in Nat
  BY <1>1 DEF Job
<1>3. [job[r] EXCEPT !.at = next, !.seen = seen]
        = [job[r] EXCEPT !.at = next, !.probe = job[r].probe, !.seen = seen]
  BY <1>1 DEF Job
<1>4. job' = [job EXCEPT ![r] = [job[r] EXCEPT !.at = next, !.probe = job[r].probe, !.seen = seen]]
  BY <1>1, <1>3 DEF Read
<1>5. job[r].at \in Reads /\ UNCHANGED <<record, transaction, monitor>>
  BY DEF Read
<1>6. QED
  BY <1>2, <1>4, <1>5, ReadMoves

LEMMA ReadContextMoves ==
  ASSUME RequestsOK, TypeOK, NEW r \in Requests,
         ReadHeight(r) \/ ReadPaused(r) \/ ReadEnvironment(r)
  PROVE  RequestsOK'
<1> DEFINE old == job[r].seen
<1>1. old \in Seen
  BY Reading
<1>2. CASE ReadHeight(r)
  <2> DEFINE new == [old EXCEPT !.height = height]
  <2>1. new \in Seen /\ new.vault = old.vault /\ new.asset = old.asset
    <3> HIDE DEF old
    <3>1. QED
      BY <1>1, ChainAnswers DEF Seen
  <2>2. Read(r, "height", "paused", new)
    BY <1>2 DEF ReadHeight
  <2> HIDE DEF new
  <2>3. QED
    BY <2>1, <2>2, FieldMoves DEF Reads
<1>3. CASE ReadPaused(r)
  <2> DEFINE new == [old EXCEPT !.protocolPaused = protocolPaused]
  <2>1. new \in Seen /\ new.vault = old.vault /\ new.asset = old.asset
    <3> HIDE DEF old
    <3>1. QED
      BY <1>1, ChainAnswers DEF Seen
  <2>2. Read(r, "paused", "environment", new)
    BY <1>3 DEF ReadPaused
  <2> HIDE DEF new
  <2>3. QED
    BY <2>1, <2>2, FieldMoves DEF Reads
<1>4. CASE ReadEnvironment(r)
  <2> DEFINE new == [old EXCEPT !.executionEnabled = IsStrategyExecutionEnabled]
  <2>1. new \in Seen /\ new.vault = old.vault /\ new.asset = old.asset
    <3> HIDE DEF old
    <3>1. QED
      BY <1>1, ChainAnswers DEF Seen
  <2>2. Read(r, "environment", "strategies", new)
    BY <1>4 DEF ReadEnvironment
  <2> HIDE DEF new
  <2>3. QED
    BY <2>1, <2>2, FieldMoves DEF Reads
<1>5. QED
  BY <1>2, <1>3, <1>4

LEMMA ReadConfigMoves ==
  ASSUME RequestsOK, TypeOK, NEW r \in Requests, ReadConfig(r)
  PROVE  RequestsOK'
<1> DEFINE old == job[r].seen
           cfg == vaultConfig[old.vault]
           new == [old EXCEPT !.config = cfg]
<1>1. /\ job[r].at = "config" /\ cfg # Absent
      /\ Read(r, "config", "allocations", new)
  BY DEF ReadConfig
<1>2. old \in Seen /\ old.vault \in VaultIds /\ old.owner \in Principals
  BY <1>1, Reading DEF Knows
<1>3. cfg \in VaultConfig
  <2> HIDE DEF old
  <2>1. QED
    BY <1>1, <1>2 DEF TypeOK, GuardTypeOK
<1>4. /\ new \in Seen /\ new.vault = old.vault /\ new.asset = old.asset
      /\ new.owner = old.owner /\ new.config = cfg
  <2> HIDE DEF old, cfg
  <2>1. QED
    BY <1>2, <1>3 DEF Seen
<1> HIDE DEF new, cfg
<1>5. QED
  BY <1>1, <1>2, <1>3, <1>4, FieldMoves DEF Reads

LEMMA ReadStrategyMoves ==
  ASSUME RequestsOK, TypeOK, NEW r \in Requests, ReadStrategy(r)
  PROVE  RequestsOK'
<1> DEFINE old == job[r].seen
           s == job[r].probe + 1
           entry == IF strategies[s].active THEN strategies[s] ELSE Absent
           new == [old EXCEPT !.strategies[s] = entry]
<1>1. /\ job[r].at = "strategies" /\ s \in StrategyIds /\ strategies[s] # Absent
      /\ job' = [job EXCEPT ![r].probe = s, ![r].seen.strategies[s] = entry]
      /\ UNCHANGED <<record, transaction, monitor>>
  BY DEF ReadStrategy, IsProbed
<1>2. old \in Seen /\ job[r] \in Job /\ job \in [Requests -> Job] /\ s \in Nat
  BY Reading DEF Job, RequestsOK, PipelineTypeOK
<1>3. entry \in Strategy \cup {Absent}
  BY <1>1 DEF TypeOK, StrategyTypeOK
<1> HIDE DEF entry, s
<1>4. new \in Seen /\ new.vault = old.vault /\ new.asset = old.asset
  <2> HIDE DEF old
  <2>1. QED
    BY <1>1, <1>2, <1>3 DEF Seen
<1>5. job' = [job EXCEPT ![r] = [job[r] EXCEPT !.at = "strategies", !.probe = s, !.seen = new]]
  <2>1. [job[r] EXCEPT !.probe = s, !.seen.strategies[s] = entry]
          = [job[r] EXCEPT !.at = "strategies", !.probe = s, !.seen = new]
    BY <1>1, <1>2 DEF Job
  <2>2. QED
    BY <1>1, <1>2, <2>1
<1>6. /\ job[r].at \in Reads /\ "strategies" \in Reads
      /\ UNCHANGED <<record, transaction, monitor>>
  BY <1>1 DEF Reads
<1> HIDE DEF new
<1>7. QED
  BY <1>2, <1>4, <1>5, <1>6, ReadMoves

LEMMA EndStrategiesMoves ==
  ASSUME RequestsOK, NEW r \in Requests, EndStrategies(r)
  PROVE  RequestsOK'
<1>1. job[r].seen \in Seen /\ job[r] \in Job /\ job \in [Requests -> Job]
  BY Reading DEF RequestsOK, PipelineTypeOK
<1>2. [job[r] EXCEPT !.at = "vault", !.probe = 0]
        = [job[r] EXCEPT !.at = "vault", !.probe = 0, !.seen = job[r].seen]
  BY <1>1 DEF Job
<1>3. job' = [job EXCEPT ![r] = [job[r] EXCEPT !.at = "vault", !.probe = 0, !.seen = job[r].seen]]
  BY <1>1, <1>2 DEF EndStrategies
<1>4. QED
  BY <1>1, <1>3, ReadMoves DEF EndStrategies, Reads

LEMMA ReadVaultMoves ==
  ASSUME RequestsOK, TypeOK, NEW r \in Requests, ReadVault(r)
  PROVE  RequestsOK'
<1> DEFINE old == job[r].seen
           v == old.vault
           supports == SupportsAsset(v, old.asset)
           new == [old EXCEPT !.owner = vaults[v].owner, !.paused = vaults[v].paused,
                              !.supportsAsset = supports]
<1>1. /\ job[r].at = "vault" /\ vaults[v] # Absent
      /\ job' = [job EXCEPT ![r].at = "pool", ![r].seen.owner = vaults[v].owner,
                            ![r].seen.paused = vaults[v].paused,
                            ![r].seen.supportsAsset = supports]
      /\ UNCHANGED <<record, transaction, monitor>>
  BY DEF ReadVault
<1>2. /\ old \in Seen /\ job[r] \in Job /\ job \in [Requests -> Job] /\ job[r].probe \in Nat
      /\ v \in VaultIds
  BY <1>1, Reading DEF Job, RequestsOK, PipelineTypeOK
<1>3. vaults[v].owner \in Principals /\ vaults[v].paused \in BOOLEAN
  <2> HIDE DEF v
  <2>1. vaults[v] \in Vault
    BY <1>1, <1>2 DEF TypeOK, VaultTypeOK
  <2>2. QED
    BY <2>1 DEF Vault
<1>4. supports \in BOOLEAN
  BY Zenon DEF SupportsAsset
<1> HIDE DEF supports
<1>5. /\ new \in Seen /\ new.vault = old.vault /\ new.asset = old.asset
      /\ new.owner = vaults[v].owner
  <2> HIDE DEF old, v
  <2>1. QED
    BY <1>2, <1>3, <1>4 DEF Seen
<1>6. job' = [job EXCEPT ![r] = [job[r] EXCEPT !.at = "pool", !.probe = job[r].probe, !.seen = new]]
  <2>1. [job[r] EXCEPT !.at = "pool", !.seen.owner = vaults[v].owner,
                       !.seen.paused = vaults[v].paused, !.seen.supportsAsset = supports]
          = [job[r] EXCEPT !.at = "pool", !.probe = job[r].probe, !.seen = new]
    BY <1>2 DEF Job
  <2>2. QED
    BY <1>1, <1>2, <2>1
<1>7. /\ job[r].at \in Reads /\ "pool" \in Reads
      /\ UNCHANGED <<record, transaction, monitor>>
  BY <1>1 DEF Reads
<1> HIDE DEF new
<1>8. QED
  BY <1>2, <1>3, <1>5, <1>6, <1>7, ReadMoves

LEMMA ReadPoolMoves ==
  ASSUME RequestsOK, TypeOK, NEW r \in Requests, ReadPool(r)
  PROVE  RequestsOK'
<1> DEFINE old == job[r].seen
           v == old.vault
           a == old.asset
           new == [old EXCEPT !.idle = idleBalances[v][a], !.total = totalBalances[v][a]]
<1>1. /\ job[r].at = "pool"
      /\ job' = [job EXCEPT ![r].at = "config", ![r].seen.idle = idleBalances[v][a],
                            ![r].seen.total = totalBalances[v][a]]
      /\ UNCHANGED <<record, transaction, monitor>>
  BY DEF ReadPool
<1>2. /\ old \in Seen /\ job[r] \in Job /\ job \in [Requests -> Job] /\ job[r].probe \in Nat
      /\ v \in VaultIds /\ a \in Assets /\ old.owner \in Principals
  BY <1>1, Reading DEF Job, RequestsOK, PipelineTypeOK, Knows
<1>3. idleBalances[v][a] \in Nat /\ totalBalances[v][a] \in Nat
  <2> HIDE DEF v, a
  <2>1. QED
    BY <1>2 DEF TypeOK, VaultTypeOK
<1>4. /\ new \in Seen /\ new.vault = old.vault /\ new.asset = old.asset
      /\ new.owner = old.owner
  <2> HIDE DEF old, v, a
  <2>1. QED
    BY <1>2, <1>3 DEF Seen
<1>5. job' = [job EXCEPT ![r] = [job[r] EXCEPT !.at = "config", !.probe = job[r].probe, !.seen = new]]
  <2>1. [job[r] EXCEPT !.at = "config", !.seen.idle = idleBalances[v][a],
                       !.seen.total = totalBalances[v][a]]
          = [job[r] EXCEPT !.at = "config", !.probe = job[r].probe, !.seen = new]
    BY <1>2 DEF Job
  <2>2. QED
    BY <1>1, <1>2, <2>1
<1>6. /\ job[r].at \in Reads /\ "config" \in Reads
      /\ UNCHANGED <<record, transaction, monitor>>
  BY <1>1 DEF Reads
<1> HIDE DEF new
<1>7. QED
  BY <1>2, <1>4, <1>5, <1>6, ReadMoves

LEMMA ReadAllocationMoves ==
  ASSUME RequestsOK, TypeOK, NEW r \in Requests, ReadAllocation(r)
  PROVE  RequestsOK'
<1> DEFINE old == job[r].seen
           v == old.vault
           a == old.asset
<1>1. PICK s \in Unread(r) :
        /\ job[r].at = "allocations"
        /\ job' = [job EXCEPT ![r].probe = s,
                              ![r].seen.allocations[s] = strategyAllocations[v][s][a]]
        /\ UNCHANGED <<record, transaction, monitor>>
  BY DEF ReadAllocation
<1> DEFINE n == strategyAllocations[v][s][a]
           new == [old EXCEPT !.allocations[s] = n]
<1>2. /\ old \in Seen /\ job[r] \in Job /\ job \in [Requests -> Job]
      /\ v \in VaultIds /\ a \in Assets
      /\ old.owner \in Principals /\ old.config \in VaultConfig
  BY <1>1, Reading DEF Job, RequestsOK, PipelineTypeOK, Knows
<1>3. s \in StrategyIds /\ s \in Nat
  BY DEF Unread, AssetStrategies, StrategyIds
<1>4. n \in Nat
  <2> HIDE DEF v, a
  <2>1. QED
    BY <1>2, <1>3 DEF TypeOK, VaultTypeOK
<1> HIDE DEF n
<1>5. /\ new \in Seen /\ new.vault = old.vault /\ new.asset = old.asset
      /\ new.owner = old.owner /\ new.config = old.config
  <2> HIDE DEF old
  <2>1. QED
    BY <1>2, <1>3, <1>4 DEF Seen
<1>6. job' = [job EXCEPT ![r] = [job[r] EXCEPT !.at = "allocations", !.probe = s, !.seen = new]]
  <2>1. [job[r] EXCEPT !.probe = s, !.seen.allocations[s] = n]
          = [job[r] EXCEPT !.at = "allocations", !.probe = s, !.seen = new]
    BY <1>1, <1>2 DEF Job
  <2>2. QED
    BY <1>1, <1>2, <2>1 DEF n
<1>7. /\ job[r].at \in Reads /\ "allocations" \in Reads
      /\ UNCHANGED <<record, transaction, monitor>>
  BY <1>1 DEF Reads
<1> HIDE DEF new
<1>8. QED
  BY <1>2, <1>3, <1>5, <1>6, <1>7, ReadMoves

-----------------------------------------------------------------------------
(* The recommendation. *)

(* A request ends with a new entry in its record. *)
LEMMA AnswerWithEntry ==
  ASSUME RequestsOK, NEW r \in Requests, NEW e \in Record,
         Answer(r), record' = [record EXCEPT ![r] = e], UNCHANGED <<transaction, monitor>>,
         monitor[r] # "polling", Outcome(r, e, transaction[r])
  PROVE  RequestsOK'
<1>1. RequestOK(r, job[r], record[r], transaction[r], monitor[r])
  BY DEF RequestsOK
<1>2. RequestOK(r, Answered, e, transaction[r], monitor[r])
  BY <1>1, AnsweredOK DEF RequestOK, Agrees
<1>3. Moves(r, Answered, e, transaction[r], monitor[r])
  BY DEF Moves, Answer, RequestsOK, PipelineTypeOK
<1>4. QED
  BY <1>2, <1>3, MoveKeepsOthers

LEMMA RecommendMoves ==
  ASSUME RequestsOK, NEW r \in Requests, Recommend(r)
  PROVE  RequestsOK'
<1> DEFINE e == Entry("RECOMMENDED", "NOT_APPLICABLE", "none")
<1>1. /\ job[r].at \in Reads /\ ~job[r].again
      /\ Answer(r) /\ UNCHANGED <<transaction, monitor>>
      /\ record' = [record EXCEPT ![r] = e]
  BY DEF Recommend, SnapshotTaken, Reads, Open, Entry
<1>2. Agrees(r, job[r], record[r], transaction[r], monitor[r])
  BY DEF RequestsOK, RequestOK
<1>3. transaction[r] = Absent /\ monitor[r] = "none"
  BY <1>1, <1>2 DEF Agrees
<1>4. Outcome(r, e, transaction[r])
  BY <1>3 DEF Outcome
<1>5. e \in Record
  BY DEF Entry, Record
<1> HIDE DEF e
<1>6. QED
  BY <1>1, <1>3, <1>4, <1>5, AnswerWithEntry

LEMMA SnapshotComplete ==
  ASSUME RequestsOK, NEW r \in Requests, SnapshotTaken(r)
  PROVE  job[r].seen \in Snapshot
<1> DEFINE seen == job[r].seen
<1>1. seen \in Seen
  BY Reading
<1>2. /\ seen.vault \in VaultIds /\ seen.asset \in Assets /\ seen.owner \in Principals
      /\ seen.config \in VaultConfig
  BY Reading DEF SnapshotTaken, Knows
<1> HIDE DEF seen
<1>3. seen \in Snapshot
  BY <1>1, <1>2 DEF Seen, Snapshot
<1>4. QED
  BY <1>3 DEF seen

(* What the engine proposes is an intent. *)
LEMMA ProposalType ==
  ASSUME NEW s \in Snapshot, Decision(s) = "REBALANCE"
  PROVE  BuildIntent(s) \in Intent
<1>1. CanAllocate(s) /\ ~Overexposed(s) /\ ProposedAmount(s) > 0
  BY DEF Decision
<1>2. ProposedAmount(s) \in Nat
  BY <1>1, AmountWithin
<1>3. Destination(s) \in StrategyIds
  BY <1>1, DestinationType DEF CanAllocate
<1>4. /\ s.vault \in VaultIds /\ s.asset \in Assets /\ s.height \in Nat
      /\ s.config \in VaultConfig
  BY DEF Snapshot
<1>5. s.config.params.maxSlippageBps \in Nat /\ s.config.lastUsedNonce + 1 \in Nat
  BY <1>4 DEF VaultConfig, RiskParams
<1>6. s.height + IntentWindow \in Nat
  BY <1>4, WindowAssumption
<1>7. QED
  BY <1>2, <1>3, <1>4, <1>5, <1>6 DEF BuildIntent, Intent

LEMMA ProposeMoves ==
  ASSUME RequestsOK, NEW r \in Requests, Propose(r)
  PROVE  RequestsOK'
<1> DEFINE seen == job[r].seen
           e == Entry("VALIDATING", "NOT_SUBMITTED", "none")
           intent == BuildIntent(seen)
           owner == seen.owner
<1>1. PICK at \in {"registry", "evaluation"} :
        job' = [job EXCEPT ![r].at = at, ![r].probe = 0, ![r].intent = intent,
                           ![r].sender = owner]
  BY DEF Propose
<1>2. /\ job[r].at \in Reads /\ ~job[r].again
      /\ UNCHANGED <<transaction, monitor>>
      /\ record' = [record EXCEPT ![r] = e]
  BY DEF Propose, SnapshotTaken, Reads, Open, Entry
<1>3. intent \in Intent /\ owner \in Principals
  <2>1. seen \in Snapshot
    BY SnapshotComplete DEF Propose
  <2>2. QED
    BY <2>1, ProposalType DEF Propose, Snapshot
<1>4. /\ job[r] \in Job /\ job \in [Requests -> Job]
      /\ job[r].seen.vault \in VaultIds /\ job[r].seen.asset \in Assets
      /\ Agrees(r, job[r], record[r], transaction[r], monitor[r])
      /\ transaction[r] \in Transaction \cup {Absent}
  BY <1>2, Reading DEF RequestsOK, PipelineTypeOK, RequestOK, Reads
<1> HIDE DEF intent, owner, seen
<1> DEFINE j == [job[r] EXCEPT !.at = at, !.probe = 0, !.intent = intent, !.sender = owner]
<1>5. /\ j \in Job /\ j.at = at /\ ~j.again /\ j.intent = intent
      /\ j.seen.vault \in VaultIds /\ j.seen.asset \in Assets
  BY <1>2, <1>3, <1>4 DEF Job, Awaits
<1>6. job' = [job EXCEPT ![r] = j]
  BY <1>1, <1>4
<1>7. transaction[r] = Absent /\ monitor[r] = "none"
  BY <1>2, <1>4 DEF Agrees
<1> HIDE DEF j
<1>8. Knows(j)
  BY <1>3, <1>5 DEF Knows, Sending
<1>9. e \in Record
  BY DEF Entry, Record
<1>10. Outcome(r, e, transaction[r])
  BY <1>7 DEF Outcome
<1>11. RequestOK(r, j, e, transaction[r], monitor[r])
  BY <1>5, <1>7, <1>8, <1>9, <1>10 DEF RequestOK, Agrees, Reads, Sending
<1> HIDE DEF e
<1>12. Moves(r, j, e, transaction[r], monitor[r])
  BY <1>2, <1>6 DEF Moves, RequestsOK, PipelineTypeOK
<1>13. QED
  BY <1>11, <1>12, MoveKeepsOthers

LEMMA ReadRegistryMoves ==
  ASSUME RequestsOK, NEW r \in Requests, ReadRegistry(r)
  PROVE  RequestsOK'
<1>1. PICK sender \in Principals \cup {Absent} :
        job' = [job EXCEPT ![r].at = "evaluation", ![r].sender = sender]
  <2>1. SubmittingIdentity \in Principals \cup {Absent}
    BY PipelineAssumption DEF SubmittingIdentity
  <2>2. job[r].sender \in Principals \cup {Absent} /\ job \in [Requests -> Job]
    BY DEF RequestsOK, PipelineTypeOK, Job
  <2>3. QED
    BY <2>1, <2>2 DEF ReadRegistry
<1>2. /\ job[r].at = "registry" /\ UNCHANGED <<record, transaction, monitor>>
      /\ job[r] \in Job /\ job \in [Requests -> Job] /\ Knows(job[r])
      /\ RequestOK(r, job[r], record[r], transaction[r], monitor[r])
  BY Reading DEF ReadRegistry, RequestsOK, PipelineTypeOK
<1> DEFINE j == [job[r] EXCEPT !.at = "evaluation", !.sender = sender]
<1>3. /\ j \in Job /\ j.at = "evaluation" /\ j.again = job[r].again /\ j.seen = job[r].seen
      /\ j.intent = job[r].intent
  BY <1>2 DEF Job, Awaits
<1>4. job' = [job EXCEPT ![r] = j]
  BY <1>1, <1>2
<1> HIDE DEF j
<1>5. Knows(j)
  BY <1>2, <1>3 DEF Knows, Sending
<1>6. RequestOK(r, j, record[r], transaction[r], monitor[r])
  BY <1>2, <1>3, <1>5 DEF RequestOK, Agrees, Reads, Sending
<1>7. QED
  BY <1>2, <1>4, <1>6, JobMoves

-----------------------------------------------------------------------------
(* The verdict. *)

(* A verdict, when nothing has been sent and only a record that is         *)
(* VALIDATED goes on.                                                      *)
LEMMA ConcludeMoves ==
  ASSUME RequestsOK, NEW r \in Requests, job[r].at = "evaluation",
         NEW status, NEW validation, NEW execution,
         Conclude(r, validation, status, execution),
         \/ status = "VALIDATED" /\ execution = "NOT_SUBMITTED" /\ validation = "PASSED"
         \/ status = "TESTNET_BLOCKED" /\ execution = "NOT_EXECUTED_TESTNET"
            /\ validation = "PASSED"
         \/ status = "REJECTED" /\ execution = "NOT_SUBMITTED" /\ validation = "FAILED"
         \/ status = "RECOMMENDED" /\ execution = "NOT_SUBMITTED"
            /\ validation = "UNAVAILABLE"
  PROVE  RequestsOK'
<1> DEFINE e == Entry(status, execution, validation)
<1>1. /\ Knows(job[r]) /\ job[r] \in Job /\ job \in [Requests -> Job] /\ job[r].seen \in Seen
      /\ job[r].seen.vault \in VaultIds /\ job[r].seen.asset \in Assets
      /\ job[r].intent \in Intent
      /\ RequestOK(r, job[r], record[r], transaction[r], monitor[r])
  BY Reading DEF RequestsOK, PipelineTypeOK, Knows
<1>2. transaction[r] = Absent /\ monitor[r] = "none"
  BY <1>1 DEF RequestOK, Agrees
<1>3. e \in Record
  BY DEF Entry, Record
<1>4. Outcome(r, e, transaction[r])
  BY <1>2 DEF Outcome, Entry, Validated
<1>5. record' = [record EXCEPT ![r] = e] /\ UNCHANGED <<transaction, monitor>>
  BY DEF Conclude, Entry
<1>6. CASE ~Executes(r, status)
  <2>1. Answer(r)
    BY <1>6 DEF Conclude
  <2> HIDE DEF e
  <2>2. QED
    BY <1>2, <1>3, <1>4, <1>5, <2>1, AnswerWithEntry
<1>7. CASE Executes(r, status)
  <2> DEFINE seen == NothingSeen(job[r].seen.vault, job[r].seen.asset)
             j == [job[r] EXCEPT !.at = "height", !.again = TRUE, !.seen = seen]
  <2>1. r \in ExecuteRequests /\ e = Validated
    BY <1>7 DEF Executes, Validated, Entry
  <2>2. job' = [job EXCEPT ![r] = j]
    BY <1>1, <1>7 DEF Conclude
  <2>3. seen \in Seen /\ seen.vault = job[r].seen.vault /\ seen.asset = job[r].seen.asset
    BY <1>1 DEF NothingSeen, Seen
  <2> HIDE DEF seen, e
  <2>4. /\ j \in Job /\ j.at = "height" /\ j.again = TRUE /\ j.seen = seen
        /\ j.intent = job[r].intent
    BY <1>1, <2>3 DEF Job, Seen, Awaits
  <2> HIDE DEF j
  <2>5. Knows(j)
    BY <1>1, <2>3, <2>4 DEF Knows, Sending
  <2>6. RequestOK(r, j, e, transaction[r], monitor[r])
    BY <1>2, <1>3, <1>4, <2>1, <2>4, <2>5 DEF RequestOK, Agrees, Reads, Sending
  <2>7. Moves(r, j, e, transaction[r], monitor[r])
    BY <1>5, <2>2 DEF Moves, RequestsOK, PipelineTypeOK
  <2>8. QED
    BY <2>6, <2>7, MoveKeepsOthers
<1>8. QED
  BY <1>6, <1>7

LEMMA EvaluationMoves ==
  ASSUME RequestsOK, NEW r \in Requests,
         EvaluationPasses(r) \/ EvaluationFails(r) \/ EvaluationUnavailable(r)
  PROVE  RequestsOK'
<1>1. CASE EvaluationPasses(r)
  BY <1>1, ConcludeMoves DEF EvaluationPasses
<1>2. CASE EvaluationFails(r)
  BY <1>2, ConcludeMoves DEF EvaluationFails
<1>3. CASE EvaluationUnavailable(r)
  BY <1>3, ConcludeMoves DEF EvaluationUnavailable
<1>4. QED
  BY <1>1, <1>2, <1>3

-----------------------------------------------------------------------------
(* Execution.  Until its transaction is sent, what executes is a record    *)
(* that is VALIDATED and no transaction.                                   *)

LEMMA Executing ==
  ASSUME RequestsOK, NEW r \in Requests,
         job[r].at \in Sending \/ (job[r].at \in Reads /\ job[r].again)
  PROVE  /\ record[r] = Validated /\ monitor[r] = "none" /\ r \in ExecuteRequests
         /\ transaction[r] = Absent <=> job[r].at # "reply"
         /\ transaction[r] \in Transaction \cup {Absent}
         /\ job[r].at = "reply" => ServiceNetwork[r] = "mainnet"
<1>1. RequestOK(r, job[r], record[r], transaction[r], monitor[r])
  BY DEF RequestsOK
<1>2. QED
  BY <1>1 DEF RequestOK, Agrees

(* It ends without having been sent, and its record says why. *)
LEMMA RefusedMoves ==
  ASSUME RequestsOK, NEW r \in Requests, NEW e,
         e \in {Entry("REJECTED", "NOT_SUBMITTED", "PASSED"),
                Entry("TESTNET_BLOCKED", "NOT_EXECUTED_TESTNET", "PASSED"),
                Entry("FAILED", "NOT_SUBMITTED", "PASSED")},
         job[r].at \in Sending \/ (job[r].at \in Reads /\ job[r].again),
         job[r].at = "reply" => e = Entry("FAILED", "NOT_SUBMITTED", "PASSED"),
         record' = [record EXCEPT ![r] = e], Answer(r), UNCHANGED <<transaction, monitor>>
  PROVE  RequestsOK'
<1>1. e \in Record
  BY DEF Entry, Record
<1>2. Outcome(r, e, transaction[r])
  BY Executing DEF Outcome
<1>3. monitor[r] # "polling"
  BY Executing
<1>4. QED
  BY <1>1, <1>2, <1>3, AnswerWithEntry

(* updateDecision. *)
LEMMA NoteEntry ==
  ASSUME RequestsOK, NEW r \in Requests, record[r] \in Record, NEW status, NEW execution
  PROVE  /\ Note(r, status, execution) =>
              record' = [record EXCEPT ![r] = Entry(status, execution, record[r].validation)]
         /\ NoteStatus(r, status) =>
              record' = [record EXCEPT ![r] =
                           Entry(status, record[r].execution, record[r].validation)]
  BY DEF Note, NoteStatus, Entry, Record, RequestsOK, PipelineTypeOK

LEMMA ValidatedEntry ==
  Validated \in Record /\ Validated.execution = "NOT_SUBMITTED" /\ Validated.validation = "PASSED"
  BY DEF Validated, Entry, Record

LEMMA RecheckMoves ==
  ASSUME RequestsOK, NEW r \in Requests, Recheck(r)
  PROVE  RequestsOK'
<1>a. /\ job[r].at = "allocations" /\ job[r].again
      /\ UNCHANGED <<transaction, monitor>>
  BY DEF Recheck, SnapshotTaken
<1>b. job[r].at \in Reads
  BY <1>a DEF Reads
<1>1. /\ job[r].at = "allocations" /\ job[r].again
      /\ UNCHANGED <<transaction, monitor>>
      /\ record[r] = Validated
  BY <1>a, <1>b, Executing
<1>2. CASE MayExecute(r)
  <2> DEFINE j == [job[r] EXCEPT !.at = "gate", !.probe = 0]
  <2>1. /\ Knows(job[r]) /\ job[r] \in Job /\ job \in [Requests -> Job]
        /\ RequestOK(r, job[r], record[r], transaction[r], monitor[r])
    BY Reading DEF RequestsOK, PipelineTypeOK
  <2>2. job' = [job EXCEPT ![r] = j] /\ UNCHANGED record
    BY <1>2, <2>1 DEF Recheck
  <2>3. /\ j \in Job /\ j.at = "gate" /\ j.again = job[r].again /\ j.seen = job[r].seen
        /\ j.intent = job[r].intent
    BY <2>1 DEF Job, Awaits
  <2>4. job[r].intent.strategy \in AssetStrategies(job[r].seen)
    BY <1>2 DEF MayExecute
  <2> HIDE DEF j
  <2>5. Knows(j)
    BY <1>1, <2>1, <2>3, <2>4 DEF Knows, Sending
  <2>6. RequestOK(r, j, record[r], transaction[r], monitor[r])
    BY <1>1, <2>1, <2>3, <2>5 DEF RequestOK, Agrees, Reads, Sending
  <2>7. QED
    BY <1>1, <2>2, <2>6, JobMoves
<1>3. CASE ~MayExecute(r)
  <2>1. NoteStatus(r, "REJECTED") /\ Answer(r)
    BY <1>3 DEF Recheck
  <2>2. record' = [record EXCEPT ![r] = Entry("REJECTED", "NOT_SUBMITTED", "PASSED")]
    BY <1>1, <2>1, NoteEntry, ValidatedEntry
  <2>3. job[r].at \in Reads /\ job[r].at # "reply"
    BY <1>1 DEF Reads
  <2>4. QED
    BY <1>1, <2>1, <2>2, <2>3, RefusedMoves
<1>4. QED
  BY <1>2, <1>3

LEMMA ReadGateMoves ==
  ASSUME RequestsOK, NEW r \in Requests, ReadGate(r)
  PROVE  RequestsOK'
<1>a. job[r].at = "gate" /\ UNCHANGED <<transaction, monitor>>
  BY DEF ReadGate
<1>b. job[r].at \in Sending
  BY <1>a DEF Sending
<1>1. /\ job[r].at = "gate" /\ UNCHANGED <<transaction, monitor>>
      /\ record[r] = Validated
  BY <1>a, <1>b, Executing
<1>2. CASE ExecutionBlocked(r, IsStrategyExecutionEnabled)
  <2>1. Note(r, "TESTNET_BLOCKED", "NOT_EXECUTED_TESTNET") /\ Answer(r)
    BY <1>2 DEF ReadGate
  <2>2. record' = [record EXCEPT ![r] =
                     Entry("TESTNET_BLOCKED", "NOT_EXECUTED_TESTNET", "PASSED")]
    BY <1>1, <2>1, NoteEntry, ValidatedEntry
  <2>3. job[r].at \in Sending /\ job[r].at # "reply"
    BY <1>1 DEF Sending
  <2>4. QED
    BY <1>1, <2>1, <2>2, <2>3, RefusedMoves
<1>3. CASE ~ExecutionBlocked(r, IsStrategyExecutionEnabled)
  <2> DEFINE j == [job[r] EXCEPT !.at = "broadcast"]
  <2>1. /\ Knows(job[r]) /\ job[r] \in Job /\ job \in [Requests -> Job]
        /\ RequestOK(r, job[r], record[r], transaction[r], monitor[r])
    BY Reading DEF RequestsOK, PipelineTypeOK
  <2>2. job' = [job EXCEPT ![r] = j] /\ UNCHANGED record
    BY <1>3, <2>1 DEF ReadGate
  <2>3. /\ j \in Job /\ j.at = "broadcast" /\ j.again = job[r].again /\ j.seen = job[r].seen
        /\ j.intent = job[r].intent
    BY <2>1 DEF Job, Awaits
  <2>4. ServiceNetwork[r] = "mainnet"
    BY <1>3 DEF ExecutionBlocked
  <2> HIDE DEF j
  <2>5. Knows(j)
    BY <1>1, <2>1, <2>3 DEF Knows, Sending
  <2>6. RequestOK(r, j, record[r], transaction[r], monitor[r])
    BY <1>1, <2>1, <2>3, <2>4, <2>5 DEF RequestOK, Agrees, Reads, Sending
  <2>7. QED
    BY <1>1, <2>2, <2>6, JobMoves
<1>4. QED
  BY <1>2, <1>3

LEMMA BroadcastMoves ==
  ASSUME RequestsOK, NEW r \in Requests, Broadcast(r)
  PROVE  /\ RequestsOK' /\ transaction[r] = Absent
         /\ \E t \in Transaction : /\ t.status = "pending"
                                   /\ transaction' = [transaction EXCEPT ![r] = t]
<1> DEFINE j == [job[r] EXCEPT !.at = "reply"]
           intent == job[r].intent
           seen == job[r].seen
           contract == seen.strategies[intent.strategy].contract
           t == [intent |-> intent, contract |-> contract, status |-> "pending"]
<1>1. /\ job[r].at = "broadcast" /\ UNCHANGED <<record, monitor>>
      /\ transaction' = [transaction EXCEPT ![r] = t]
      /\ job' = [job EXCEPT ![r].at = "reply"]
  BY DEF Broadcast
<1>2. /\ Knows(job[r]) /\ job[r] \in Job /\ job \in [Requests -> Job]
      /\ RequestOK(r, job[r], record[r], transaction[r], monitor[r])
  BY Reading DEF RequestsOK, PipelineTypeOK
<1>3. /\ intent \in Intent /\ intent.strategy \in AssetStrategies(seen)
      /\ seen \in Seen
  BY <1>1, <1>2, Reading DEF Knows, Sending
<1>4. contract \in StrategyContracts
  <2> HIDE DEF seen, intent
  <2>1. seen.strategies[intent.strategy] \in Strategy
    BY <1>3 DEF AssetStrategies, Seen
  <2>2. QED
    BY <2>1 DEF Strategy
<1>5. /\ j \in Job /\ j.at = "reply" /\ j.again = job[r].again /\ j.seen = seen
      /\ j.intent = intent
  BY <1>2 DEF Job, Awaits
<1>6. job' = [job EXCEPT ![r] = j]
  BY <1>1, <1>2
<1> HIDE DEF j, intent, contract, seen
<1>7. t \in Transaction /\ t.status = "pending"
  BY <1>3, <1>4 DEF Transaction
<1> HIDE DEF t
<1>8. Knows(j)
  BY <1>1, <1>2, <1>3, <1>5 DEF Knows, Sending, seen
<1>a. job[r].at \in Sending
  BY <1>1 DEF Sending
<1>9. /\ record[r] = Validated /\ monitor[r] = "none" /\ r \in ExecuteRequests
      /\ transaction[r] = Absent
  BY <1>1, <1>a, Executing
<1>10. Agrees(r, j, record[r], t, monitor[r])
  BY <1>1, <1>2, <1>5, <1>7, <1>9, EntryAssumption
  DEF RequestOK, Agrees, Reads, Sending, Outcome
<1>11. RequestOK(r, j, record[r], t, monitor[r])
  BY <1>2, <1>7, <1>8, <1>10 DEF RequestOK
<1>12. Moves(r, j, record[r], t, monitor[r])
  BY <1>1, <1>6 DEF Moves, RequestsOK, PipelineTypeOK
<1>13. QED
  BY <1>1, <1>7, <1>9, <1>11, <1>12, MoveKeepsOthers

LEMMA ReceiveTxIdMoves ==
  ASSUME RequestsOK, NEW r \in Requests, ReceiveTxId(r)
  PROVE  RequestsOK'
<1> DEFINE e == Entry("VALIDATED", "SUBMITTED", "PASSED")
<1>1. /\ job[r].at = "reply" /\ Answer(r) /\ UNCHANGED transaction
      /\ monitor' = [monitor EXCEPT ![r] = "polling"]
  BY DEF ReceiveTxId
<1>a. job[r].at \in Sending
  BY <1>1 DEF Sending
<1>2. /\ record[r] = Validated /\ r \in ExecuteRequests
      /\ transaction[r] # Absent /\ transaction[r] \in Transaction \cup {Absent}
      /\ ServiceNetwork[r] = "mainnet"
  BY <1>1, <1>a, Executing
<1>3. record' = [record EXCEPT ![r] = e]
  <2>1. [Validated EXCEPT !.execution = "SUBMITTED"] = e
    BY DEF Validated, Entry
  <2>2. record' = [record EXCEPT ![r] = [Validated EXCEPT !.execution = "SUBMITTED"]]
    BY <1>2 DEF ReceiveTxId, RequestsOK, PipelineTypeOK
  <2>3. QED
    BY <2>1, <2>2
<1>4. e \in Record
  BY DEF Entry, Record
<1>5. Outcome(r, e, transaction[r])
  BY <1>2 DEF Outcome
<1>6. RequestOK(r, Answered, e, transaction[r], "polling")
  BY <1>2, <1>4, <1>5, AnsweredOK
<1>7. Moves(r, Answered, e, transaction[r], "polling")
  BY <1>1, <1>3 DEF Moves, Answer, RequestsOK, PipelineTypeOK
<1>8. QED
  BY <1>6, <1>7, MoveKeepsOthers

LEMMA ThrowMoves ==
  ASSUME RequestsOK, NEW r \in Requests,
         SubmissionThrows(r) \/ ReadThrows(r) \/ VaultMissing(r)
  PROVE  RequestsOK'
<1>1. CASE SubmissionThrows(r)
  <2>1. /\ job[r].at \in Sending /\ Answer(r) /\ UNCHANGED <<transaction, monitor>>
        /\ NoteStatus(r, "FAILED")
    BY <1>1 DEF SubmissionThrows, Sending
  <2>2. record[r] = Validated
    BY <2>1, Executing
  <2>3. record' = [record EXCEPT ![r] = Entry("FAILED", "NOT_SUBMITTED", "PASSED")]
    BY <2>1, <2>2, NoteEntry, ValidatedEntry
  <2>4. QED
    BY <2>1, <2>3, RefusedMoves
<1>2. CASE ReadThrows(r)
  BY <1>2, AnswerMoves DEF ReadThrows
<1>3. CASE VaultMissing(r) /\ ~job[r].again
  BY <1>3, AnswerMoves DEF VaultMissing
<1>4. CASE VaultMissing(r) /\ job[r].again
  <2>1. /\ job[r].at \in Reads /\ job[r].at # "reply"
        /\ Answer(r) /\ UNCHANGED <<transaction, monitor>>
        /\ NoteStatus(r, "REJECTED")
    BY <1>4 DEF VaultMissing, Reads
  <2>2. record[r] = Validated
    BY <1>4, <2>1, Executing
  <2>3. record' = [record EXCEPT ![r] = Entry("REJECTED", "NOT_SUBMITTED", "PASSED")]
    BY <2>1, <2>2, NoteEntry, ValidatedEntry
  <2>4. QED
    BY <1>4, <2>1, <2>3, RefusedMoves
<1>5. QED
  BY <1>1, <1>2, <1>3, <1>4

-----------------------------------------------------------------------------
(* The monitor. *)

LEMMA MonitorMoves ==
  ASSUME RequestsOK, NEW r \in Requests, PollSettles(r) \/ TimesOut(r) \/ PollThrows(r)
  PROVE  RequestsOK'
<1> DEFINE submitted == Entry("VALIDATED", "SUBMITTED", "PASSED")
<1>1. /\ RequestOK(r, job[r], record[r], transaction[r], monitor[r])
      /\ monitor[r] = "polling" /\ UNCHANGED <<job, transaction>>
      /\ monitor' = [monitor EXCEPT ![r] = "ended"]
  BY DEF RequestsOK, PollSettles, TimesOut, PollThrows
<1>2. /\ record[r] = submitted
      /\ transaction[r] # Absent /\ r \in ExecuteRequests
  <2>1. record[r] = submitted /\ Outcome(r, record[r], transaction[r])
    BY <1>1 DEF RequestOK, Agrees
  <2>2. record[r] # Absent
    BY <2>1, EntryAssumption DEF Entry, Record
  <2>3. QED
    BY <2>1, <2>2 DEF Outcome, Entry, Validated
<1>3. \A status, execution :
        Note(r, status, execution) =>
          record' = [record EXCEPT ![r] = Entry(status, execution, "PASSED")]
  <2>1. record[r] \in Record /\ record[r].validation = "PASSED"
    BY <1>2 DEF Entry, Record
  <2>2. QED
    BY <2>1, NoteEntry
<1>4. ASSUME NEW e \in Record, Outcome(r, e, transaction[r]),
             record' = [record EXCEPT ![r] = e]
      PROVE  RequestsOK'
  <2>1. RequestOK(r, job[r], e, transaction[r], "ended")
    BY <1>1, <1>4 DEF RequestOK, Agrees
  <2>2. Moves(r, job[r], e, transaction[r], "ended")
    BY <1>1, <1>4 DEF Moves, RequestsOK, PipelineTypeOK
  <2>3. QED
    BY <2>1, <2>2, MoveKeepsOthers
<1>5. /\ submitted \in Record
      /\ Entry("EXECUTED", "CONFIRMED", "PASSED") \in Record
      /\ Entry("FAILED", "FAILED", "PASSED") \in Record
  BY DEF Entry, Record
<1>6. CASE PollThrows(r)
  <2>1. record' = [record EXCEPT ![r] = submitted]
    BY <1>2, <1>6 DEF PollThrows, RequestsOK, PipelineTypeOK
  <2>2. Outcome(r, submitted, transaction[r])
    BY <1>2 DEF Outcome
  <2>3. submitted \in Record
    BY <1>5
  <2> HIDE DEF submitted
  <2>4. QED
    BY <1>4, <2>1, <2>2, <2>3
<1>7. CASE TimesOut(r)
  <2>1. record' = [record EXCEPT ![r] = submitted]
    BY <1>3, <1>7 DEF TimesOut
  <2>2. Outcome(r, submitted, transaction[r])
    BY <1>2 DEF Outcome
  <2>3. submitted \in Record
    BY <1>5
  <2> HIDE DEF submitted
  <2>4. QED
    BY <1>4, <2>1, <2>2, <2>3
<1>8. CASE PollSettles(r) /\ transaction[r].status = "success" /\ Note(r, "EXECUTED", "CONFIRMED")
  <2> DEFINE e == Entry("EXECUTED", "CONFIRMED", "PASSED")
  <2>1. record' = [record EXCEPT ![r] = e]
    BY <1>3, <1>8
  <2>2. Outcome(r, e, transaction[r])
    BY <1>2, <1>8 DEF Outcome
  <2>3. e \in Record
    BY <1>5
  <2> HIDE DEF e
  <2>4. QED
    BY <1>4, <2>1, <2>2, <2>3
<1>9. CASE PollSettles(r) /\ transaction[r].status \in Aborts /\ Note(r, "FAILED", "FAILED")
  <2> DEFINE e == Entry("FAILED", "FAILED", "PASSED")
  <2>1. record' = [record EXCEPT ![r] = e]
    BY <1>3, <1>9
  <2>2. Outcome(r, e, transaction[r])
    BY <1>2, <1>9 DEF Outcome
  <2>3. e \in Record
    BY <1>5
  <2> HIDE DEF e
  <2>4. QED
    BY <1>4, <2>1, <2>2, <2>3
<1>10. QED
  BY <1>6, <1>7, <1>8, <1>9 DEF PollSettles

(* A stop ends every request and every monitor where they are. *)
LEMMA StopMoves ==
  ASSUME RequestsOK, ServiceStops
  PROVE  RequestsOK'
<1>1. UNCHANGED <<record, transaction>>
  BY DEF ServiceStops
<1>2. ASSUME NEW r \in Requests
      PROVE  RequestOK(r, job'[r], record[r], transaction[r], monitor'[r])
  <2>1. RequestOK(r, job[r], record[r], transaction[r], monitor[r])
    BY DEF RequestsOK
  <2>2. monitor'[r] = IF monitor[r] = "polling" THEN "ended" ELSE monitor[r]
    BY DEF ServiceStops
  <2>3. CASE InProgress(r)
    <3>1. job'[r] = Answered
      BY <2>3 DEF ServiceStops
    <3>2. monitor'[r] \in {"none", "ended"}
      BY <2>1, <2>2 DEF RequestOK
    <3>a. /\ record[r] \in Record \cup {Absent} /\ transaction[r] \in Transaction \cup {Absent}
          /\ transaction[r] # Absent => ServiceNetwork[r] = "mainnet"
          /\ Outcome(r, record[r], transaction[r])
      BY <2>1 DEF RequestOK, Agrees
    <3>3. RequestOK(r, Answered, record[r], transaction[r], monitor'[r])
      BY <3>2, <3>a, AnsweredOK
    <3>4. QED
      BY <3>1, <3>3
  <2>4. CASE ~InProgress(r)
    <3>1. job'[r] = job[r] /\ job[r].at \in {"waiting", "answered"}
      BY <2>4 DEF ServiceStops, InProgress
    <3>2. QED
      BY <2>1, <2>2, <3>1 DEF RequestOK, Agrees, Reads, Sending
  <2>5. QED
    BY <2>3, <2>4
<1>3. PipelineTypeOK'
  <2>1. /\ job' = [r \in Requests |-> job'[r]] /\ monitor' = [r \in Requests |-> monitor'[r]]
    BY DEF ServiceStops
  <2>2. \A r \in Requests : job'[r] \in Job /\ monitor'[r] \in {"none", "polling", "ended"}
    BY <1>2 DEF RequestOK, Knows
  <2>3. job' \in [Requests -> Job] /\ monitor' \in [Requests -> {"none", "polling", "ended"}]
    BY <2>1, <2>2
  <2>4. QED
    BY <1>1, <2>3 DEF RequestsOK, PipelineTypeOK
<1>4. QED
  BY <1>1, <1>2, <1>3 DEF RequestsOK

-----------------------------------------------------------------------------
(* The miners. *)

LEMMA EndMoves ==
  ASSUME RequestsOK, NEW r \in Requests,
         NEW status \in Aborts \cup {"success", "dropped"}, EndTransaction(r, status)
  PROVE  /\ RequestsOK'
         /\ transaction[r] \in Transaction /\ transaction[r].status = "pending"
         /\ transaction'[r].status = status
         /\ transaction'[r].intent = transaction[r].intent
         /\ \A q \in Requests \ {r} : transaction'[q] = transaction[q]
<1> DEFINE t == [transaction[r] EXCEPT !.status = status]
<1>1. /\ transaction[r] # Absent /\ transaction[r].status = "pending"
      /\ UNCHANGED <<job, record, monitor>>
      /\ RequestOK(r, job[r], record[r], transaction[r], monitor[r])
      /\ transaction \in [Requests -> Transaction \cup {Absent}]
      /\ transaction' = [transaction EXCEPT ![r] = t]
  BY DEF EndTransaction, RequestsOK, PipelineTypeOK
<1>2. transaction[r] \in Transaction
  BY <1>1
<1>3. /\ t \in Transaction /\ t.status = status /\ t.intent = transaction[r].intent
      /\ transaction'[r] = t
  BY <1>1, <1>2 DEF Transaction, Aborts
<1> HIDE DEF t
<1>4. RequestOK(r, job[r], record[r], t, monitor[r])
  <2>1. Outcome(r, record[r], t)
    BY <1>1, <1>3, EntryAssumption
    DEF RequestOK, Agrees, Outcome, Entry, Validated, Aborts
  <2>2. t # Absent
    BY <1>3, EntryAssumption
  <2>3. QED
    BY <1>1, <1>3, <2>1, <2>2 DEF RequestOK, Agrees
<1>5. Moves(r, job[r], record[r], t, monitor[r])
  BY <1>1 DEF Moves, RequestsOK, PipelineTypeOK
<1>6. RequestsOK'
  BY <1>4, <1>5, MoveKeepsOthers
<1>7. QED
  BY <1>1, <1>2, <1>3, <1>6

-----------------------------------------------------------------------------
(* Every step of the agent, of the miners and of the chain keeps what is   *)
(* known of the requests.                                                  *)

LEMMA AgentStepMoves ==
  ASSUME RequestsOK, TypeOK, AgentStep
  PROVE  RequestsOK'
<1>1. ASSUME NEW r \in Requests, Progress(r)
      PROVE  RequestsOK'
  <2>1. CASE \/ Receive(r) \/ ReadHeight(r) \/ ReadPaused(r) \/ ReadEnvironment(r)
             \/ ReadStrategy(r) \/ EndStrategies(r)
    BY <2>1, ReceiveOK, ReadContextMoves, ReadStrategyMoves, EndStrategiesMoves
  <2>2. CASE ReadVault(r) \/ VaultMissing(r) \/ ReadPool(r) \/ ReadConfig(r) \/ ReadAllocation(r)
    BY <2>2, ReadVaultMoves, ThrowMoves, ReadPoolMoves, ReadConfigMoves, ReadAllocationMoves
  <2>3. CASE \/ Recommend(r) \/ Propose(r) \/ ReadRegistry(r) \/ EvaluationPasses(r)
             \/ EvaluationFails(r)
    BY <2>3, RecommendMoves, ProposeMoves, ReadRegistryMoves, EvaluationMoves
  <2>4. CASE Recheck(r) \/ ReadGate(r) \/ Broadcast(r) \/ ReceiveTxId(r)
    BY <2>4, RecheckMoves, ReadGateMoves, BroadcastMoves, ReceiveTxIdMoves
  <2>5. QED
    BY <1>1, <2>1, <2>2, <2>3, <2>4 DEF Progress
<1>2. ASSUME NEW r \in Requests, MonitorReturns(r) \/ Throws(r)
      PROVE  RequestsOK'
  BY <1>2, MonitorMoves, EvaluationMoves, ThrowMoves DEF MonitorReturns, Throws
<1>3. QED
  BY <1>1, <1>2, StopMoves DEF AgentStep

LEMMA InitRequests == AgentInit => RequestsOK
<1> SUFFICES ASSUME AgentInit
             PROVE  RequestsOK
  OBVIOUS
<1> DEFINE j == JobAt("waiting", Absent, Absent)
<1>1. j \in Job /\ j.at = "waiting" /\ j.again = FALSE
  <2>1. NothingSeen(Absent, Absent) \in Seen
    BY DEF NothingSeen, Seen
  <2>2. QED
    BY <2>1 DEF JobAt, Job, Awaits, Seen
<1>2. job = [r \in Requests |-> j]
  BY DEF AgentInit
<1> HIDE DEF j
<1>3. Knows(j)
  BY <1>1 DEF Knows, Sending
<1>4. \A r \in Requests : RequestOK(r, j, Absent, Absent, "none")
  BY <1>1, <1>3 DEF RequestOK, Agrees, Outcome, Reads, Sending
<1>5. PipelineTypeOK
  BY <1>1, <1>2 DEF AgentInit, PipelineTypeOK
<1>6. QED
  BY <1>2, <1>4, <1>5 DEF AgentInit, RequestsOK

(* Nothing the agent does executes a transaction or alters one that was.   *)
LEMMA AgentExecutesNothing ==
  ASSUME RequestsOK, AgentStep
  PROVE  \A r \in Requests : Executed(r)' => transaction'[r] = transaction[r]
<1>1. CASE \E r \in Requests : Broadcast(r)
  <2>1. PICK r \in Requests : Broadcast(r)
    BY <1>1
  <2>2. PICK t \in Transaction : /\ t.status = "pending"
                                 /\ transaction' = [transaction EXCEPT ![r] = t]
    BY <2>1, BroadcastMoves
  <2>3. transaction \in [Requests -> Transaction \cup {Absent}]
    BY DEF RequestsOK, PipelineTypeOK
  <2>4. transaction'[r] = t /\ \A q \in Requests \ {r} : transaction'[q] = transaction[q]
    BY <2>2, <2>3
  <2>5. QED
    BY <2>2, <2>4 DEF Executed
<1>2. CASE ~ \E r \in Requests : Broadcast(r)
  <2>1. ASSUME NEW r \in Requests, Progress(r)
        PROVE  UNCHANGED transaction
    <3>1. CASE \/ Receive(r) \/ ReadHeight(r) \/ ReadPaused(r) \/ ReadEnvironment(r)
               \/ ReadStrategy(r) \/ EndStrategies(r) \/ ReadVault(r) \/ ReadPool(r)
               \/ ReadConfig(r) \/ ReadAllocation(r)
      BY <3>1 DEF Receive, ReadHeight, ReadPaused, ReadEnvironment, Read, ReadStrategy,
                  EndStrategies, ReadVault, ReadPool, ReadConfig, ReadAllocation
    <3>2. CASE VaultMissing(r) \/ Recommend(r) \/ Propose(r) \/ ReadRegistry(r)
      BY <3>2 DEF VaultMissing, Recommend, Propose, ReadRegistry
    <3>3. CASE EvaluationPasses(r) \/ EvaluationFails(r)
      BY <3>3 DEF EvaluationPasses, EvaluationFails, Conclude
    <3>4. CASE Recheck(r) \/ ReadGate(r) \/ ReceiveTxId(r)
      BY <3>4 DEF Recheck, ReadGate, ReceiveTxId
    <3>5. QED
      BY <1>2, <2>1, <3>1, <3>2, <3>3, <3>4 DEF Progress
  <2>2. ASSUME NEW r \in Requests, MonitorReturns(r) \/ Throws(r)
        PROVE  UNCHANGED transaction
    BY <2>2 DEF MonitorReturns, Throws, EvaluationUnavailable, Conclude, PollSettles, TimesOut,
                SubmissionThrows, ReadThrows, PollThrows
  <2>3. UNCHANGED transaction
    BY <2>1, <2>2 DEF AgentStep, ServiceStops
  <2>4. QED
    BY <2>3
<1>3. QED
  BY <1>1, <1>2

-----------------------------------------------------------------------------
(* Nonces.  What was executed has a nonce the vault will not take again.   *)

NoncesUsed ==
  \A r \in Requests :
    LET intent == transaction[r].intent IN
    Executed(r) => /\ vaultConfig[intent.vault] # Absent
                   /\ intent.nonce <= vaultConfig[intent.vault].lastUsedNonce

(* A vault's configuration stays, and its last nonce only grows.           *)
NoncesGrow ==
  \A v \in VaultIds : vaultConfig[v] # Absent =>
    /\ vaultConfig'[v] # Absent
    /\ vaultConfig'[v].lastUsedNonce >= vaultConfig[v].lastUsedNonce

LEMMA NonceType ==
  ASSUME PoolInv, NEW v \in VaultIds, vaultConfig[v] # Absent
  PROVE  vaultConfig[v].lastUsedNonce \in Nat
<1>1. vaultConfig[v] \in VaultConfig
  BY DEF PoolInv, TypeOK, GuardTypeOK
<1>2. QED
  BY <1>1 DEF VaultConfig

LEMMA UseGrows ==
  ASSUME PoolInv, NEW v \in VaultIds, NEW nonce \in Nat, UsesNonce(v, nonce)
  PROVE  NoncesGrow
<1>1. \A w \in VaultIds : vaultConfig[w] # Absent => vaultConfig[w].lastUsedNonce \in Nat
  BY NonceType
<1>2. QED
  BY <1>1 DEF UsesNonce, NoncesGrow

LEMMA ChainNonces ==
  ASSUME PoolInv, [Next]_vars
  PROVE  NoncesGrow
<1>1. CASE EngineStep
  BY <1>1, EngineStepUsesNonce, UseGrows
<1>2. CASE ~EngineStep
  <2>1. RecordsKept
    BY <1>2, NextIsAny, OnlyEngineDeploys
  <2>2. \A w \in VaultIds : vaultConfig[w] # Absent => vaultConfig[w].lastUsedNonce \in Nat
    BY NonceType
  <2>3. QED
    BY <2>1, <2>2 DEF RecordsKept, SameRecord, NoncesGrow
<1>3. QED
  BY <1>1, <1>2

PipelineInv == PoolInv /\ RequestsOK /\ NoncesUsed /\ OneExecutionPerNonce

LEMMA IntentOf ==
  ASSUME RequestsOK, NEW r \in Requests, Executed(r)
  PROVE  transaction[r].intent \in Intent
<1>1. transaction[r] \in Transaction
  BY DEF Executed, RequestsOK, PipelineTypeOK
<1>2. QED
  BY <1>1 DEF Transaction

(* A step in which nothing is executed. *)
LEMMA NoExecution ==
  ASSUME PipelineInv, PoolInv', NoncesGrow,
         \A r \in Requests : Executed(r)' => transaction'[r] = transaction[r]
  PROVE  NoncesUsed' /\ OneExecutionPerNonce'
<1>1. \A r \in Requests : Executed(r)' => Executed(r) /\ transaction'[r] = transaction[r]
  BY DEF Executed
<1>2. ASSUME NEW r \in Requests, Executed(r)'
      PROVE  /\ vaultConfig'[transaction'[r].intent.vault] # Absent
             /\ transaction'[r].intent.nonce
                  <= vaultConfig'[transaction'[r].intent.vault].lastUsedNonce
  <2> DEFINE intent == transaction[r].intent
             v == intent.vault
  <2>1. Executed(r) /\ transaction'[r] = transaction[r]
    BY <1>1, <1>2
  <2>2. v \in VaultIds /\ intent.nonce \in Nat
    BY <2>1, IntentOf DEF PipelineInv, Intent
  <2>3. vaultConfig[v] # Absent /\ intent.nonce <= vaultConfig[v].lastUsedNonce
    BY <2>1 DEF PipelineInv, NoncesUsed
  <2> HIDE DEF intent, v
  <2>4. vaultConfig'[v] # Absent /\ vaultConfig'[v].lastUsedNonce >= vaultConfig[v].lastUsedNonce
    BY <2>2, <2>3 DEF NoncesGrow
  <2>5. vaultConfig[v].lastUsedNonce \in Nat /\ vaultConfig'[v].lastUsedNonce \in Nat
    <3>1. vaultConfig'[v] \in VaultConfig
      BY <2>2, <2>4 DEF PoolInv, TypeOK, GuardTypeOK
    <3>2. QED
      BY <2>2, <2>3, <3>1, NonceType DEF PipelineInv, VaultConfig
  <2>6. intent.nonce <= vaultConfig'[v].lastUsedNonce
    BY <2>2, <2>3, <2>4, <2>5
  <2>7. QED
    BY <2>1, <2>4, <2>6 DEF intent, v
<1>3. NoncesUsed'
  BY <1>2 DEF NoncesUsed
<1>4. OneExecutionPerNonce'
  BY <1>1 DEF PipelineInv, OneExecutionPerNonce
<1>5. QED
  BY <1>3, <1>4

(* A transaction of the executor's succeeds: its nonce was unused before.  *)
LEMMA MineSuccessExecutes ==
  ASSUME PipelineInv, NEW r \in Requests, MineSuccess(r)
  PROVE  PipelineInv'
<1> DEFINE intent == transaction[r].intent
           v == intent.vault
<1>1. /\ RequestsOK' /\ transaction[r] \in Transaction /\ transaction[r].status = "pending"
      /\ transaction'[r].intent = intent
      /\ \A q \in Requests \ {r} : transaction'[q] = transaction[q]
  BY EndMoves DEF PipelineInv, MineSuccess
<1>2. intent \in AnyIntent /\ transaction[r].contract \in StrategyContracts
  BY <1>1 DEF Transaction, Intent, AnyIntent
<1>3. PICK t \in TokensOf(intent.asset) :
        SubmitRebalanceIntent(ExecutorKey, intent, transaction[r].contract, t, FALSE)
  BY DEF MineSuccess
<1>4. UNCHANGED <<height, adminVars, executors, strategyVars, receiptVars>>
  BY DEF MineSuccess
<1>5. v \in VaultIds /\ intent.nonce \in Nat
  BY <1>2 DEF AnyIntent
<1> HIDE DEF intent
<1>6. PoolInv'
  BY <1>2, <1>3, <1>4, SubmitKeepsPools DEF PipelineInv
<1>7. UsesNonce(v, intent.nonce)
  BY <1>2, <1>3, SubmitUsesNonce DEF PipelineInv
<1>8. NoncesGrow
  BY <1>5, <1>7, UseGrows DEF PipelineInv
<1>9. ~Executed(r)
  BY <1>1 DEF Executed
<1>10. ASSUME NEW q \in Requests, q # r, Executed(q)'
       PROVE  LET other == transaction[q].intent
                  w == other.vault
              IN /\ Executed(q) /\ transaction'[q] = transaction[q]
                 /\ w \in VaultIds /\ other.nonce \in Nat
                 /\ vaultConfig[w] # Absent /\ vaultConfig[w].lastUsedNonce \in Nat
                 /\ other.nonce <= vaultConfig[w].lastUsedNonce
                 /\ vaultConfig'[w] # Absent
                 /\ other.nonce <= vaultConfig'[w].lastUsedNonce
  <2> DEFINE other == transaction[q].intent
             w == other.vault
  <2>1. transaction'[q] = transaction[q] /\ Executed(q)
    BY <1>1, <1>10 DEF Executed
  <2>2. w \in VaultIds /\ other.nonce \in Nat
    BY <2>1, IntentOf DEF PipelineInv, Intent
  <2>3. vaultConfig[w] # Absent /\ other.nonce <= vaultConfig[w].lastUsedNonce
    BY <2>1 DEF PipelineInv, NoncesUsed
  <2> HIDE DEF other, w
  <2>4. vaultConfig'[w] # Absent /\ vaultConfig'[w].lastUsedNonce >= vaultConfig[w].lastUsedNonce
    BY <1>8, <2>2, <2>3 DEF NoncesGrow
  <2>5. vaultConfig[w].lastUsedNonce \in Nat /\ vaultConfig'[w].lastUsedNonce \in Nat
    <3>1. vaultConfig'[w] \in VaultConfig
      BY <1>6, <2>2, <2>4 DEF PoolInv, TypeOK, GuardTypeOK
    <3>2. QED
      BY <2>2, <2>3, <3>1, NonceType DEF PipelineInv, VaultConfig
  <2>6. other.nonce <= vaultConfig'[w].lastUsedNonce
    BY <2>2, <2>3, <2>4, <2>5
  <2>7. QED
    BY <2>1, <2>2, <2>3, <2>4, <2>5, <2>6 DEF other, w
<1>11. /\ vaultConfig[v] # Absent /\ vaultConfig'[v] # Absent
       /\ intent.nonce > vaultConfig[v].lastUsedNonce
       /\ vaultConfig'[v].lastUsedNonce = intent.nonce
       /\ vaultConfig[v].lastUsedNonce \in Nat
  BY <1>5, <1>7, NonceType DEF UsesNonce, PipelineInv
<1>12. NoncesUsed'
  <2>1. ASSUME NEW q \in Requests, Executed(q)'
        PROVE  /\ vaultConfig'[transaction'[q].intent.vault] # Absent
               /\ transaction'[q].intent.nonce
                    <= vaultConfig'[transaction'[q].intent.vault].lastUsedNonce
    <3>1. CASE q = r
      <4>1. transaction'[q].intent = intent
        BY <1>1, <3>1
      <4>2. intent.nonce <= vaultConfig'[v].lastUsedNonce
        BY <1>5, <1>11
      <4>3. QED
        BY <1>11, <4>1, <4>2
    <3>2. CASE q # r
      BY <1>10, <2>1, <3>2
    <3>3. QED
      BY <3>1, <3>2
  <2>2. QED
    BY <2>1 DEF NoncesUsed
<1>13. ASSUME NEW q \in Requests, q # r, Executed(q)', transaction'[q].intent.vault = v
       PROVE  transaction'[q].intent.nonce # intent.nonce
  <2>1. /\ transaction'[q] = transaction[q]
        /\ transaction[q].intent.nonce \in Nat
        /\ transaction[q].intent.nonce <= vaultConfig[v].lastUsedNonce
    BY <1>10, <1>13
  <2>2. QED
    BY <1>5, <1>11, <2>1
<1>14. OneExecutionPerNonce'
  <2>1. ASSUME NEW p \in Requests, NEW q \in Requests, p # q, Executed(p)', Executed(q)',
               transaction'[p].intent.vault = transaction'[q].intent.vault
        PROVE  transaction'[p].intent.nonce # transaction'[q].intent.nonce
    <3>1. CASE p = r
      BY <1>1, <1>13, <2>1, <3>1
    <3>2. CASE q = r
      BY <1>1, <1>13, <2>1, <3>2
    <3>3. CASE p # r /\ q # r
      BY <1>10, <2>1, <3>3 DEF PipelineInv, OneExecutionPerNonce
    <3>4. QED
      BY <3>1, <3>2, <3>3
  <2>2. QED
    BY <2>1 DEF OneExecutionPerNonce
<1>15. QED
  BY <1>1, <1>6, <1>12, <1>14 DEF PipelineInv

LEMMA UnchangedNonces ==
  ASSUME PoolInv, UNCHANGED vars
  PROVE  PoolInv' /\ NoncesGrow
  BY StepPools, ChainNonces

LEMMA InitPipeline == PipelineInit => PipelineInv
<1> SUFFICES ASSUME PipelineInit
             PROVE  PipelineInv
  OBVIOUS
<1>1. PoolInv /\ RequestsOK
  BY InitPools, InitRequests DEF PipelineInit
<1>2. \A r \in Requests : ~Executed(r)
  BY DEF PipelineInit, AgentInit, Executed
<1>3. QED
  BY <1>1, <1>2 DEF PipelineInv, NoncesUsed, OneExecutionPerNonce

LEMMA StepPipeline == PipelineInv /\ [PipelineNext]_pipelineVars => PipelineInv'
<1> SUFFICES ASSUME PipelineInv, [PipelineNext]_pipelineVars
             PROVE  PipelineInv'
  OBVIOUS
<1>1. PoolInv /\ RequestsOK /\ TypeOK
  BY DEF PipelineInv, PoolInv
<1>2. CASE AgentStep
  <2>1. PoolInv' /\ NoncesGrow
    BY <1>1, <1>2, UnchangedNonces DEF AgentStep
  <2>2. RequestsOK'
    BY <1>1, <1>2, AgentStepMoves
  <2>3. QED
    BY <1>1, <1>2, <2>1, <2>2, AgentExecutesNothing, NoExecution DEF PipelineInv
<1>3. CASE \E r \in Requests : MineSuccess(r)
  BY <1>3, MineSuccessExecutes
<1>4. CASE \E r \in Requests : MineNothing(r)
  <2>1. PICK r \in Requests, status \in Aborts \cup {"dropped"} :
          EndTransaction(r, status) /\ UNCHANGED vars
    BY <1>4 DEF MineNothing
  <2>2. PoolInv' /\ NoncesGrow
    BY <1>1, <2>1, UnchangedNonces
  <2>3. /\ RequestsOK' /\ transaction'[r].status = status
        /\ \A q \in Requests \ {r} : transaction'[q] = transaction[q]
    BY <1>1, <2>1, EndMoves
  <2>4. status # "success"
    BY DEF Aborts
  <2>5. \A q \in Requests : Executed(q)' => transaction'[q] = transaction[q]
    BY <2>3, <2>4 DEF Executed
  <2>6. QED
    BY <2>2, <2>3, <2>5, NoExecution DEF PipelineInv
<1>5. CASE ChainStep \/ UNCHANGED pipelineVars
  <2>1. [Next]_vars /\ UNCHANGED agentVars
    BY <1>5 DEF ChainStep, pipelineVars
  <2>2. PoolInv' /\ NoncesGrow
    BY <1>1, <2>1, StepPools, ChainNonces
  <2>3. RequestsOK'
    BY <1>1, <2>1 DEF agentVars, RequestsOK, PipelineTypeOK
  <2>4. \A q \in Requests : Executed(q)' => transaction'[q] = transaction[q]
    BY <2>1 DEF agentVars
  <2>5. QED
    BY <2>2, <2>3, <2>4, NoExecution DEF PipelineInv
<1>6. QED
  BY <1>2, <1>3, <1>4, <1>5 DEF PipelineNext, Mining

-----------------------------------------------------------------------------
(* The invariant, and what follows from it. *)

LEMMA PipelineInvariant == PipelineSpec => []PipelineInv
  BY InitPipeline, StepPipeline, PTL DEF PipelineSpec

(* Two requests that proposed with the same nonce are never both executed, *)
(* whatever the order their transactions are mined in.                     *)
THEOREM ExecutedOnce == PipelineSpec => []OneExecutionPerNonce
<1>1. PipelineInv => OneExecutionPerNonce
  BY DEF PipelineInv
<1>2. QED
  BY <1>1, PipelineInvariant, PTL

(* A service configured for testnet never sends a transaction.             *)
THEOREM TestnetSilent == PipelineSpec => []TestnetServiceNeverSubmits
<1>1. PipelineInv => TestnetServiceNeverSubmits
  <2> SUFFICES ASSUME RequestsOK, NEW r \in Requests, ServiceNetwork[r] = "testnet"
               PROVE  transaction[r] = Absent
    BY DEF PipelineInv, TestnetServiceNeverSubmits
  <2>1. QED
    BY DEF RequestsOK, RequestOK, Agrees
<1>2. QED
  BY <1>1, PipelineInvariant, PTL

LEMMA OutcomeMatches ==
  ASSUME RequestsOK, NEW r \in Requests, record[r] # Absent
  PROVE  /\ record[r].status = "EXECUTED" \/ record[r].execution = "CONFIRMED" => Executed(r)
         /\ record[r].execution = "FAILED" => Aborted(r)
         /\ record[r].execution = "SUBMITTED" => transaction[r] # Absent
         /\ record[r].execution = "NOT_EXECUTED_TESTNET" => transaction[r] = Absent
<1>1. Outcome(r, record[r], transaction[r])
  BY DEF RequestsOK, RequestOK, Agrees
<1>2. QED
  BY <1>1 DEF Outcome, Entry, Validated, Executed, Aborted

LEMMA PagesMatch ==
  ASSUME RequestsOK, NEW r \in Requests, record[r] # Absent
  PROVE  PagesReadRight(r)
<1> DEFINE rec == record[r]
           list == Checklist(rec)
<1>1. Outcome(r, rec, transaction[r])
  BY DEF RequestsOK, RequestOK, Agrees
<1>2. /\ list.risk = rec.validation
      /\ list.limits = "could not be evaluated" => rec.validation \in {"none", "UNAVAILABLE"}
      /\ list.outcome = "executed" => rec.execution = "CONFIRMED"
      /\ list.outcome = "nothing to execute" => rec.execution = "NOT_APPLICABLE"
  <2>1. list.risk = rec.validation
    BY DEF Checklist
  <2>2. list.limits = "could not be evaluated" => rec.validation \in {"none", "UNAVAILABLE"}
    BY DEF Checklist
  <2>3. list.outcome = IF rec.execution = "NOT_APPLICABLE" THEN "nothing to execute"
                       ELSE IF rec.execution = "CONFIRMED" THEN "executed"
                       ELSE "not executed"
    BY DEF Checklist, HasIntent
  <2> HIDE DEF list, rec
  <2>4. QED
    BY <2>1, <2>2, <2>3
<1>3. /\ BlockedOutcome(rec) <=> rec.status = "TESTNET_BLOCKED"
      /\ RulesRejected(rec) <=> rec.status = "REJECTED" /\ rec.validation = "FAILED"
      /\ AttentionItem(rec) # "none" => BlockedOutcome(rec) \/ RulesRejected(rec)
      /\ HistoryRow(rec) = "not executed - testnet" =>
           rec.execution \in {"NOT_EXECUTED_TESTNET", "not executed - testnet"}
  BY DEF BlockedOutcome, RulesRejected, AttentionItem, HistoryRow
<1>4. /\ \/ rec.validation # "PASSED" \/ r \notin ExecuteRequests
         \/ rec.execution \in {"NOT_APPLICABLE", "NOT_EXECUTED_TESTNET"}
         \/ rec.status \in {"TESTNET_BLOCKED", "REJECTED"}
         => transaction[r] = Absent
      /\ rec.status = "TESTNET_BLOCKED" => rec.validation = "PASSED"
      /\ rec.execution # "not executed - testnet"
  <2>1. rec # Absent
    OBVIOUS
  <2> HIDE DEF rec, list
  <2>2. rec.validation # "PASSED" \/ r \notin ExecuteRequests => transaction[r] = Absent
    BY <1>1, <2>1 DEF Outcome, Entry, Validated
  <2>3. rec.execution \in {"NOT_APPLICABLE", "NOT_EXECUTED_TESTNET"} => transaction[r] = Absent
    BY <1>1, <2>1 DEF Outcome, Entry, Validated
  <2>4. rec.status \in {"TESTNET_BLOCKED", "REJECTED"} => transaction[r] = Absent
    BY <1>1, <2>1 DEF Outcome, Entry, Validated
  <2>5. rec.status = "TESTNET_BLOCKED" => rec.validation = "PASSED"
    BY <1>1, <2>1 DEF Outcome, Entry, Validated
  <2>6. rec.execution # "not executed - testnet"
    <3>1. rec \in Record
      BY <2>1 DEF RequestsOK, PipelineTypeOK, rec
    <3>2. QED
      BY <3>1 DEF Record
  <2>7. QED
    BY <2>2, <2>3, <2>4, <2>5, <2>6
<1>5. list.outcome = "executed" => Executed(r)
  <2> HIDE DEF list
  <2>1. QED
    BY <1>2, OutcomeMatches
<1> HIDE DEF list, rec
<1>6. \/ list.limits = "could not be evaluated" \/ list.risk # "PASSED"
      \/ list.outcome = "nothing to execute" \/ BlockedOutcome(rec) \/ RulesRejected(rec)
      \/ AttentionItem(rec) # "none"
      \/ HistoryRow(rec) = "not executed - testnet" \/ r \notin ExecuteRequests
      => transaction[r] = Absent
  BY <1>2, <1>3, <1>4
<1>7. BlockedOutcome(rec) => list.risk = "PASSED"
  BY <1>2, <1>3, <1>4
<1>8. QED
  BY <1>5, <1>6, <1>7 DEF PagesReadRight, list, rec

(* A record, and what the pages read out of it, say of the chain what      *)
(* happened there, wherever a request, its monitor or the service stopped. *)
THEOREM RecordsTruthful == PipelineSpec => []RecordsMatchChain
<1>1. PipelineInv => RecordsMatchChain
  <2>1. PipelineInv => RequestsOK /\ PipelineTypeOK
    BY DEF PipelineInv, RequestsOK
  <2>2. QED
    BY <2>1, OutcomeMatches, PagesMatch DEF RecordsMatchChain
<1>2. QED
  BY <1>1, PipelineInvariant, PTL

-----------------------------------------------------------------------------
(* Verdicts.  Only a record that is not there, still VALIDATING or         *)
(* VALIDATED is written to.                                                *)

Unsettled(e) ==
  e \in {Absent, Entry("VALIDATING", "NOT_SUBMITTED", "none"), Validated,
         Entry("VALIDATED", "SUBMITTED", "PASSED")}

WritesUnsettled == \A q \in Requests : record'[q] = record[q] \/ Unsettled(record[q])

LEMMA WriteOne ==
  ASSUME RequestsOK, NEW r \in Requests, Unsettled(record[r]),
         \A q \in Requests \ {r} : record'[q] = record[q]
  PROVE  WritesUnsettled
  BY DEF WritesUnsettled

LEMMA AgentWrites ==
  ASSUME RequestsOK, AgentStep
  PROVE  WritesUnsettled
<1>1. record \in [Requests -> Record \cup {Absent}]
  BY DEF RequestsOK, PipelineTypeOK
<1>2. ASSUME NEW r \in Requests
      PROVE  Agrees(r, job[r], record[r], transaction[r], monitor[r])
  BY DEF RequestsOK, RequestOK
<1>3. ASSUME UNCHANGED record
      PROVE  WritesUnsettled
  BY <1>3 DEF WritesUnsettled
<1>4. ASSUME NEW r \in Requests, Recommend(r) \/ Propose(r)
      PROVE  WritesUnsettled
  <2>1. \A q \in Requests \ {r} : record'[q] = record[q]
    BY <1>1, <1>4 DEF Recommend, Propose, Open
  <2>2. job[r].at \in Reads /\ ~job[r].again
    BY <1>4 DEF Recommend, Propose, SnapshotTaken, Reads
  <2>3. Unsettled(record[r])
    BY <1>2, <2>2 DEF Agrees, Unsettled
  <2>4. QED
    BY <2>1, <2>3, WriteOne
<1>5. ASSUME NEW r \in Requests,
             EvaluationPasses(r) \/ EvaluationFails(r) \/ EvaluationUnavailable(r)
      PROVE  WritesUnsettled
  <2>1. \A q \in Requests \ {r} : record'[q] = record[q]
    BY <1>1, <1>5 DEF EvaluationPasses, EvaluationFails, EvaluationUnavailable, Conclude
  <2>2. job[r].at = "evaluation"
    BY <1>5 DEF EvaluationPasses, EvaluationFails, EvaluationUnavailable
  <2>3. Unsettled(record[r])
    BY <1>2, <2>2 DEF Agrees, Unsettled
  <2>4. QED
    BY <2>1, <2>3, WriteOne
<1>6. ASSUME NEW r \in Requests, job[r].at \in Sending \/ (job[r].at \in Reads /\ job[r].again),
             \A q \in Requests \ {r} : record'[q] = record[q]
      PROVE  WritesUnsettled
  <2>1. Unsettled(record[r])
    BY <1>6, Executing DEF Unsettled
  <2>2. QED
    BY <1>6, <2>1, WriteOne
<1>7. ASSUME NEW r \in Requests,
             Recheck(r) \/ ReadGate(r) \/ ReceiveTxId(r) \/ SubmissionThrows(r)
      PROVE  WritesUnsettled
  <2>1. \A q \in Requests \ {r} : record'[q] = record[q]
    BY <1>1, <1>7 DEF Recheck, ReadGate, ReceiveTxId, SubmissionThrows, Note, NoteStatus
  <2>2. job[r].at \in Sending \/ (job[r].at \in Reads /\ job[r].again)
    BY <1>7 DEF Recheck, ReadGate, ReceiveTxId, SubmissionThrows, SnapshotTaken, Sending, Reads
  <2>3. QED
    BY <1>6, <2>1, <2>2
<1>8. ASSUME NEW r \in Requests, VaultMissing(r)
      PROVE  WritesUnsettled
  <2>1. CASE job[r].again
    <3>1. job[r].at \in Reads /\ \A q \in Requests \ {r} : record'[q] = record[q]
      BY <1>1, <1>8 DEF VaultMissing, Reads, NoteStatus
    <3>2. QED
      BY <1>6, <2>1, <3>1
  <2>2. CASE ~job[r].again
    BY <1>3, <1>8, <2>2 DEF VaultMissing
  <2>3. QED
    BY <2>1, <2>2
<1>9. ASSUME NEW r \in Requests, PollSettles(r) \/ TimesOut(r) \/ PollThrows(r)
      PROVE  WritesUnsettled
  <2>1. \A q \in Requests \ {r} : record'[q] = record[q]
    BY <1>1, <1>9 DEF PollSettles, TimesOut, PollThrows, Note
  <2>2. monitor[r] = "polling"
    BY <1>9 DEF PollSettles, TimesOut, PollThrows
  <2>3. Unsettled(record[r])
    BY <1>2, <2>2 DEF Agrees, Unsettled
  <2>4. QED
    BY <2>1, <2>3, WriteOne
<1>10. ASSUME NEW r \in Requests, Progress(r)
       PROVE  WritesUnsettled
  <2>1. CASE \/ Receive(r) \/ ReadHeight(r) \/ ReadPaused(r) \/ ReadEnvironment(r)
             \/ ReadStrategy(r) \/ EndStrategies(r) \/ ReadVault(r) \/ ReadPool(r)
             \/ ReadConfig(r) \/ ReadAllocation(r) \/ ReadRegistry(r) \/ Broadcast(r)
    <3>1. UNCHANGED record
      BY <2>1 DEF Receive, ReadHeight, ReadPaused, ReadEnvironment, Read, ReadStrategy,
                  EndStrategies, ReadVault, ReadPool, ReadConfig, ReadAllocation, ReadRegistry,
                  Broadcast
    <3>2. QED
      BY <1>3, <3>1
  <2>2. QED
    BY <1>4, <1>5, <1>7, <1>8, <1>10, <2>1 DEF Progress
<1>11. CASE ServiceStops
  BY <1>3, <1>11 DEF ServiceStops
<1>12. ASSUME NEW r \in Requests, MonitorReturns(r) \/ Throws(r)
       PROVE  WritesUnsettled
  <2>1. CASE ReadThrows(r)
    BY <1>3, <2>1 DEF ReadThrows
  <2>2. QED
    BY <1>5, <1>7, <1>9, <1>12, <2>1 DEF MonitorReturns, Throws
<1>13. QED
  BY <1>10, <1>11, <1>12 DEF AgentStep

(* A settled verdict is never rewritten, by the request, its monitor or    *)
(* anything else.                                                          *)
THEOREM VerdictsFinal == PipelineSpec => SettledStaysSettled
<1> DEFINE Stays ==
      \A r \in Requests :
        record[r] # Absent /\ record[r].status \in SettledStatuses =>
          record'[r] # Absent /\ record'[r].status = record[r].status
<1>1. PipelineInv /\ [PipelineNext]_pipelineVars => Stays
  <2> SUFFICES ASSUME RequestsOK, [PipelineNext]_pipelineVars
               PROVE  Stays
    BY DEF PipelineInv
  <2>1. WritesUnsettled
    <3>1. CASE AgentStep
      BY <3>1, AgentWrites
    <3>2. CASE ~AgentStep
      <4>1. UNCHANGED record
        BY <3>2 DEF PipelineNext, Mining, MineSuccess, MineNothing, EndTransaction, ChainStep,
                    agentVars, pipelineVars
      <4>2. QED
        BY <4>1 DEF WritesUnsettled
    <3>3. QED
      BY <3>1, <3>2
  <2>2. \A r \in Requests : Unsettled(record[r]) =>
          record[r] = Absent \/ record[r].status \notin SettledStatuses
    BY DEF Unsettled, Entry, Validated, SettledStatuses
  <2>3. QED
    BY <2>1, <2>2 DEF WritesUnsettled
<1>2. QED
  BY <1>1, PipelineInvariant, PTL DEF PipelineSpec, SettledStaysSettled

-----------------------------------------------------------------------------
(* The safety half of RequestsEnd: each call that returns, or fails,       *)
(* brings its request nearer to the end.                                   *)

(* The places a request waits at, by how much is ahead of it. *)
Place ==
  [waiting |-> 22, height |-> 21, paused |-> 20, environment |-> 19, strategies |-> 18,
   vault |-> 17, pool |-> 16, config |-> 15, allocations |-> 14, registry |-> 13,
   evaluation |-> 12, gate |-> 3, broadcast |-> 2, reply |-> 1, answered |-> 0]

(* The stages of a request that are still ahead of it: the reads come      *)
(* again after the evaluation.                                             *)
Stage(j) == IF j.again /\ j.at \in Reads THEN Place[j.at] - 10 ELSE Place[j.at]

(* In a stage that asks for strategy after strategy, those left to ask for. *)
CallsLeft(j) == Stage(j) * (MaxStrategies + 1) + (MaxStrategies - j.probe)

(* Of the calls that may be left to a request there is a bound, whatever   *)
(* it read.                                                                *)
CallsBounded == \A r \in Requests : CallsLeft(job[r]) \in 0 .. 23 * (MaxStrategies + 1)

(* A step of a request takes at least one of them away, and no step gives  *)
(* one back, the second pass of the reads included; its monitor begins and *)
(* ends once.                                                              *)
GoesForward ==
  \A r \in Requests :
    /\ job'[r] # job[r] => CallsLeft(job'[r]) < CallsLeft(job[r])
    /\ monitor'[r] # monitor[r] =>
         <<monitor[r], monitor'[r]>> \in {<<"none", "polling">>, <<"polling", "ended">>}

(* No strategy is asked for beyond the last there can be. *)
ProbesOK == \A r \in Requests : job[r].probe \in 0 .. MaxStrategies

(* The job is at a later stage, or at the same one and further in it. *)
Nearer(k, j) ==
  /\ k.probe \in 0 .. MaxStrategies
  /\ Stage(k) < Stage(j) \/ (Stage(k) = Stage(j) /\ j.probe < k.probe)

LEMMA PlacesAre ==
  /\ Place["waiting"] = 22
  /\ Place["height"] = 21 /\ Place["paused"] = 20 /\ Place["environment"] = 19
  /\ Place["strategies"] = 18 /\ Place["vault"] = 17 /\ Place["pool"] = 16
  /\ Place["config"] = 15 /\ Place["allocations"] = 14
  /\ Place["registry"] = 13 /\ Place["evaluation"] = 12 /\ Place["gate"] = 3
  /\ Place["broadcast"] = 2 /\ Place["reply"] = 1 /\ Place["answered"] = 0
  BY DEF Place

(* Where the place alone tells the stage, and where the pass counts. *)
LEMMA StageIs ==
  ASSUME NEW j, NEW at, j.at = at
  PROVE  /\ at \notin Reads \/ ~j.again => Stage(j) = Place[at]
         /\ at \in Reads /\ j.again => Stage(j) = Place[at] - 10
  BY DEF Stage

LEMMA PlaceType ==
  ASSUME NEW at \in Awaits
  PROVE  /\ Place[at] \in 0 .. 22
         /\ at \in Reads => Place[at] \in 14 .. 21
         /\ at # "answered" => Place[at] > 0
<1>1. CASE at \in Reads
  BY <1>1, PlacesAre DEF Reads
<1>2. CASE at \notin Reads
  <2>1. at \in {"waiting", "registry", "evaluation", "gate", "broadcast", "reply", "answered"}
    BY <1>2 DEF Awaits, Reads
  <2>2. QED
    BY <1>2, <2>1, PlacesAre
<1>3. QED
  BY <1>1, <1>2

(* There are 23 stages, and only an answered request has none ahead. *)
LEMMA StageType ==
  ASSUME NEW j \in Job
  PROVE  Stage(j) \in 0 .. 22 /\ (j.at # "answered" => Stage(j) > 0)
<1>1. j.at \in Awaits /\ j.again \in BOOLEAN
  BY DEF Job
<1>2. QED
  BY <1>1, PlaceType DEF Stage

(* In one pass of the reads, a later one is nearer. *)
LEMMA LaterIsNearer ==
  ASSUME NEW j \in Job, NEW k, NEW at \in Awaits, NEW next \in Awaits,
         j.at = at, k.at = next, k.again = j.again,
         at \in Reads <=> next \in Reads, Place[next] < Place[at]
  PROVE  Stage(k) < Stage(j)
<1>1. Place[at] \in 0 .. 22 /\ Place[next] \in 0 .. 22
  BY PlaceType
<1>2. QED
  BY <1>1 DEF Stage

LEMMA CallsLeftType ==
  ASSUME NEW j \in Job, j.probe \in 0 .. MaxStrategies
  PROVE  CallsLeft(j) \in 0 .. 23 * (MaxStrategies + 1)
<1> DEFINE t == MaxStrategies + 1
<1>1. MaxStrategies \in Nat /\ Stage(j) \in Nat /\ Stage(j) <= 22 /\ t \in Nat
  BY StageType, StrategyAssumption
<1>2. MaxStrategies - j.probe \in Nat /\ MaxStrategies - j.probe <= t
  BY <1>1
<1> HIDE DEF t
<1>3. Stage(j) * t <= 22 * t /\ Stage(j) * t \in Nat
  BY <1>1, Scale
<1>4. Stage(j) * t + (MaxStrategies - j.probe) \in 0 .. 23 * t
  BY <1>1, <1>2, <1>3
<1>5. QED
  BY <1>4 DEF CallsLeft, t

LEMMA NearerIsFewer ==
  ASSUME NEW j \in Job, NEW k \in Job, j.probe \in 0 .. MaxStrategies, Nearer(k, j)
  PROVE  CallsLeft(k) < CallsLeft(j)
<1> DEFINE t == MaxStrategies + 1
<1>1. /\ MaxStrategies \in Nat /\ Stage(j) \in Nat /\ Stage(k) \in Nat /\ t \in Nat
      /\ k.probe \in 0 .. MaxStrategies
  BY StageType, StrategyAssumption DEF Nearer
<1>2. MaxStrategies - j.probe \in Nat /\ MaxStrategies - k.probe \in Nat /\ MaxStrategies - k.probe < t
  BY <1>1
<1>3. CallsLeft(j) = Stage(j) * t + (MaxStrategies - j.probe)
      /\ CallsLeft(k) = Stage(k) * t + (MaxStrategies - k.probe)
  BY DEF CallsLeft
<1> HIDE DEF t
<1>4. CASE Stage(k) < Stage(j)
  <2>1. (Stage(k) + 1) * t <= Stage(j) * t
    BY <1>1, <1>4, Scale
  <2>2. (Stage(k) + 1) * t = Stage(k) * t + t /\ Stage(k) * t \in Nat /\ Stage(j) * t \in Nat
    BY <1>1
  <2>3. QED
    BY <1>1, <1>2, <1>3, <2>1, <2>2
<1>5. CASE Stage(k) = Stage(j) /\ j.probe < k.probe
  <2>1. Stage(k) * t = Stage(j) * t /\ Stage(j) * t \in Nat
    BY <1>1, <1>5
  <2>2. MaxStrategies - k.probe < MaxStrategies - j.probe
    BY <1>1, <1>5
  <2>3. QED
    BY <1>2, <1>3, <2>1, <2>2
<1>6. QED
  BY <1>4, <1>5 DEF Nearer

(* Nothing is ahead of an answered request. *)
LEMMA AnsweredIsLast ==
  Answered \in Job /\ Answered.at = "answered" /\ Answered.probe = 0 /\ Stage(Answered) = 0
<1>1. NothingSeen(Absent, Absent) \in Seen
  BY DEF NothingSeen, Seen
<1>2. Answered \in Job /\ Answered.at = "answered" /\ Answered.probe = 0
  BY <1>1 DEF Answered, JobAt, Job, Awaits, Seen
<1>3. QED
  BY <1>2, StageIs, PlacesAre DEF Reads

LEMMA AnsweringIsNearer ==
  ASSUME NEW j \in Job, j.at # "answered"
  PROVE  Nearer(Answered, j)
<1>1. Stage(j) > 0
  BY StageType
<1>2. QED
  BY <1>1, AnsweredIsLast, StrategyAssumption DEF Nearer

(* What the others do to the job of a request. *)
JobSteps(r) ==
  \A q \in Requests : q # r => job'[q] = job[q]

(* The steps that read, each to the next await or on within it. *)
LEMMA ReadsGetNearer ==
  ASSUME RequestsOK, ProbesOK, NEW r \in Requests,
         \/ Receive(r) \/ ReadHeight(r) \/ ReadPaused(r) \/ ReadEnvironment(r)
         \/ ReadStrategy(r) \/ EndStrategies(r) \/ ReadVault(r) \/ ReadPool(r)
         \/ ReadConfig(r) \/ ReadAllocation(r)
  PROVE  Nearer(job'[r], job[r]) /\ JobSteps(r)
<1>1. job \in [Requests -> Job] /\ job[r].probe \in 0 .. MaxStrategies /\ MaxStrategies \in Nat
  BY StrategyAssumption DEF RequestsOK, PipelineTypeOK, ProbesOK
<1>2. job[r].at \in Awaits /\ job[r].again \in BOOLEAN
  BY <1>1 DEF Job
<1>3. CASE Receive(r)
  <2>1. PICK pool \in PoolsAsked : job' = [job EXCEPT ![r] = JobAt("height", pool.vault, pool.asset)]
    BY <1>3 DEF Receive
  <2>2. job'[r].at = "height" /\ ~job'[r].again /\ job'[r].probe = 0 /\ JobSteps(r)
    BY <1>1, <2>1 DEF JobAt, JobSteps
  <2>3. Stage(job'[r]) = 21
    BY <2>2, StageIs, PlacesAre
  <2>4. Stage(job[r]) = 22
    <3>1. job[r].at = "waiting" /\ "waiting" \notin Reads
      BY <1>3 DEF Receive, Reads
    <3>2. QED
      BY <3>1, StageIs, PlacesAre
  <2>5. QED
    BY <1>1, <2>2, <2>3, <2>4 DEF Nearer
<1>4. ASSUME NEW here, NEW next, NEW seen, Read(r, here, next, seen)
      PROVE  /\ job[r].at = here /\ job'[r].at = next
             /\ job'[r].again = job[r].again /\ job'[r].probe = job[r].probe /\ JobSteps(r)
  <2>1. job' = [job EXCEPT ![r] = [job[r] EXCEPT !.at = next, !.seen = seen]]
    BY <1>4 DEF Read
  <2> DEFINE j == [job[r] EXCEPT !.at = next, !.seen = seen]
  <2>2. j.at = next /\ j.again = job[r].again /\ j.probe = job[r].probe
    BY <1>1 DEF Job
  <2> HIDE DEF j
  <2>3. job' = [job EXCEPT ![r] = j]
    BY <2>1 DEF j
  <2>4. job'[r] = j /\ JobSteps(r)
    BY <1>1, <2>3 DEF JobSteps
  <2>5. QED
    BY <1>4, <2>2, <2>4 DEF Read
<1>5. ASSUME NEW here \in Reads, NEW next \in Reads, Place[next] < Place[here],
             job[r].at = here, job'[r].at = next, job'[r].again = job[r].again,
             job'[r].probe \in 0 .. MaxStrategies, JobSteps(r)
      PROVE  Nearer(job'[r], job[r]) /\ JobSteps(r)
  <2>1. here \in Awaits /\ next \in Awaits /\ job[r] \in Job
    BY <1>1 DEF Reads, Awaits
  <2>2. Stage(job'[r]) < Stage(job[r])
    BY <1>5, <2>1, LaterIsNearer
  <2>3. QED
    BY <1>5, <2>2 DEF Nearer
<1>6. CASE ReadHeight(r) \/ ReadPaused(r) \/ ReadEnvironment(r) \/ ReadConfig(r)
  <2>1. ASSUME NEW here \in Reads, NEW next \in Reads, NEW seen, Place[next] < Place[here],
               Read(r, here, next, seen)
        PROVE  Nearer(job'[r], job[r]) /\ JobSteps(r)
    BY <1>1, <1>4, <1>5, <2>1
  <2>2. CASE ReadHeight(r)
    BY <2>1, <2>2, PlacesAre DEF ReadHeight, Reads
  <2>3. CASE ReadPaused(r)
    BY <2>1, <2>3, PlacesAre DEF ReadPaused, Reads
  <2>4. CASE ReadEnvironment(r)
    BY <2>1, <2>4, PlacesAre DEF ReadEnvironment, Reads
  <2>5. CASE ReadConfig(r)
    BY <2>1, <2>5, PlacesAre DEF ReadConfig, Reads
  <2>6. QED
    BY <1>6, <2>2, <2>3, <2>4, <2>5
<1>7. CASE EndStrategies(r)
  <2>1. /\ job[r].at = "strategies" /\ job'[r].at = "vault" /\ job'[r].again = job[r].again
        /\ job'[r].probe = 0 /\ JobSteps(r)
    BY <1>1, <1>7 DEF EndStrategies, Job, JobSteps
  <2>2. QED
    BY <1>1, <1>5, <2>1, PlacesAre DEF Reads
<1>8. CASE ReadVault(r)
  <2>1. PICK owner, paused, supports :
          job' = [job EXCEPT ![r].at = "pool", ![r].seen.owner = owner, ![r].seen.paused = paused,
                             ![r].seen.supportsAsset = supports]
    BY <1>8 DEF ReadVault
  <2>2. /\ job'[r].at = "pool" /\ job'[r].again = job[r].again /\ job'[r].probe = job[r].probe
        /\ JobSteps(r)
    BY <1>1, <2>1 DEF Job, JobSteps
  <2>3. job[r].at = "vault"
    BY <1>8 DEF ReadVault
  <2>4. QED
    BY <1>1, <1>5, <2>2, <2>3, PlacesAre DEF Reads
<1>9. CASE ReadPool(r)
  <2>1. PICK idle, total :
          job' = [job EXCEPT ![r].at = "config", ![r].seen.idle = idle, ![r].seen.total = total]
    BY <1>9 DEF ReadPool
  <2>2. /\ job'[r].at = "config" /\ job'[r].again = job[r].again /\ job'[r].probe = job[r].probe
        /\ JobSteps(r)
    BY <1>1, <2>1 DEF Job, JobSteps
  <2>3. job[r].at = "pool"
    BY <1>9 DEF ReadPool
  <2>4. QED
    BY <1>1, <1>5, <2>2, <2>3, PlacesAre DEF Reads
<1>10. ASSUME ReadStrategy(r) \/ ReadAllocation(r)
      PROVE  /\ JobSteps(r) /\ job'[r].again = job[r].again /\ job'[r].at = job[r].at
             /\ job'[r].probe \in 0 .. MaxStrategies /\ job[r].probe < job'[r].probe
  <2>1. CASE ReadStrategy(r)
    <3>1. job[r].probe + 1 \in StrategyIds
      BY <2>1 DEF ReadStrategy, IsProbed
    <3>2. /\ JobSteps(r) /\ job'[r].again = job[r].again /\ job'[r].at = job[r].at
          /\ job'[r].probe = job[r].probe + 1
      BY <1>1, <2>1 DEF ReadStrategy, Job, JobSteps
    <3>3. QED
      BY <1>1, <3>1, <3>2 DEF StrategyIds
  <2>2. CASE ReadAllocation(r)
    <3>1. PICK s \in Unread(r) :
            job' = [job EXCEPT ![r].probe = s,
                               ![r].seen.allocations[s] =
                                 strategyAllocations[job[r].seen.vault][s][job[r].seen.asset]]
      BY <2>2 DEF ReadAllocation
    <3>2. s \in StrategyIds /\ s > job[r].probe
      BY <3>1 DEF Unread, AssetStrategies
    <3>3. /\ JobSteps(r) /\ job'[r].again = job[r].again /\ job'[r].at = job[r].at
          /\ job'[r].probe = s
      BY <1>1, <3>1 DEF Job, JobSteps
    <3>4. QED
      BY <1>1, <3>2, <3>3 DEF StrategyIds
  <2>3. QED
    BY <1>10, <2>1, <2>2
<1>11. CASE ReadStrategy(r) \/ ReadAllocation(r)
  <2>1. Stage(job'[r]) = Stage(job[r])
    BY <1>10, <1>11 DEF Stage
  <2>2. QED
    BY <1>10, <1>11, <2>1 DEF Nearer
<1>12. QED
  BY <1>3, <1>6, <1>7, <1>8, <1>9, <1>11

(* The steps that end a request. *)
LEMMA AnswersGetNearer ==
  ASSUME RequestsOK, NEW r \in Requests, Answer(r), job[r].at # "answered"
  PROVE  Nearer(job'[r], job[r]) /\ JobSteps(r)
<1>1. job \in [Requests -> Job]
  BY DEF RequestsOK, PipelineTypeOK
<1>2. job'[r] = Answered /\ JobSteps(r)
  BY <1>1 DEF Answer, JobSteps
<1>3. QED
  BY <1>1, <1>2, AnsweringIsNearer

(* The steps that decide, ask for the verdict, and submit. *)
LEMMA DecisionsGetNearer ==
  ASSUME RequestsOK, ProbesOK, NEW r \in Requests,
         \/ VaultMissing(r) \/ Recommend(r) \/ Propose(r) \/ ReadRegistry(r)
         \/ EvaluationPasses(r) \/ EvaluationFails(r) \/ EvaluationUnavailable(r)
         \/ Recheck(r) \/ ReadGate(r) \/ Broadcast(r) \/ ReceiveTxId(r)
         \/ SubmissionThrows(r) \/ ReadThrows(r)
  PROVE  Nearer(job'[r], job[r]) /\ JobSteps(r)
<1>1. job \in [Requests -> Job] /\ job[r].probe \in 0 .. MaxStrategies /\ MaxStrategies \in Nat
  BY StrategyAssumption DEF RequestsOK, PipelineTypeOK, ProbesOK
<1>2. job[r].at \in Awaits /\ job[r].again \in BOOLEAN
  BY <1>1 DEF Job
<1>3. CASE Answer(r)
  <2>1. job[r].at # "answered"
    BY <1>2 DEF VaultMissing, Recommend, Propose, ReadRegistry, EvaluationPasses, EvaluationFails,
       EvaluationUnavailable, Recheck, ReadGate, Broadcast, ReceiveTxId, SubmissionThrows,
       ReadThrows, SnapshotTaken
  <2>2. QED
    BY <1>3, <2>1, AnswersGetNearer
<1>4. ASSUME JobSteps(r), job'[r].probe \in 0 .. MaxStrategies, Stage(job'[r]) < Stage(job[r])
      PROVE  Nearer(job'[r], job[r]) /\ JobSteps(r)
  BY <1>4 DEF Nearer
<1>5. CASE Propose(r)
  <2> DEFINE at == IF job[r].seen.config.params.autonomousEnabled /\ SubmittingIdentity # Absent
                   THEN "registry" ELSE "evaluation"
  <2>1. /\ job' = [job EXCEPT ![r].at = at, ![r].probe = 0, ![r].intent = BuildIntent(job[r].seen),
                              ![r].sender = job[r].seen.owner]
        /\ job[r].at = "allocations" /\ ~job[r].again
    BY <1>5 DEF Propose, SnapshotTaken
  <2>2. at \in {"registry", "evaluation"}
    OBVIOUS
  <2> HIDE DEF at
  <2>3. job'[r].at = at /\ job'[r].again = job[r].again /\ job'[r].probe = 0 /\ JobSteps(r)
    BY <1>1, <2>1 DEF Job, JobSteps
  <2>4. Stage(job[r]) = 14
    BY <2>1, StageIs, PlacesAre
  <2>5. Stage(job'[r]) = Place[at]
    BY <2>2, <2>3, StageIs DEF Reads
  <2>6. Place[at] < 14
    BY <2>2, PlacesAre
  <2>7. QED
    BY <1>1, <1>4, <2>3, <2>4, <2>5, <2>6
<1>6. CASE ReadRegistry(r)
  <2>1. /\ job[r].at = "registry" /\ job'[r].at = "evaluation" /\ job'[r].again = job[r].again
        /\ job'[r].probe = job[r].probe /\ JobSteps(r)
    BY <1>1, <1>6 DEF ReadRegistry, Job, JobSteps
  <2>2. Stage(job[r]) = 13 /\ Stage(job'[r]) = 12
    BY <2>1, StageIs, PlacesAre DEF Reads
  <2>3. QED
    BY <1>1, <1>4, <2>1, <2>2
<1>7. CASE EvaluationPasses(r) \/ EvaluationFails(r) \/ EvaluationUnavailable(r)
  <2>1. job[r].at = "evaluation" /\ \E validation, status, execution : Conclude(r, validation, status, execution)
    BY <1>7 DEF EvaluationPasses, EvaluationFails, EvaluationUnavailable
  <2>2. PICK validation, status, execution : Conclude(r, validation, status, execution)
    BY <2>1
  <2>3. CASE ~Answer(r)
    <3>1. job' = [job EXCEPT ![r].at = "height", ![r].again = TRUE,
                             ![r].seen = NothingSeen(@.vault, @.asset)]
      BY <2>2, <2>3 DEF Conclude
    <3>2. /\ job'[r].at = "height" /\ job'[r].again = TRUE /\ job'[r].probe = job[r].probe /\ JobSteps(r)
      BY <1>1, <3>1 DEF Job, JobSteps
    <3>3. Stage(job[r]) = 12 /\ Stage(job'[r]) = 11
      BY <2>1, <3>2, StageIs, PlacesAre DEF Reads
    <3>4. QED
      BY <1>1, <1>4, <3>2, <3>3
  <2>4. QED
    BY <1>3, <2>3
<1>8. CASE Recheck(r)
  <2>1. job[r].at = "allocations" /\ job[r].again = TRUE
    BY <1>2, <1>8 DEF Recheck, SnapshotTaken
  <2>2. CASE ~Answer(r)
    <3>1. job' = [job EXCEPT ![r].at = "gate", ![r].probe = 0]
      BY <1>8, <2>2 DEF Recheck
    <3>2. /\ job'[r].at = "gate" /\ job'[r].again = job[r].again /\ job'[r].probe = 0 /\ JobSteps(r)
      BY <1>1, <3>1 DEF Job, JobSteps
    <3>3. Stage(job[r]) = 4 /\ Stage(job'[r]) = 3
      BY <2>1, <3>2, StageIs, PlacesAre DEF Reads
    <3>4. QED
      BY <1>1, <1>4, <3>2, <3>3
  <2>3. QED
    BY <1>3, <2>2
<1>9. CASE ReadGate(r) \/ Broadcast(r)
  <2>1. ASSUME NEW here \in {"gate", "broadcast"}, NEW next \in {"broadcast", "reply"},
               Place[next] < Place[here],
               job[r].at = here, job' = [job EXCEPT ![r].at = next]
        PROVE  Nearer(job'[r], job[r]) /\ JobSteps(r)
    <3>1. /\ job'[r].at = next /\ job'[r].again = job[r].again /\ job'[r].probe = job[r].probe
          /\ JobSteps(r)
      BY <1>1, <2>1 DEF Job, JobSteps
    <3>2. Stage(job[r]) = Place[here] /\ Stage(job'[r]) = Place[next]
      BY <2>1, <3>1, StageIs DEF Reads
    <3>3. QED
      BY <1>1, <1>4, <2>1, <3>1, <3>2
  <2>2. CASE Answer(r)
    BY <1>3, <2>2
  <2>3. CASE ~Answer(r)
    <3>1. \/ job[r].at = "gate" /\ job' = [job EXCEPT ![r].at = "broadcast"]
          \/ job[r].at = "broadcast" /\ job' = [job EXCEPT ![r].at = "reply"]
      BY <1>9, <2>3 DEF ReadGate, Broadcast
    <3>2. QED
      BY <2>1, <3>1, PlacesAre
  <2>4. QED
    BY <2>2, <2>3
<1>10. CASE VaultMissing(r) \/ Recommend(r) \/ ReceiveTxId(r) \/ SubmissionThrows(r) \/ ReadThrows(r)
  BY <1>3, <1>10 DEF VaultMissing, Recommend, ReceiveTxId, SubmissionThrows, ReadThrows
<1>11. QED
  BY <1>5, <1>6, <1>7, <1>8, <1>9, <1>10

(* A monitor that begins, and one that ends. *)
MonitorSteps ==
  \A q \in Requests : monitor'[q] = monitor[q] \/ (monitor[q] = "polling" /\ monitor'[q] = "ended")
                      \/ (monitor[q] = "none" /\ monitor'[q] = "polling")

LEMMA MonitorsGoOn ==
  ASSUME RequestsOK, [PipelineNext]_pipelineVars
  PROVE  MonitorSteps
<1>1. monitor \in [Requests -> {"none", "polling", "ended"}]
  BY DEF RequestsOK, PipelineTypeOK
<1>2. CASE UNCHANGED monitor
  BY <1>2 DEF MonitorSteps
<1>3. ASSUME NEW r \in Requests, ReceiveTxId(r)
      PROVE  MonitorSteps
  <2>1. monitor[r] = "none" /\ monitor' = [monitor EXCEPT ![r] = "polling"]
    BY <1>3 DEF ReceiveTxId, RequestsOK, RequestOK, Agrees, Sending
  <2>2. QED
    BY <1>1, <2>1 DEF MonitorSteps
<1>4. ASSUME NEW r \in Requests, PollSettles(r) \/ TimesOut(r) \/ PollThrows(r)
      PROVE  MonitorSteps
  <2>1. monitor[r] = "polling" /\ monitor' = [monitor EXCEPT ![r] = "ended"]
    BY <1>4 DEF PollSettles, TimesOut, PollThrows
  <2>2. QED
    BY <1>1, <2>1 DEF MonitorSteps
<1>5. CASE ServiceStops
  BY <1>5 DEF ServiceStops, MonitorSteps
<1>6. ASSUME NEW r \in Requests, Progress(r)
      PROVE  UNCHANGED monitor \/ ReceiveTxId(r)
  BY <1>6 DEF Progress, Receive, ReadHeight, ReadPaused, ReadEnvironment, Read, ReadStrategy,
     EndStrategies, ReadVault, VaultMissing, ReadPool, ReadConfig, ReadAllocation, Recommend,
     Propose, ReadRegistry, EvaluationPasses, EvaluationFails, Conclude, Recheck, ReadGate, Broadcast
<1>7. ASSUME NEW r \in Requests, Throws(r)
      PROVE  UNCHANGED monitor \/ PollThrows(r)
  BY <1>7 DEF Throws, EvaluationUnavailable, Conclude, SubmissionThrows, ReadThrows
<1>8. CASE AgentStep
  BY <1>2, <1>3, <1>4, <1>5, <1>6, <1>7, <1>8 DEF AgentStep, MonitorReturns
<1>9. CASE ~AgentStep
  BY <1>2, <1>9 DEF PipelineNext, Mining, MineSuccess, MineNothing, EndTransaction, ChainStep,
     agentVars, pipelineVars
<1>10. QED
  BY <1>8, <1>9

(* One request at a time gets nearer to its end, or all that are under way *)
(* are answered at once.                                                   *)
LEMMA JobsGoOn ==
  ASSUME RequestsOK, ProbesOK, [PipelineNext]_pipelineVars
  PROVE  \A r \in Requests : job'[r] = job[r] \/ Nearer(job'[r], job[r])
<1> DEFINE Good == \A r \in Requests : job'[r] = job[r] \/ Nearer(job'[r], job[r])
<1>1. job \in [Requests -> Job]
  BY DEF RequestsOK, PipelineTypeOK
<1>2. ASSUME NEW r \in Requests, Nearer(job'[r], job[r]) /\ JobSteps(r)
      PROVE  Good
  BY <1>2 DEF JobSteps
<1>3. CASE UNCHANGED job
  BY <1>3
<1>4. ASSUME NEW r \in Requests, Progress(r)
      PROVE  Good
  <2>1. Nearer(job'[r], job[r]) /\ JobSteps(r)
    BY <1>4, ReadsGetNearer, DecisionsGetNearer DEF Progress
  <2>2. QED
    BY <1>2, <2>1
<1>5. ASSUME NEW r \in Requests, MonitorReturns(r)
      PROVE  Good
  BY <1>3, <1>5 DEF MonitorReturns, PollSettles, TimesOut
<1>6. ASSUME NEW r \in Requests, Throws(r)
      PROVE  Good
  <2>1. CASE PollThrows(r)
    BY <1>3, <2>1 DEF PollThrows
  <2>2. CASE ~PollThrows(r)
    <3>1. Nearer(job'[r], job[r]) /\ JobSteps(r)
      BY <1>6, <2>2, DecisionsGetNearer DEF Throws
    <3>2. QED
      BY <1>2, <3>1
  <2>3. QED
    BY <2>1, <2>2
<1>7. CASE ServiceStops
  <2>1. ASSUME NEW r \in Requests
        PROVE  job'[r] = job[r] \/ Nearer(job'[r], job[r])
    <3>1. job'[r] = IF InProgress(r) THEN Answered ELSE job[r]
      BY <1>7 DEF ServiceStops
    <3>2. InProgress(r) => job[r].at # "answered"
      BY DEF InProgress
    <3>3. QED
      BY <1>1, <3>1, <3>2, AnsweringIsNearer
  <2>2. QED
    BY <2>1
<1>8. CASE AgentStep
  BY <1>4, <1>5, <1>6, <1>7, <1>8 DEF AgentStep
<1>9. CASE ~AgentStep
  BY <1>3, <1>9 DEF PipelineNext, Mining, MineSuccess, MineNothing, EndTransaction, ChainStep,
     agentVars, pipelineVars
<1>10. QED
  BY <1>8, <1>9

(* No request asks for ever: of the calls that may be left to a request,   *)
(* at most 23 times one more than the strategies there can be, every step  *)
(* of its takes at least one away, nothing gives one back, and its monitor *)
(* begins and ends once.  With that each call settles (PipelineFairness)   *)
(* this is RequestsEnd.                                                    *)
THEOREM RequestsGoForward == PipelineSpec => []CallsBounded /\ [][GoesForward]_pipelineVars
<1>1. PipelineInit => ProbesOK
  <2> SUFFICES ASSUME PipelineInit, NEW r \in Requests
               PROVE  job[r].probe \in 0 .. MaxStrategies
    BY DEF ProbesOK
  <2>1. job[r].probe = 0
    BY DEF PipelineInit, AgentInit, JobAt
  <2>2. QED
    BY <2>1, StrategyAssumption
<1>2. PipelineInv /\ ProbesOK /\ [PipelineNext]_pipelineVars => ProbesOK'
  BY JobsGoOn DEF ProbesOK, Nearer, PipelineInv
<1>3. PipelineInv /\ ProbesOK => CallsBounded
  BY CallsLeftType DEF PipelineInv, RequestsOK, PipelineTypeOK, ProbesOK, CallsBounded
<1>4. PipelineInv /\ ProbesOK /\ PipelineInv' /\ [PipelineNext]_pipelineVars => GoesForward
  <2> SUFFICES ASSUME RequestsOK, ProbesOK, RequestsOK', [PipelineNext]_pipelineVars,
                      NEW r \in Requests
               PROVE  /\ job'[r] # job[r] => CallsLeft(job'[r]) < CallsLeft(job[r])
                      /\ monitor'[r] # monitor[r] =>
                           <<monitor[r], monitor'[r]>> \in {<<"none", "polling">>, <<"polling", "ended">>}
    BY DEF GoesForward, PipelineInv
  <2>1. job[r] \in Job /\ job'[r] \in Job /\ job[r].probe \in 0 .. MaxStrategies
    BY DEF RequestsOK, PipelineTypeOK, ProbesOK
  <2>2. job'[r] # job[r] => CallsLeft(job'[r]) < CallsLeft(job[r])
    BY <2>1, JobsGoOn, NearerIsFewer
  <2>3. QED
    BY <2>2, MonitorsGoOn DEF MonitorSteps
<1>5. QED
  BY <1>1, <1>2, <1>3, <1>4, PipelineInvariant, PTL DEF PipelineSpec
=============================================================================
