---------------------------- MODULE DecisionLog -----------------------------
(***************************************************************************)
(* agent/src/store.ts: the file of decision records, which the agent       *)
(* server and the web server (lib/server/agentCore.ts) both read, change   *)
(* and rewrite whole, and what the pipeline and the pages make of it.      *)
(* A process runs the calls of the store to their end, but the file is     *)
(* emptied before it is filled, and the two processes are not excluded.    *)
(***************************************************************************)
EXTENDS Integers, SequencesExt

CONSTANTS
  Hosts,            \* the processes that run the pipeline
  ExecutingHosts,   \* those with the /execute route
  MaxLog,           \* 500
  MaxRuns,          \* bound: runs of the pipeline
  MaxTip,           \* bound: height of the chain
  MaxCrashes,       \* bound: processes that end, and reads that fail
  Window,           \* the blocks an intent is good for
  Torn,             \* a file that is empty or partly written
  Nothing

ASSUME LogAssumption ==
  /\ ExecutingHosts \subseteq Hosts
  /\ {MaxLog, MaxTip} \subseteq Nat \ {0} /\ {MaxRuns, MaxCrashes, Window} \subseteq Nat

VARIABLES
  file,        \* decisions.json: Torn, or the records, newest first
  work,        \* work[h]: the rewrite that h is in, or Nothing
  runs,        \* runs[i]: what the i-th run of the pipeline knows
  tip,         \* the height of the chain
  reply,       \* of the request for the records that is under way: their deadlines, or Nothing
  history,     \* the deadlines of the records that a page shows as expired
  mishaps,
  disturbed    \* two processes have been in the file at once, or one ended in it

fileVars == <<file, work, runs, disturbed>>
readVars == <<reply, history>>
logVars == <<fileVars, readVars, tip, mishaps>>

(* "REJECTED" stands for every outcome of the evaluation that ends the run *)
(* (also TESTNET_BLOCKED), "EXECUTED" for either end of a transaction.     *)
Statuses == {"RECOMMENDED", "VALIDATING", "VALIDATED", "REJECTED", "SUBMITTED", "EXECUTED"}

(* A record is of the current vault contract or of a former one; one       *)
(* without an intent has no deadline.                                      *)
DecisionRecords ==
  [id: 0 .. MaxRuns, former: BOOLEAN, deadline: (0 .. MaxTip + Window) \cup {Nothing}, status: Statuses]

ASSUME RecordsAssumption ==
  /\ Torn \notin Seq(DecisionRecords)
  /\ Nothing \notin Nat \cup [records: Seq(DecisionRecords), emptied: BOOLEAN]

(* What the file held before; a process that never ran finds no file.      *)
Earlier == [id |-> 0, former |-> TRUE, deadline |-> 1, status |-> "REJECTED"]

DecisionLogInit ==
  /\ file \in {<<>>, <<Earlier>>}
  /\ work = [h \in Hosts |-> Nothing]
  /\ runs = <<>>
  /\ tip = 1 /\ mishaps = 0 /\ disturbed = FALSE
  /\ reply = Nothing /\ history = {}

Mishap == mishaps < MaxCrashes /\ mishaps' = mishaps + 1

(* load(): what can not be parsed is no record. *)
Load == IF file = Torn THEN <<>> ELSE file

Bounded(s) == SubSeq(s, 1, Min({MaxLog, Len(s)}))

(* Every call of the store begins with load. *)
Enters(h) ==
  /\ work[h] = Nothing
  /\ disturbed' = (disturbed \/ \E g \in Hosts : work[g] # Nothing)
  /\ UNCHANGED <<file, readVars, tip, mishaps>>

(* persist(records) is under way. *)
Rewriting(h, records) == work' = [work EXCEPT ![h] = [records |-> records, emptied |-> FALSE]]

(* Fault: the bound is applied before the record is put in front. *)
RecordDecisionUnbounded(h, r) == Rewriting(h, <<r>> \o Bounded(Load))

(* Fault: new records are put at the end. *)
RecordDecisionLast(h, r) == Rewriting(h, Bounded(Append(Load, r)))

RecordDecision(h, r) == Rewriting(h, Bounded(<<r>> \o Load))

Empty(h) ==
  /\ work[h] # Nothing /\ ~work[h].emptied
  /\ file' = Torn
  /\ work' = [work EXCEPT ![h].emptied = TRUE]
  /\ UNCHANGED <<runs, disturbed, readVars, tip, mishaps>>

Fill(h) ==
  /\ work[h] # Nothing /\ work[h].emptied
  /\ file' = work[h].records
  /\ work' = [work EXCEPT ![h] = Nothing]
  /\ UNCHANGED <<runs, disturbed, readVars, tip, mishaps>>

-----------------------------------------------------------------------------
(* The pipeline's use of the log (pipeline.ts).  A run's status is that of *)
(* the record in its hands: updated ?? record.  noted is no part of the    *)
(* code's state: the log held the record when it was last updated.         *)

NewRun(h, status) == [host |-> h, at |-> "recorded", status |-> status, noted |-> TRUE]

StartRun(h) ==
  LET id == Len(runs) + 1 IN
  /\ id <= MaxRuns
  /\ Enters(h)
  /\ \E status \in {"RECOMMENDED", "VALIDATING"} :
       /\ RecordDecision(h, [id |-> id, former |-> FALSE, status |-> status,
                             deadline |-> IF status = "VALIDATING" THEN tip + Window ELSE Nothing])
       /\ runs' = Append(runs, [NewRun(h, status) EXCEPT
                                  !.at = IF status = "VALIDATING" THEN "recorded" ELSE "over"])

(* Fault: the caller's copy is changed whether the log has the record or not. *)
AfterUpdateAnyway(run, found, status, at) ==
  [run EXCEPT !.at = at, !.noted = found, !.status = status]

AfterUpdate(run, found, status, at) ==
  [run EXCEPT !.at = at, !.noted = found, !.status = IF found THEN status ELSE @]

UpdateDecision(i, status, at) ==
  LET h == runs[i].host
      idx == {k \in DOMAIN Load : Load[k].id = i}
  IN
  /\ Enters(h)
  /\ runs' = [runs EXCEPT ![i] = AfterUpdate(@, idx # {}, status, at)]
  /\ IF idx = {} THEN UNCHANGED work
     ELSE Rewriting(h, [k \in DOMAIN Load |->
                          IF k = Min(idx) THEN [Load[k] EXCEPT !.status = status] ELSE Load[k]])

(* The evaluation on chain and the gate are over. *)
Decide(i) ==
  /\ runs[i].at = "recorded"
  /\ \E status \in {"REJECTED", "VALIDATED"} : UpdateDecision(i, status, "decided")

(* executeValidatedIntent goes on with a VALIDATED record only, and has    *)
(* broadcast the transaction when it notes it.                             *)
Submit(i) ==
  /\ runs[i].at = "decided" /\ runs[i].status = "VALIDATED" /\ runs[i].host \in ExecutingHosts
  /\ UpdateDecision(i, "SUBMITTED", "submitted")

(* The monitor's result, after the answer. *)
Settle(i) ==
  /\ runs[i].at = "submitted"
  /\ \E status \in {"EXECUTED", "VALIDATED"} : UpdateDecision(i, status, "over")

(* The process ends, with the runs it had. *)
Crash(h) ==
  /\ \E i \in DOMAIN runs : runs[i].host = h /\ runs[i].at # "over"
  /\ work' = [work EXCEPT ![h] = Nothing]
  /\ runs' = [i \in DOMAIN runs |-> IF runs[i].host = h THEN [runs[i] EXCEPT !.at = "over"]
                                                        ELSE runs[i]]
  /\ disturbed' = (disturbed \/ work[h] # Nothing)
  /\ Mishap
  /\ UNCHANGED <<file, readVars, tip>>

-----------------------------------------------------------------------------
(* GET /api/decisions: the log is read first, the tip afterwards. *)

(* listDecisions(): records of former deployments are left out.  Of the    *)
(* others, those with an intent have a deadline.                           *)
ListDecisions ==
  /\ reply = Nothing
  /\ reply' = {r.deadline : r \in {q \in Range(Load) : ~q.former /\ q.deadline # Nothing}}
  /\ UNCHANGED <<fileVars, history, tip, mishaps>>

(* Fault: the deadline's own block counts as past. *)
ExpiredAtDeadline(deadline) == deadline <= tip

Expired(deadline) == deadline < tip

(* withExpiry(): when the tip can not be read nothing is marked. *)
WithExpiry ==
  /\ reply # Nothing
  /\ \/ history' = {d \in reply : Expired(d)} /\ UNCHANGED mishaps
     \/ history' = {} /\ Mishap
  /\ reply' = Nothing
  /\ UNCHANGED <<fileVars, tip>>

NextBlock == tip < MaxTip /\ tip' = tip + 1 /\ UNCHANGED <<fileVars, readVars, mishaps>>

Writes ==
  \/ \E h \in Hosts : StartRun(h) \/ Empty(h) \/ Fill(h) \/ Crash(h)
  \/ \E i \in DOMAIN runs : Decide(i) \/ Submit(i) \/ Settle(i)

Lists ==
  \/ ListDecisions
  \/ WithExpiry
  \/ NextBlock

-----------------------------------------------------------------------------
(* What the log is as one value: a rewrite takes effect when the file is   *)
(* emptied for it.                                                         *)
LogNow ==
  IF file # Torn THEN file
  ELSE LET filling == {h \in Hosts : work[h] # Nothing /\ work[h].emptied}
       IN IF filling = {} THEN <<>> ELSE work[CHOOSE h \in filling : TRUE].records

Atomic == INSTANCE AtomicLog
            WITH log <- LogNow, LogBound <- MaxLog, LogRecords <- DecisionRecords
=============================================================================
