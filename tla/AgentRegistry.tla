--------------------------- MODULE AgentRegistry ---------------------------
(***************************************************************************)
(* contracts/agent-registry-v4.clar: which principals may submit execution *)
(* intents for vaults whose owners allow autonomous execution.  An entry   *)
(* is never deleted, only switched between active and revoked; its label   *)
(* and registration data are not modelled.                                 *)
(***************************************************************************)
EXTENDS ProtocolAdmin

VARIABLE executors   \* executors[p]: Absent, "active" or "revoked"

AgentRegistryTypeOK == executors \in [Principals -> {Absent, "active", "revoked"}]

AgentRegistryInit == executors = [p \in Principals |-> Absent]

(* Fault: a revoked entry still counts. *)
IsKnownExecutor(who) == executors[who] # Absent

IsAuthorizedExecutor(who) == executors[who] = "active"

RegisterExecutor(sender, executor) ==
  /\ IsAdmin(sender)
  /\ executors[executor] = Absent
  /\ executors' = [executors EXCEPT ![executor] = "active"]

RevokeExecutor(sender, executor) ==
  /\ IsAdmin(sender)
  /\ executors[executor] = "active"
  /\ executors' = [executors EXCEPT ![executor] = "revoked"]

ReactivateExecutor(sender, executor) ==
  /\ IsAdmin(sender)
  /\ executors[executor] = "revoked"
  /\ executors' = [executors EXCEPT ![executor] = "active"]
=============================================================================
