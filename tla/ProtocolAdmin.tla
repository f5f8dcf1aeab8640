--------------------------- MODULE ProtocolAdmin ---------------------------
(***************************************************************************)
(* contracts/sovereignty-protocol-admin-v4.clar: the protocol admin, its   *)
(* two-step transfer, and the protocol-wide emergency pause.               *)
(***************************************************************************)
EXTENDS StacksChain

VARIABLES
  admin,           \* the current admin
  pendingAdmin,    \* the nominee of a transfer under way, or Absent
  protocolPaused   \* the emergency pause

adminVars == <<admin, pendingAdmin, protocolPaused>>

AdminTypeOK ==
  /\ admin \in Principals
  /\ pendingAdmin \in Principals \cup {Absent}
  /\ protocolPaused \in BOOLEAN

AdminInit ==
  /\ admin = Deployer
  /\ pendingAdmin = Absent
  /\ protocolPaused = FALSE

IsAdmin(who) == who = admin

ProposeAdmin(sender, newAdmin) ==
  /\ IsAdmin(sender)
  /\ newAdmin # admin
  /\ pendingAdmin' = newAdmin
  /\ UNCHANGED <<admin, protocolPaused>>

AcceptAdmin(sender) ==
  /\ pendingAdmin # Absent
  /\ sender = pendingAdmin
  /\ admin' = sender
  /\ pendingAdmin' = Absent
  /\ UNCHANGED protocolPaused

PauseProtocol(sender) ==
  /\ IsAdmin(sender)
  /\ ~protocolPaused
  /\ protocolPaused' = TRUE
  /\ UNCHANGED <<admin, pendingAdmin>>

UnpauseProtocol(sender) ==
  /\ IsAdmin(sender)
  /\ protocolPaused
  /\ protocolPaused' = FALSE
  /\ UNCHANGED <<admin, pendingAdmin>>
=============================================================================
