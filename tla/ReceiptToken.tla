---------------------------- MODULE ReceiptToken ----------------------------
(***************************************************************************)
(* contracts/receipt-token-v7.clar: the non-transferable receipt shares of *)
(* every vault and asset.  mint and burn answer to the vault contract      *)
(* alone (contract-caller), so they are operators of the vault's actions   *)
(* and never actions of their own; transfer always fails, so it is none.   *)
(***************************************************************************)
EXTENDS StacksChain

VARIABLES
  balances,   \* balances[v][a][h]: shares of holder h in the pool of vault v, asset a
  supplies    \* supplies[v][a]: shares in existence

receiptVars == <<balances, supplies>>

ReceiptTypeOK ==
  /\ balances \in [VaultIds -> [Assets -> [Principals -> Nat]]]
  /\ supplies \in [VaultIds -> [Assets -> Nat]]

ReceiptInit ==
  /\ balances = [v \in VaultIds |-> [a \in Assets |-> [h \in Principals |-> 0]]]
  /\ supplies = [v \in VaultIds |-> [a \in Assets |-> 0]]

Mint(v, a, amount, recipient) ==
  /\ amount > 0
  /\ balances' = [balances EXCEPT ![v][a][recipient] = @ + amount]
  /\ supplies' = [supplies EXCEPT ![v][a] = @ + amount]

(* Fault: the supply is not written back. *)
BurnLeavingSupply(v, a, amount, holder) ==
  /\ amount > 0
  /\ balances[v][a][holder] >= amount
  /\ balances' = [balances EXCEPT ![v][a][holder] = @ - amount]
  /\ UNCHANGED supplies

Burn(v, a, amount, holder) ==
  /\ amount > 0
  /\ balances[v][a][holder] >= amount
  /\ balances' = [balances EXCEPT ![v][a][holder] = @ - amount]
  /\ supplies' = [supplies EXCEPT ![v][a] = @ - amount]
=============================================================================
