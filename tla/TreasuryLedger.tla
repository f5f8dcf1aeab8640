--------------------------- MODULE TreasuryLedger ---------------------------
(***************************************************************************)
(* What the treasury promises its users, without vaults, strategies,       *)
(* shares, prices or permissions: a ledger of claims, one for one.  A      *)
(* wallet's deposit turns units of its purse into units of its claim, a    *)
(* withdrawal turns them back, and both move the same units in and out of  *)
(* what is idle in custody.  Idle units may be invested, which is at       *)
(* nobody's expense on the ledger, and anyone may make a gift, which       *)
(* nobody may claim.                                                       *)
(***************************************************************************)
EXTENDS Naturals

CONSTANTS
  Wallets,
  Custody,      \* the account that keeps the treasury's units
  Outside,      \* the accounts that take investments
  Assets,
  Amounts,
  Grants        \* Grants[a]: units of asset a that every wallet has at first

VARIABLES
  purse,        \* purse[x][a]: units of asset a that account x owns
  claim,        \* claim[h][a]: units that wallet h may claim
  idle          \* idle[a]: units of the treasury that are not invested

vars == <<purse, claim, idle>>

Init ==
  /\ purse = [x \in Wallets \cup Outside \cup {Custody} |->
                [a \in Assets |-> IF x \in Wallets THEN Grants[a] ELSE 0]]
  /\ claim = [h \in Wallets |-> [a \in Assets |-> 0]]
  /\ idle = [a \in Assets |-> 0]

Pays(from, to, a, n) ==
  /\ n > 0
  /\ n <= purse[from][a]
  /\ purse' = [purse EXCEPT ![from][a] = @ - n, ![to][a] = @ + n]

Deposit(h, a, n) ==
  /\ idle' = [idle EXCEPT ![a] = @ + n]
  /\ claim' = [claim EXCEPT ![h][a] = @ + n]
  /\ Pays(h, Custody, a, n)

Withdraw(h, a, n) ==
  /\ n <= claim[h][a]
  /\ n <= idle[a]
  /\ idle' = [idle EXCEPT ![a] = @ - n]
  /\ claim' = [claim EXCEPT ![h][a] = @ - n]
  /\ Pays(Custody, h, a, n)

(* A destination need not take the units it is offered. *)
Invest(x, a, n) ==
  /\ n <= idle[a]
  /\ idle' = [idle EXCEPT ![a] = @ - n]
  /\ UNCHANGED claim
  /\ Pays(Custody, x, a, n) \/ UNCHANGED purse

Give(h, a, n) ==
  /\ UNCHANGED <<claim, idle>>
  /\ Pays(h, Custody, a, n)

Next ==
  \E a \in Assets, n \in Amounts :
    \/ \E h \in Wallets : Deposit(h, a, n) \/ Withdraw(h, a, n) \/ Give(h, a, n)
    \/ \E x \in Outside : Invest(x, a, n)

Spec == Init /\ [][Next]_vars
=============================================================================
