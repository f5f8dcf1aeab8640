---------------------------- MODULE StacksChain ----------------------------
(***************************************************************************)
(* What the contracts take from the chain they run on: the block height,   *)
(* the chain id, and the token ledgers (native STX and SIP-010 tokens).    *)
(* None of it is code of this repository; it is modelled from how the      *)
(* contracts use it (stacks-block-height, chain-id, stx-transfer?,         *)
(* sip-010 transfer).                                                      *)
(*                                                                         *)
(* A transaction is one step.  A Clarity transaction that meets an error   *)
(* is rolled back as a whole, so a failing call is a stuttering step and   *)
(* an action of these modules is the successful run of one public          *)
(* function; an arithmetic overflow aborts the transaction too, which is   *)
(* why no action needs a width: every product the contracts form is of     *)
(* amounts that a token supply bounds, and an oversized input fails a      *)
(* guard here just as it aborts there.                                     *)
(***************************************************************************)
EXTENDS Naturals, FiniteSets

CONSTANTS
  Principals,         \* wallets: users, vault owners, the admin, executors
  Deployer,           \* the wallet that deployed the contracts
  VAULT,              \* the account of the contract sovereignty-vault-v7
  StrategyContracts,  \* contracts implementing strategy-trait-v4
  SbtcTokens,         \* SIP-010 token contracts the admin may approve as sBTC
  Absent,             \* Clarity's none
  MainnetChain,       \* chain-id = u1
  MaxVaults,          \* bound: vaults created in an exploration
  MaxHeight,          \* bound: the last block height explored
  InitialHoldings     \* bound: what each wallet holds of each token at first

Assets == {"STX", "SBTC"}
Tokens == {"STX"} \cup SbtcTokens
VaultIds == 1 .. MaxVaults

(* 100% in basis points, the denominator of every share of a pool. *)
BPS == 10000

Accounts == Principals \cup StrategyContracts \cup {VAULT}

ASSUME ChainAssumption ==
  /\ Deployer \in Principals
  /\ VAULT \notin Principals \cup StrategyContracts
  /\ Principals \cap StrategyContracts = {}
  /\ Absent \notin Accounts \cup Tokens
  /\ "STX" \notin SbtcTokens
  /\ MainnetChain \in BOOLEAN
  /\ MaxVaults \in Nat
  /\ MaxHeight \in Nat
  /\ InitialHoldings \in Nat

(* Addresses are a version and 160 bits of hash, tokens are deployed.      *)
ASSUME FiniteAssumption == IsFiniteSet(Principals) /\ IsFiniteSet(SbtcTokens)

VARIABLES
  height,    \* stacks-block-height
  holdings   \* holdings[t][x]: units of token t that account x owns

chainVars == <<height, holdings>>

ChainTypeOK ==
  /\ height \in Nat
  /\ holdings \in [Tokens -> [Accounts -> Nat]]

ChainInit ==
  /\ height = 1
  /\ holdings = [t \in Tokens |->
                   [x \in Accounts |-> IF x \in Principals THEN InitialHoldings ELSE 0]]

(* The tokens in which an asset of a vault may be held. *)
TokensOf(a) == IF a = "STX" THEN {"STX"} ELSE SbtcTokens

(* stx-transfer? and the SIP-010 transfer: an error for a zero amount, for *)
(* the sender as recipient and for more than the sender owns.              *)
Transfer(t, from, to, amount) ==
  /\ amount > 0
  /\ from # to
  /\ holdings[t][from] >= amount
  /\ holdings' = [holdings EXCEPT ![t][from] = @ - amount, ![t][to] = @ + amount]

NewBlock ==
  /\ height < MaxHeight
  /\ height' = height + 1
  /\ UNCHANGED holdings

(* A wallet sends tokens straight to the vault contract, past its          *)
(* functions: the contract must not take them for a deposit.               *)
Donate(p, t, amount) ==
  /\ Transfer(t, p, VAULT, amount)
  /\ UNCHANGED height
=============================================================================
