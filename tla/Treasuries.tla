----------------------------- MODULE Treasuries -----------------------------
(***************************************************************************)
(* hooks/useMyVaults.ts: the dashboard's list of the vaults that the       *)
(* connected account owns or holds shares of, from the indexes the vault   *)
(* contract keeps.  A load is three rounds of calls; loads are not         *)
(* numbered, so the one that ends last decides what is shown.              *)
(***************************************************************************)
EXTENDS OwnerPages

CONSTANT MaxLoads   \* bound: loads under way at a time

ASSUME TreasuriesAssumption == MaxLoads \in Nat \ {0}

VARIABLES
  list,      \* who it was loaded for, the role in each vault, and what the load began with
  loads      \* loads[i]: the load in slot i, or Absent

treasuryVars == <<list, loads>>

(* owned and held are Unknown until that index is read.  begun is no part  *)
(* of the code's state: the ids in both indexes when the load began.       *)
NewLoad(who) ==
  [who |-> who, owned |-> Unknown, held |-> Unknown,
   begun |-> [owned |-> GetOwnerVaultIds(who), held |-> GetHolderVaultIds(who)]]

NoTreasuries == [who |-> Absent, roles |-> <<>>, begun |-> [owned |-> {}, held |-> {}]]

NoLoads == [i \in 1 .. MaxLoads |-> Absent]

FreeSlots == {i \in 1 .. MaxLoads : loads[i] = Absent}

(* refresh() of an account begins; without one it clears the list at once. *)
BeginLoad(who) ==
  IF who = Absent
  THEN list' = NoTreasuries /\ UNCHANGED loads
  ELSE /\ FreeSlots # {}
       /\ loads' = [loads EXCEPT ![Min(FreeSlots)] = NewLoad(who)]
       /\ UNCHANGED list

Underway(i) == loads[i] # Absent

ReadOwned(i) ==
  /\ Underway(i) /\ loads[i].owned = Unknown
  /\ loads' = [loads EXCEPT ![i].owned = GetOwnerVaultIds(loads[i].who)]
  /\ UNCHANGED list

ReadHeld(i) ==
  /\ Underway(i) /\ loads[i].held = Unknown
  /\ loads' = [loads EXCEPT ![i].held = GetHolderVaultIds(loads[i].who)]
  /\ UNCHANGED list

(* Fault: whoever holds shares is shown as a holder. *)
RoleOfHolder(l, v) ==
  CASE v \in l.held -> "holder"
    [] OTHER -> "owner"

RoleOf(l, v) ==
  CASE v \in l.owned /\ v \in l.held -> "owner+holder"
    [] v \in l.owned /\ v \notin l.held -> "owner"
    [] OTHER -> "holder"

(* The overviews of the vaults in either index have arrived; one of a      *)
(* vault that does not exist is left out.                                  *)
ShowLoad(i) ==
  LET l == loads[i]
      found == {v \in l.owned \cup l.held : GetVaultMeta(v) # Absent}
  IN
  /\ Underway(i) /\ Unknown \notin {l.owned, l.held}
  /\ list' = [who |-> l.who, roles |-> [v \in found |-> RoleOf(l, v)], begun |-> l.begun]
  /\ loads' = [loads EXCEPT ![i] = Absent]

(* A call throws; what is shown stays. *)
LoadFails(i) ==
  /\ Underway(i)
  /\ loads' = [loads EXCEPT ![i] = Absent]
  /\ UNCHANGED list

(* Fault: the interval keeps the refresh it was first given. *)
AutoRefreshOfShown == account # Absent /\ list.who # Absent /\ BeginLoad(list.who)

(* The interval, every 45 s of a visible tab. *)
AutoRefresh == account # Absent /\ BeginLoad(account)

-----------------------------------------------------------------------------
(* What the dashboard makes of the treasuries it has loaded: the cards     *)
(* with their quick actions (components/vault/VaultCard.tsx), the tabs     *)
(* over them (components/dashboard/PortfolioSection.tsx), the claims, the  *)
(* checklist and the items under "Needs attention"                         *)
(* (app/dashboard/page.tsx).  All are functions of the list and of the     *)
(* overviews, which are taken as the chain is now.                         *)

Listed == DOMAIN list.roles

OverviewOf(v) ==
  LET assets == SupportedAssets(vaults[v].assets) IN
  [meta |-> GetVaultMeta(v),
   pools |-> [a \in assets |-> GetPool(v, a)],
   positions |-> [a \in assets |-> GetPosition(v, a, list.who)]]

(* The three tabs; they are offered when neither of the last two is empty. *)
Tab(filter) ==
  CASE filter = "all" -> Listed
    [] filter = "owned" -> {v \in Listed : list.roles[v] # "holder"}
    [] filter = "deposited" -> {v \in Listed : list.roles[v] # "owner"}

TabsOffered == Tab("owned") # {} /\ Tab("deposited") # {}

Owned == Tab("owned")

ViewerHoldsShares(o) == \E a \in DOMAIN o.positions : o.positions[a].shares > 0

(* Fault: the role is not looked at. *)
DepositOfferedToAll(v) == ~OverviewOf(v).meta.paused

(* The quick actions of a card. *)
DepositOffered(v) ==
  (OverviewOf(v).meta.openDeposits \/ v \in Owned) /\ ~OverviewOf(v).meta.paused

RedeemOffered(v) == ViewerHoldsShares(OverviewOf(v))

(* Of one pool on a card, in 1/100 %: "yours", "idle", "in strategies". *)
CardFigures(v, a) ==
  LET pool == OverviewOf(v).pools[a] IN
  [yours |-> PercentOf(OverviewOf(v).positions[a].shares, pool.supply),
   idle |-> PercentOf(pool.idle, pool.total),
   deployed |-> PercentOf(pool.total - pool.idle, pool.total)]

(* "Your STX claim", "Your sBTC claim": the sum over the cards. *)
ClaimShown(a) ==
  LET cards == {v \in Listed : a \in DOMAIN OverviewOf(v).positions}
  IN SumFunction([v \in cards |-> OverviewOf(v).positions[a].claim])

(* The item of a vault. *)
Attention(v) ==
  LET o == OverviewOf(v)
      empty == \A a \in DOMAIN o.pools : o.pools[a].total = 0
  IN CASE o.meta.paused -> IF v \in Owned THEN "unpause" ELSE "paused"
       [] ~o.meta.paused /\ v \in Owned /\ empty -> "make the first deposit"
       [] OTHER -> "none"

(* "Create a treasury" and "Make a deposit" of the checklist. *)
StepsDone ==
  {s \in {"create", "deposit"} :
     CASE s = "create" -> Owned # {}
       [] s = "deposit" -> \E v \in Listed : ViewerHoldsShares(OverviewOf(v))}

(* The first step that is not done is the one that stands out. *)
NextStep ==
  IF "create" \notin StepsDone THEN "create"
  ELSE IF "deposit" \notin StepsDone THEN "deposit" ELSE "later"
=============================================================================
