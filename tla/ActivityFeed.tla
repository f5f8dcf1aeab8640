---------------------------- MODULE ActivityFeed ----------------------------
(***************************************************************************)
(* lib/activity.ts and what shows it: the dashboard's recent activity      *)
(* (app/dashboard/page.tsx) and the activity tab of one vault              *)
(* (vault/[id]/activity/page.tsx).  The vault contract has one event log   *)
(* for all vaults; it is read newest first in pages by offset, while it    *)
(* grows, filtered here, and shown together with decisions of the agent.   *)
(* An event is a transaction of its own; a block's height is its time.     *)
(***************************************************************************)
EXTENDS Integers, SequencesExt, FiniteSetsExt

CONSTANTS
  Viewers,       \* accounts that connect, and act
  OwnerOf,       \* the owner of each vault
  Doings,        \* what may happen: in which vault, and by whom as the event says
  PageSize,      \* PAGE
  MaxPages,      \* maxPages: [mine |-> of the dashboard, vault |-> of the tab]
  Limit,         \* limit, and the rows of the dashboard's feed
  AiRows,        \* decisions that may enter the feed
  Decided,       \* the decisions that the agent may have logged, newest first
  MaxEvents,     \* bound: events of the log
  MaxFeedLoads,  \* bound: loads under way at a time
  MaxSurprises,  \* bound: changes of account or list, and reads that fail
  Nobody,        \* no account
  NotLoaded

Vaults == DOMAIN OwnerOf
Accounts == Viewers \cup {Nobody}

FeedLoads ==
  [scope: {"mine", "vault"}, viewer: Accounts, ids: SUBSET Vaults, owned: SUBSET Vaults,
   page: Nat, got: Seq(Nat), chain: {"pages", "times", "over"}, ai: {"asked", "over"},
   began: Nat, last: Nat]

Activities ==
  [scope: {"mine", "vault"}, viewer: Accounts, ids: SUBSET Vaults, owned: SUBSET Vaults,
   began: Nat, last: Nat, unread: SUBSET Nat, failed: BOOLEAN, rows: Seq([n: Nat, time: Nat])]

AgentRows == Seq([vault: Vaults, time: Nat])

AgentFeeds == [viewer: Accounts, ids: SUBSET Vaults, rows: AgentRows]

ASSUME FeedAssumption ==
  /\ OwnerOf \in [Vaults -> Viewers]
  /\ Doings \subseteq [vault: Vaults, by: Accounts]
  /\ Decided \subseteq AgentRows
  /\ {PageSize, Limit, MaxPages.mine, MaxPages.vault, MaxFeedLoads} \subseteq Nat \ {0}
  /\ AiRows \in Nat
  /\ NotLoaded \notin FeedLoads \cup Activities \cup AgentFeeds

VARIABLES
  events,      \* the contract's log, oldest first
  decided,     \* the agent's decisions, newest first
  viewer,      \* stxAddress, or Nobody
  treasuries,  \* the list of useMyVaults: of whom, which vaults, which of them owned; or NotLoaded
  feedLoads,   \* feedLoads[i]: the load in slot i, or NotLoaded
  activity,    \* what the last load of events that was not cancelled left, or NotLoaded
  decisions,   \* the same of decisions
  surprises

shownVars == <<activity, decisions>>
feedVars == <<events, decided, viewer, treasuries, feedLoads, shownVars, surprises>>

Height == IF events = <<>> THEN 0 ELSE Last(events).height

Surprise == surprises < MaxSurprises /\ surprises' = surprises + 1

-----------------------------------------------------------------------------
(* What a load reads. *)

(* flatten: every event has its vault, and whoever deposited, redeemed or  *)
(* configured; a rebalance names nobody.                                   *)
Emits ==
  /\ Len(events) < MaxEvents
  /\ \E e \in Doings :
       events' = Append(events, [vault |-> e.vault, by |-> e.by, height |-> Height + 1])
  /\ UNCHANGED <<decided, viewer, treasuries, feedLoads, shownVars, surprises>>

(* One page: the numbers of its events. *)
LogPage(page) ==
  LET newest == Len(events) - page * PageSize
  IN {n \in 1 .. newest : n > newest - PageSize}

Ascending(numbers) ==
  CHOOSE s \in [1 .. Cardinality(numbers) -> numbers] :
    \A j, k \in DOMAIN s : j < k => s[j] < s[k]

(* Fault: everything in a vault is shown to whoever has shares of it. *)
KeptOfAnyone(l, e) == e.vault \in l.ids

(* Of a vault that the viewer does not own, only what they did themselves; *)
(* on a vault's own tab everything that happened in it.                    *)
Kept(l, e) ==
  /\ e.vault \in l.ids
  /\ l.scope = "vault" \/ e.vault \in l.owned \/ e.by = l.viewer

(* began and last are no part of the code's state: the length of the log   *)
(* when the load began and when its last page was read.                    *)
NewFeedLoad(scope, who, ids, owned) ==
  [scope |-> scope, viewer |-> who, ids |-> ids, owned |-> owned, page |-> 0, got |-> <<>>,
   chain |-> "pages", ai |-> "asked", began |-> Len(events), last |-> 0]

-----------------------------------------------------------------------------
(* The dashboard's effect: [stxAddress, idsKey, updatedAt]. *)

ListOf(who) ==
  LET owned == {v \in DOMAIN OwnerOf : OwnerOf[v] = who}
      acted == {events[k].vault : k \in {j \in DOMAIN events : events[j].by = who}}
  IN [who |-> who, ids |-> owned \cup acted, owned |-> owned]

(* Fault: the clean-up of the effect is missing. *)
NotCancelled(slots) == slots

(* What a cancelled load still reads shows nowhere: it ends here.          *)
Cancelled(slots) == [i \in DOMAIN slots |-> NotLoaded]

(* The clean-up, and the effect over the account and the list that are     *)
(* rendered next.  What was shown stays until the new load has ended.      *)
FeedEffect(who, list) ==
  LET slots == Cancelled(feedLoads)
      free == {i \in DOMAIN slots : slots[i] = NotLoaded}
      none == list = NotLoaded \/ list.ids = {}
  IN IF who = Nobody \/ none
     THEN /\ decisions' = NotLoaded
          /\ activity' = IF none /\ list # NotLoaded
                         THEN [scope |-> "mine", viewer |-> who, ids |-> {}, owned |-> {}, began |-> 0,
                               last |-> 0, unread |-> {}, failed |-> FALSE, rows |-> <<>>]
                         ELSE NotLoaded
          /\ feedLoads' = slots
     ELSE /\ free # {}
          /\ feedLoads' = [slots EXCEPT ![Min(free)] = NewFeedLoad("mine", who, list.ids, list.owned)]
          /\ UNCHANGED shownVars

(* Disconnecting clears the list; another account keeps it until the load  *)
(* of its own has ended.                                                   *)
SwitchViewer(who) ==
  /\ who # viewer
  /\ viewer' = who
  /\ treasuries' = IF who = Nobody THEN NotLoaded ELSE treasuries
  /\ FeedEffect(who, treasuries')
  /\ Surprise
  /\ UNCHANGED <<events, decided>>

(* A load of the list ends, perhaps one that a former account began.       *)
ListLoads(who) ==
  /\ viewer # Nobody
  /\ treasuries' = ListOf(who)
  /\ FeedEffect(viewer, treasuries')
  /\ Surprise
  /\ UNCHANGED <<events, decided, viewer>>

-----------------------------------------------------------------------------
(* getRecentActivity and getVaultEvents. *)

InFeedLoad(i, part) == feedLoads[i] # NotLoaded /\ feedLoads[i].chain = part

(* Fault: a page of which little is kept counts as the end of the log. *)
LastPageKept(l, page, kept) == Cardinality(kept) < PageSize \/ l.page + 1 = MaxPages[l.scope]

(* A short page, or the last one that is read. *)
LastPage(l, page, kept) == Cardinality(page) < PageSize \/ l.page + 1 = MaxPages[l.scope]

ReadPage(i) ==
  LET l == feedLoads[i]
      page == LogPage(l.page)
      kept == {n \in page : Kept(l, events[n])}
  IN
  /\ InFeedLoad(i, "pages")
  /\ feedLoads' = [feedLoads EXCEPT ![i] =
       [l EXCEPT !.page = @ + 1, !.last = Len(events), !.got = @ \o Reverse(Ascending(kept)),
                 !.chain = IF LastPage(l, page, kept) THEN "times" ELSE "pages"]]
  /\ UNCHANGED <<events, decided, viewer, treasuries, shownVars, surprises>>

(* Newest first; what is of one time keeps its order. *)
Newest(rows) ==
  LET Before(j, k) == rows[j].time > rows[k].time \/ (rows[j].time = rows[k].time /\ j < k)
      order == CHOOSE o \in [DOMAIN rows -> DOMAIN rows] :
                 \A j, k \in DOMAIN o : j < k => Before(o[j], o[k])
  IN [k \in DOMAIN rows |-> rows[order[k]]]

Top(rows, n) == [k \in 1 .. Min({n, Len(rows)}) |-> rows[k]]

Leaves(i, l) ==
  feedLoads' = [feedLoads EXCEPT ![i] = IF {l.chain, l.ai} = {"over"} THEN NotLoaded ELSE l]

EventsShown(l, rows, unread, failed) ==
  activity' = [scope |-> l.scope, viewer |-> l.viewer, ids |-> l.ids, owned |-> l.owned,
               began |-> l.began, last |-> l.last, unread |-> unread, failed |-> failed,
               rows |-> rows]

(* The dashboard looks up the times of twice the rows it shows, puts them  *)
(* in order and keeps the newest.                                          *)
Ordered(scope, rows) ==
  IF scope = "mine" THEN Top(Newest(Top(rows, 2 * Limit)), Limit) ELSE Newest(rows)

(* A row of an event; n is its number in the log. *)
ChainRow(n, unread) ==
  [n |-> n, time |-> IF n \in unread THEN 0 ELSE events[n].height]

(* The transactions have been looked up; one that was not read has no time *)
(* and comes last.                                                         *)
TimesArrive(i) ==
  LET l == feedLoads[i] IN
  /\ InFeedLoad(i, "times")
  /\ \E unread \in {{}} \cup {{n} : n \in Range(l.got)} :
       /\ IF unread = {} THEN UNCHANGED surprises ELSE Surprise
       /\ LET rows == [k \in DOMAIN l.got |-> ChainRow(l.got[k], unread)]
          IN EventsShown(l, Ordered(l.scope, rows), unread, FALSE)
  /\ Leaves(i, [feedLoads[i] EXCEPT !.chain = "over"])
  /\ UNCHANGED <<events, decided, viewer, treasuries, decisions>>

(* A page that can not be read ends the load with no rows. *)
PagesFail(i) ==
  /\ InFeedLoad(i, "pages")
  /\ EventsShown(feedLoads[i], <<>>, {}, TRUE)
  /\ Leaves(i, [feedLoads[i] EXCEPT !.chain = "over"])
  /\ Surprise
  /\ UNCHANGED <<events, decided, viewer, treasuries, decisions>>

DecidedIn(ids) ==
  LET kept == Ascending({k \in DOMAIN decided : decided[k].vault \in ids})
  IN [k \in DOMAIN kept |-> decided[kept[k]]]

(* getAllDecisions, of which the vaults of the load are kept; none when it *)
(* fails.                                                                  *)
DecisionsArrive(i) ==
  LET l == feedLoads[i] IN
  /\ l # NotLoaded /\ l.ai = "asked"
  /\ \E failed \in BOOLEAN :
       /\ IF failed THEN Surprise ELSE UNCHANGED surprises
       /\ decisions' = [viewer |-> l.viewer, ids |-> l.ids,
                        rows |-> IF failed THEN <<>> ELSE DecidedIn(l.ids)]
  /\ Leaves(i, [feedLoads[i] EXCEPT !.ai = "over"])
  /\ UNCHANGED <<events, decided, viewer, treasuries, activity>>

(* A row of the agent's; n = 0, as it is no event. *)
AiRow(d) == [n |-> 0, time |-> d.time]

(* The memo that merges both. *)
Feed ==
  LET chain == IF activity = NotLoaded THEN <<>> ELSE activity.rows
      ai == IF decisions = NotLoaded THEN <<>> ELSE Top(decisions.rows, AiRows)
  IN Top(Newest(chain \o [k \in DOMAIN ai |-> AiRow(ai[k])]), Limit)

OnTab ==
  \/ \E i \in DOMAIN feedLoads : feedLoads[i] # NotLoaded /\ feedLoads[i].scope = "vault"
  \/ activity # NotLoaded /\ activity.scope = "vault"

(* The tab shows all rows of both. *)
Rows ==
  LET chain == IF activity = NotLoaded THEN <<>> ELSE activity.rows
      ai == IF decisions = NotLoaded THEN <<>> ELSE decisions.rows
  IN Newest(chain \o [k \in DOMAIN ai |-> AiRow(ai[k])])

(* An empty feed of the dashboard waits only for the events. *)
FeedSays ==
  IF Feed # <<>> THEN "rows"
  ELSE IF activity = NotLoaded THEN "loading" ELSE "no activity yet"

(* An empty tab waits for both. *)
TabSays ==
  IF Rows # <<>> THEN "rows"
  ELSE IF NotLoaded \in {activity, decisions} THEN "loading" ELSE "no activity yet"

-----------------------------------------------------------------------------
(* The dashboard of an account whose list has just arrived, or the tab of  *)
(* a vault that has just been opened.                                      *)
FeedInit ==
  /\ events \in {<<>>} \cup {<<[vault |-> e.vault, by |-> e.by, height |-> 1]>> : e \in Doings}
  /\ decided \in Decided
  /\ surprises = 0
  /\ activity = NotLoaded /\ decisions = NotLoaded
  /\ viewer \in Viewers
  /\ treasuries = ListOf(viewer)
  /\ treasuries.ids # {}
  /\ \E load \in {NewFeedLoad("mine", viewer, treasuries.ids, treasuries.owned)} \cup
                 {NewFeedLoad("vault", viewer, {v}, {}) : v \in DOMAIN OwnerOf} :
       feedLoads = [i \in 1 .. MaxFeedLoads |-> IF i = 1 THEN load ELSE NotLoaded]

FeedNext ==
  \/ Emits
  \/ ~OnTab /\ \E who \in Viewers \cup {Nobody} : SwitchViewer(who) \/ ListLoads(who)
  \/ \E i \in DOMAIN feedLoads : ReadPage(i) \/ TimesArrive(i) \/ PagesFail(i) \/ DecisionsArrive(i)
=============================================================================
