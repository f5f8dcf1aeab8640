------------------------- MODULE ServiceProperties --------------------------
(***************************************************************************)
(* The services beside the chain, which share no state: the decision log,  *)
(* the caches of market data, the chat, the feed of what happened, the     *)
(* page that asks for recommendations and the page of strategies.  A       *)
(* behaviour is one of each; a run looks at one at a time.                 *)
(***************************************************************************)
EXTENDS DecisionLog, MarketCaches, ChatStream, ActivityFeed, RecommendationPanel, StrategyExplorer

CONSTANTS
  Services,         \* the services a run looks at
  MaxListedRuns     \* bound: runs of the pipeline while the log is also listed

VARIABLE service

servicesVars == <<service, logVars, marketVars, chatVars, feedVars, panelVars, explorerVars>>

(* One of the initial states of the feed. *)
AnyFeed ==
  LET who == CHOOSE a \in Viewers : \E v \in DOMAIN OwnerOf : OwnerOf[v] = a
      owned == {v \in DOMAIN OwnerOf : OwnerOf[v] = who}
  IN << <<>>, CHOOSE d \in Decided : TRUE, who,
        [i \in 1 .. MaxFeedLoads |-> IF i = 1 THEN [NewFeedLoad("mine", who, owned, owned)
                                                    EXCEPT !.began = 0] ELSE NotLoaded] >>

ServicesInit ==
  /\ service \in Services
  /\ DecisionLogInit /\ MarketInit /\ ChatInit /\ FeedInit /\ PanelInit /\ ExplorerInit
  /\ service \notin {"log", "history"} => file = <<>>
  /\ service # "ecosystem" => \A p \in Protocols : deployed[p] = None
  /\ service # "chat" => hasKey
  /\ service = "feed" \/ <<events, decided, viewer, feedLoads>> = AnyFeed
  /\ service # "panel" => records = 0

ServicesNext ==
  /\ UNCHANGED service
  /\ \/ /\ \/ service = "log" /\ Writes
           \/ service = "history" /\ (Lists \/ (Writes /\ Len(runs') <= MaxListedRuns))
        /\ UNCHANGED <<marketVars, chatVars, feedVars, panelVars, explorerVars>>
     \/ /\ (service = "price" /\ PriceNext) \/ (service = "ecosystem" /\ EcosystemNext)
        /\ UNCHANGED <<logVars, chatVars, feedVars, panelVars, explorerVars>>
     \/ /\ service = "chat" /\ ChatNext
        /\ UNCHANGED <<logVars, marketVars, feedVars, panelVars, explorerVars>>
     \/ /\ service = "feed" /\ FeedNext
        /\ UNCHANGED <<logVars, marketVars, chatVars, panelVars, explorerVars>>
     \/ /\ service = "panel" /\ PanelNext
        /\ UNCHANGED <<logVars, marketVars, chatVars, feedVars, explorerVars>>
     \/ /\ service = "explorer" /\ ExplorerNext
        /\ UNCHANGED <<logVars, marketVars, chatVars, feedVars, panelVars>>

ServicesSpec == ServicesInit /\ [][ServicesNext]_servicesVars /\ ChatFairness

-----------------------------------------------------------------------------
(* The decision log. *)

(* As long as the two processes are never in the file at once, and none    *)
(* ends in it, the file is one value to which records are added and in     *)
(* which they are changed, however it is emptied and filled again          *)
(* (store.ts:21-50): nothing is lost but what the bound drops.             *)
LogIsAtomic ==
  Atomic!LogInit /\ [][disturbed' \/ Atomic!LogNext]_LogNow

(* Whatever the processes do to each other, and wherever one ends, the log *)
(* has each record once, newest first, and in no state that its run had    *)
(* not reached: at worst it is older or gone.                              *)
LogNeverInvents ==
  file # Torn =>
    /\ \A j, k \in DOMAIN file : j < k => file[j].id > file[k].id
    /\ \A k \in DOMAIN file : file[k].id > 0 =>
         /\ file[k].id \in DOMAIN runs
         /\ file[k].status = "SUBMITTED" => runs[file[k].id].at \in {"submitted", "over"}
         /\ file[k].status = "EXECUTED" => runs[file[k].id].at = "over"

(* A run whose record was gone when its validation was noted (dropped by   *)
(* the bound, overwritten by the other process, or read from a torn file)  *)
(* does not go on to execute (updated ?? record, pipeline.ts:128-145).     *)
ExecutesOnlyLogged ==
  \A i \in DOMAIN runs : runs[i].at = "decided" /\ runs[i].status = "VALIDATED" => runs[i].noted

(* A record shown as expired has an intent that the execution engine will  *)
(* refuse from now on (deadline >= height): the mark, computed after the   *)
(* records were read, and by another module, is never premature.           *)
ExpiredForGood ==
  \A deadline \in history : ~(deadline >= tip)

(* What is read of the log was true of some moment of the runs, what the   *)
(* pages add to it stays true, and nothing is executed that it lost.       *)
LogHonest == LogNeverInvents /\ ExecutesOnlyLogged /\ ExpiredForGood

-----------------------------------------------------------------------------
(* The caches. *)

(* Nothing but a plausible price is ever answered ("never an invented      *)
(* number"), and with it the change that the market made, whichever        *)
(* provider won and however it puts it; an unmarked one is fresh and a     *)
(* marked one less than an hour (and the wait for the fetch that failed)   *)
(* old, however requests share fetches (stx-price/route.ts:22-23, 37-125). *)
PriceHonest ==
  \A c \in Clients : quoted[c] # None =>
    /\ quoted[c].usd \in 1 .. 999
    /\ \E m \in Markets :
         /\ m.last = quoted[c].usd /\ m.open > 0
         /\ quoted[c].change.num * m.open = (m.last - m.open) * 100 * quoted[c].change.den
    /\ IF quoted[c].stale THEN quoted[c].shown - quoted[c].at < StaleMax + FetchTimeout
                          ELSE quoted[c].shown - quoted[c].at < Fresh

(* "a definitive 404 from Hiro is the only thing that yields exists:false" *)
(* (ecosystem/route.ts:11-15): a protocol listed as not deployed, without  *)
(* the mark of an old or a failed check, was not deployed within the time  *)
(* that the mark allows.                                                   *)
NotFoundIsReal ==
  listed # None => \A p \in Protocols :
    LET l == listed[p] IN
    ~l.exists /\ ~l.unreachable /\ ~l.stale =>
      deployed[p] = None \/ l.shown - deployed[p] < 2 * Fresh + FetchTimeout

(* The strategies page keeps what it loaded when a later load fails        *)
(* ("NEVER clear data that was already loaded", StrategyExplorer.tsx:25),  *)
(* counts no value that it does not show, and puts unread ones last.       *)
ListKept ==
  /\ PageSays = "protocols" <=> listLoads.good > 0
  /\ PageSays = "unreachable" => listLoads.failed > 0
  /\ listing # Void =>
       LET cards == Cards(Explored) IN
       /\ ToSet(cards) = Explored
       /\ \A k \in DOMAIN cards :
            LET usd == listing[cards[k]].usd IN
            IF usd = Void THEN k > Stats.reporting ELSE usd <= Stats.combined

(* A drawer is of its protocol, and in the end has an analysis or says     *)
(* that there is none, whatever fails; no text sends the reader to another *)
(* domain (strategyAnalysis.ts:43-66).  Left out are drawers opened while  *)
(* another's analysis was under way, which may show that one.              *)
DrawerOfProtocol ==
  /\ drawer.analysis # Void => drawer.analysis.text # "foreign"
  /\ selected # Void /\ ~crossed =>
       /\ ValueLocked # Void => ValueLocked.of = selected.id
       /\ "analysis" \in Perspective => drawer.analysis.of = selected.id
       /\ Perspective \in {{p} : p \in IF Awaited = {} THEN {"analysis", "unavailable"} ELSE {"loading"}}

(* What people are shown of the market was read, and is as old as it says. *)
MarketHonest == PriceHonest /\ NotFoundIsReal /\ ListKept /\ DrawerOfProtocol

(* "The only numeric facts asserted as "current" are ones this function    *)
(* actually just verified" (strategyAnalysis.ts:87-91): the value locked   *)
(* that an analysis reports, and the drawer shows as "live, via            *)
(* DefiLlama", is DefiLlama's.                                             *)
FiguresVerified ==
  drawer.analysis # Void /\ drawer.analysis.tvl # Void => drawer.analysis.tvl.by = "DefiLlama"

-----------------------------------------------------------------------------
(* The chat. *)

(* A reply whose stream the server ended is no longer pending: every way   *)
(* to fail on the server says so before it ends (ChatWidget.tsx:47-64).    *)
EndedMeansSettled ==
  ~streaming => \A i \in DOMAIN replies : replies[i].cut \/ ~replies[i].pending

(* A reply that is over and has no error is the model's whole reply, in    *)
(* order: one that broke off is marked.                                    *)
WholeUnlessMarked ==
  ~streaming /\ replies # <<>> /\ ~Last(replies).cut /\ ~Last(replies).error =>
    server = "finished" /\ Last(replies).content = [k \in 1 .. pieces |-> k]

(* However the model, the context or the route fails, in whatever order    *)
(* its events arrive: the user is told, and is told the truth.             *)
ChatHonest == EndedMeansSettled /\ WholeUnlessMarked

(* The user can always write again, in time. *)
ChatFrees == streaming ~> ~streaming

-----------------------------------------------------------------------------
(* The feed.  A load says whose it was, and how long the log was when it   *)
(* began and when it read its last page.                                   *)

(* Whose doing, or whose vault, a row is. *)
Wanted(a, e) ==
  /\ e.vault \in a.ids
  /\ a.scope = "vault" \/ e.vault \in a.owned \/ e.by = a.viewer

RowsShown == IF OnTab THEN Rows ELSE Feed

(* Rows are real, of the vaults and the people they may be shown for, with *)
(* their time unless that was not read, newest first.                      *)
NoRowInvented ==
  activity # NotLoaded =>
    /\ \A k \in DOMAIN activity.rows :
         LET r == activity.rows[k] IN
         /\ Wanted(activity, events[r.n])
         /\ r.time = events[r.n].height \/ r.n \in activity.unread
    /\ \A k \in DOMAIN RowsShown : k > 1 => RowsShown[k - 1].time >= RowsShown[k].time

(* Though the log grows between pages, what was in it when the load began  *)
(* and is within the pages that were read is shown, unless the feed is     *)
(* full of what is not older (activity.ts:44-153, by offset); and where    *)
(* "no activity yet" is said there was none.                               *)
NoGap ==
  (activity # NotLoaded /\ ~activity.failed /\ activity.unread = {}) =>
    \A n \in 1 .. activity.began :
      n > activity.last - MaxPages[activity.scope] * PageSize /\ Wanted(activity, events[n]) =>
        /\ (IF OnTab THEN TabSays ELSE FeedSays) # "no activity yet"
        /\ \/ \E k \in DOMAIN RowsShown : RowsShown[k].n = n
           \/ /\ ~OnTab
              /\ Cardinality({k \in DOMAIN Feed : Feed[k].time >= events[n].height}) >= Limit

(* At rest the dashboard's feed is of the account and the list it stands   *)
(* under, in whatever order the loads of both ended                        *)
(* (dashboard/page.tsx:59-77).                                             *)
FeedOfViewer ==
  ( /\ ~OnTab /\ viewer # Nobody /\ treasuries # NotLoaded /\ treasuries.who = viewer
    /\ \A i \in DOMAIN feedLoads : feedLoads[i] = NotLoaded )
  => /\ activity.viewer = viewer /\ activity.ids = treasuries.ids
     /\ treasuries.ids # {} => decisions.viewer = viewer /\ decisions.ids = treasuries.ids

(* What the feed tells people happened did, is theirs to see, and is all.  *)
FeedHonest == NoRowInvented /\ NoGap /\ FeedOfViewer

-----------------------------------------------------------------------------
(* The recommendation page: what it shows is of the last run, which says   *)
(* of either part what came or that it failed; its record is in the        *)
(* history shown below, unless the first reading of the history was        *)
(* overtaken; and no request waits for a core that nobody loads            *)
(* (recommendations/page.tsx:31-66, agentCore.ts:93-100).                  *)
PanelHonest ==
  /\ (~running /\ run > 0) =>
       /\ (panel.analysis = Unset <=> panel.runError)
       /\ (panel.latest = Unset <=> panel.guardrailError)
  /\ panel.analysis \in {Unset, run}
  /\ panel.latest # Unset =>
       /\ panel.latest.run = run
       /\ (~running /\ ~overtaken) => HistoryShown # "none yet"
       /\ (~running /\ ~overtaken /\ HistoryShown = "records") =>
            panel.latest.record <= panel.history
  /\ panel.history # Unset => panel.history <= records
  /\ (\E r \in Requests : asks[r].at = "core") => core = "loading"
=============================================================================
