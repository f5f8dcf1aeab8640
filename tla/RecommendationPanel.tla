------------------------ MODULE RecommendationPanel -------------------------
(***************************************************************************)
(* vault/[id]/recommendations/page.tsx with the routes it calls in the web *)
(* server (api/vaults/[id]/...) and the agent's core that all routes share *)
(* (lib/server/agentCore.ts).  A run asks for an analysis of the ecosystem *)
(* and for a recommendation; what either says is other modules', here a    *)
(* result is the number of its run, and the log the number of its records. *)
(***************************************************************************)
EXTENDS Integers

CONSTANTS
  MaxAnalyses,   \* bound: runs of the analysis on this page
  MaxOthers,     \* bound: records of other pages
  MaxFaults,     \* bound: requests that fail, and loads of the core that do
  Unset

ASSUME PanelAssumption ==
  /\ {MaxAnalyses, MaxOthers, MaxFaults} \subseteq Nat
  /\ Unset \notin Nat \cup [run: Nat, record: Nat]

VARIABLES
  core,        \* the core's promise: "none", "loading" or "loaded"
  records,     \* the records of this vault in the decision log
  asks,        \* asks[r]: how far request r is, and what it brings back
  running, run,
  panel,       \* history, analysis, latest and the three errors
  counted,     \* of other pages' records and of faults, for their bounds
  overtaken    \* the first reading of the history was overtaken by a later one

panelVars == <<core, records, asks, running, run, panel, counted, overtaken>>

(* The history when the page opens and after a run; a run's two parts.     *)
Requests == {"first", "again", "analysis", "recommendation"}

NotAsked == [at |-> "none", brings |-> 0]

(* Fault: the promise of a failed load is kept. *)
CoreKept == "failed"

(* A failed init is not cached. *)
CoreAfterFailure == "none"

(* agentCore(): the first request loads the core, the others wait. *)
Ask(rs) ==
  /\ asks' = [r \in Requests |->
                IF r \in rs THEN [at |-> IF core = "loaded" THEN "work" ELSE "core", brings |-> 0]
                ELSE asks[r]]
  /\ core' = IF core = "none" THEN "loading" ELSE core

PanelInit ==
  /\ core = "loading" /\ records \in {0, 1}
  /\ asks = [r \in Requests |-> IF r = "first" THEN [at |-> "core", brings |-> 0] ELSE NotAsked]
  /\ running = FALSE /\ run = 0
  /\ panel = [history |-> Unset, historyError |-> FALSE, analysis |-> Unset, runError |-> FALSE,
              latest |-> Unset, guardrailError |-> FALSE]
  /\ counted = [others |-> 0, faults |-> 0] /\ overtaken = FALSE

-----------------------------------------------------------------------------
(* The server. *)

Fault == counted.faults < MaxFaults /\ counted' = [counted EXCEPT !.faults = @ + 1]

CoreLoads ==
  /\ core = "loading"
  /\ core' = "loaded"
  /\ asks' = [r \in Requests |-> IF asks[r].at = "core" THEN [asks[r] EXCEPT !.at = "work"]
                                                        ELSE asks[r]]
  /\ UNCHANGED <<records, running, run, panel, counted, overtaken>>

(* Every request that waited fails with it. *)
CoreFails ==
  /\ core = "loading"
  /\ core' = CoreAfterFailure
  /\ asks' = [r \in Requests |-> IF asks[r].at = "core" THEN [asks[r] EXCEPT !.at = "failed"]
                                                        ELSE asks[r]]
  /\ Fault
  /\ UNCHANGED <<records, running, run, panel, overtaken>>

Works(r, from, to, brings) ==
  /\ asks[r].at = from
  /\ asks' = [asks EXCEPT ![r] = [at |-> to, brings |-> brings]]
  /\ UNCHANGED <<core, running, run, panel, overtaken>>

ServeHistory(r) ==
  Works(r, "work", "answered", records) /\ UNCHANGED <<records, counted>>

ServeAnalysis == Works("analysis", "work", "answered", 0) /\ UNCHANGED <<records, counted>>

(* runRecommendation enters its record in the log before it ends.          *)
WriteRecord ==
  /\ Works("recommendation", "work", "recorded", records + 1)
  /\ records' = records + 1 /\ UNCHANGED counted

ServeRecommendation ==
  /\ Works("recommendation", "recorded", "answered", asks["recommendation"].brings)
  /\ UNCHANGED <<records, counted>>

(* The chain or a service throws, before or after the record.              *)
ServeFails(r) ==
  /\ \E from \in {"work", "recorded"} : Works(r, from, "failed", 0)
  /\ Fault /\ UNCHANGED records

OtherRuns ==
  /\ counted.others < MaxOthers
  /\ counted' = [counted EXCEPT !.others = @ + 1]
  /\ records' = records + 1
  /\ UNCHANGED <<core, asks, running, run, panel, overtaken>>

-----------------------------------------------------------------------------
(* The page. *)

(* Fault: what the last run left stays until there is something new.       *)
KeepsResults == [panel EXCEPT !.runError = FALSE, !.guardrailError = FALSE]

ClearsResults ==
  [panel EXCEPT !.analysis = Unset, !.runError = FALSE,
                !.latest = Unset, !.guardrailError = FALSE]

(* The buttons of the pools. *)
Offered == ~running

ClickAnalyze ==
  /\ Offered /\ run < MaxAnalyses
  /\ running' = TRUE /\ run' = run + 1
  /\ panel' = ClearsResults
  /\ Ask({"analysis", "recommendation"})
  /\ UNCHANGED <<records, counted, overtaken>>

Over(r) == asks[r].at \in {"answered", "failed"}

(* Fault: one rejection is the whole run's. *)
SettledTogether ==
  LET good == asks["analysis"].at = "answered" /\ asks["recommendation"].at = "answered"
  IN [panel EXCEPT
        !.analysis = IF good THEN run ELSE Unset, !.runError = ~good,
        !.latest = IF good THEN [run |-> run, record |-> asks["recommendation"].brings] ELSE Unset]

(* Promise.allSettled: neither failure hides the other's result.           *)
SettledApart ==
  LET eco == asks["analysis"].at = "answered"
      rec == asks["recommendation"].at = "answered"
  IN [panel EXCEPT
        !.analysis = IF eco THEN run ELSE Unset, !.runError = ~eco,
        !.latest = IF rec THEN [run |-> run, record |-> asks["recommendation"].brings] ELSE Unset,
        !.guardrailError = ~rec]

(* Both are settled; after a recommendation the history is read again,     *)
(* and the run goes on until it has been.                                  *)
RunSettles ==
  /\ running /\ Over("analysis") /\ Over("recommendation")
  /\ panel' = SettledApart
  /\ IF asks["recommendation"].at = "answered"
     THEN /\ asks' = [r \in Requests |-> CASE r = "first" -> asks[r]
                                           [] r = "again" -> [at |-> "work", brings |-> 0]
                                           [] OTHER -> NotAsked]
          /\ UNCHANGED running
     ELSE /\ asks' = [asks EXCEPT !["analysis"] = NotAsked, !["recommendation"] = NotAsked]
          /\ running' = FALSE
  /\ UNCHANGED <<core, records, run, counted, overtaken>>

(* loadHistory, which is not numbered: the first one may end last.         *)
HistoryArrives(r) ==
  /\ Over(r)
  /\ panel' = IF asks[r].at = "answered"
              THEN [panel EXCEPT !.history = asks[r].brings, !.historyError = FALSE]
              ELSE [panel EXCEPT !.history = Unset, !.historyError = TRUE]
  /\ asks' = [asks EXCEPT ![r] = NotAsked]
  /\ running' = (running /\ r # "again")
  /\ overtaken' = (overtaken \/ (r = "again" /\ asks["first"].at # "none"))
  /\ UNCHANGED <<core, records, run, counted>>

(* What stands under "Recommendation history". *)
HistoryShown ==
  IF panel.history = Unset THEN IF panel.historyError THEN "unavailable" ELSE "loading"
  ELSE IF panel.history = 0 THEN "none yet" ELSE "records"

PanelNext ==
  \/ CoreLoads \/ CoreFails
  \/ \E r \in {"first", "again"} : ServeHistory(r) \/ HistoryArrives(r)
  \/ ServeAnalysis
  \/ WriteRecord \/ ServeRecommendation
  \/ \E r \in Requests : ServeFails(r)
  \/ OtherRuns
  \/ ClickAnalyze
  \/ RunSettles
=============================================================================
