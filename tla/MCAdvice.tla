------------------------------ MODULE MCAdvice ------------------------------
(***************************************************************************)
(* Values for the run of the decision engine beside the contracts: pools   *)
(* of up to five units under limits that do not divide them evenly.        *)
(***************************************************************************)
EXTENDS MCProtocol, EcosystemAnalysis, RecommendationPage

UnevenParams == {Params(9000, 4, 2500, FALSE, 2), Params(3333, 4, 2500, FALSE, 2)} \cup BoundaryParams

(* A figure that is missing, a contract that is gone and one not checked;  *)
(* and a moment at which nobody answers.                                   *)
SomeChecks ==
  {[p \in Listings |-> [live |-> CASE p = 3 -> NotChecked [] p = 7 -> FALSE [] OTHER -> TRUE,
                        tvl |-> CASE p = 1 -> NotChecked [] p = 2 -> 5 [] OTHER -> 9]],
   [p \in Listings |-> [live |-> NotChecked, tvl |-> NotChecked]]}
=============================================================================
