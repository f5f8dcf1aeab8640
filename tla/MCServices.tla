----------------------------- MODULE MCServices -----------------------------
(***************************************************************************)
(* Runs of the services beside the chain.                                  *)
(***************************************************************************)
EXTENDS ServiceProperties

(* Two markets whose figures are plausible, one unheard of, and two that   *)
(* report no price a day ago, or none now.                                 *)
SomeProviders == <<"percent", "fraction", "open">>
SomeMarkets ==
  {[last |-> 3, open |-> 4], [last |-> 999, open |-> 998], [last |-> 1000, open |-> 999],
   [last |-> 1, open |-> 0], [last |-> 0, open |-> 1]}

(* Two people, of whom each has a vault; alice also acts in bob's. *)
CONSTANTS alice, bob
SomeViewers == {alice, bob}
SomeOwners == <<alice, bob>>
SomeDoings ==
  {[vault |-> 1, by |-> Nobody], [vault |-> 2, by |-> alice], [vault |-> 2, by |-> bob]}
SomeDecided == {<<>>, <<[vault |-> 2, time |-> 1]>>}
(* Two protocols, in every state, with and without locked value. *)
SomeListings ==
  LET card(status, usd) == [status |-> status, usd |-> usd]
  IN {<<card("exists", 1), card("exists", 2)>>, <<card("unreachable", Void), card("missing", 0)>>}
SomePages == [mine |-> 2, vault |-> 3]
=============================================================================
