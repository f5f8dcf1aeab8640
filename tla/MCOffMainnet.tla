---------------------------- MODULE MCOffMainnet ----------------------------
(***************************************************************************)
(* The protocol off mainnet, in one of two casts: those who hold shares of *)
(* two vaults, or those who would be admin and open the gate.              *)
(***************************************************************************)
EXTENDS MCProtocol

VARIABLE cast   \* Callers of this behaviour

With(callers) == INSTANCE SovereigntyProtocol WITH Callers <- callers

OffMainnetInit == Init /\ cast \in {CustodyCallers, GovernanceCallers}

OffMainnetNext ==
  /\ \E callers \in {CustodyCallers, GovernanceCallers} : cast = callers /\ With(callers)!Next
  /\ UNCHANGED cast

OffMainnetSpec == OffMainnetInit /\ [][OffMainnetNext]_<<vars, cast>>
=============================================================================
