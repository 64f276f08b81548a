-------------------------------- MODULE MCVrp --------------------------------
(* Two jobs, hence tours of three legs: the fewest that overflow a duration *)
(* when all of them are unreachable.                                        *)
EXTENDS VrpService

MCObjective == {"distance", "co2"}
MCLegCO2 == {1, 2}
=============================================================================
