------------------------ MODULE MCRouteExecution ------------------------
(* Instances of RouteExecution for TLC.  Fees of 0.4, 1 and 1.6 cents      *)
(* against a limit of 3 cents: two of the larger ones do not fit, and      *)
(* rounding to cents goes both ways.                                       *)
EXTENDS RouteExecution

SomeFees == {400000, 1000000, 1600000}
OneFee   == {2000000}
=============================================================================
