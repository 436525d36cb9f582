---------------------------- MODULE MCScenarios ----------------------------
(* An instance of Scenarios for TLC: every fixture a script starts from. *)
EXTENDS Scenarios

NoFlags == {{}}
Fixed == FixtureNames
=============================================================================
