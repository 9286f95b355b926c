---------------------------- MODULE MCUnitQueue ----------------------------
(* Values of the constants of UnitQueue for TLC. *)
EXTENDS UnitQueue

Returned(o) == [threw |-> FALSE, outcome |-> o]
Thrown(o) == [threw |-> TRUE, outcome |-> o]

\* A success, a failure of the provider, an explicit stop.
MCResults == {Returned("ok"), Thrown("provider_failure"), Thrown("fleet_stop")}
=============================================================================
