------------------------- MODULE ProcessSupervisorMC -------------------------
(* The instances of ProcessSupervisor that TLC checks.                      *)
EXTENDS ProcessSupervisor

==============================================================================
