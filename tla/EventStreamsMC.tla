--------------------------- MODULE EventStreamsMC ---------------------------
(* The instance of EventStreams that TLC checks. *)
EXTENDS EventStreams
CONSTANTS x1, x2
=============================================================================
