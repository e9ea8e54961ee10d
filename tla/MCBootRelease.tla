--------------------------- MODULE MCBootRelease ---------------------------
(* BootRelease.tla on core 0 and two secondaries for a few cycles. *)
EXTENDS BootRelease

MCReportedStates == {"IDLE"}

=============================================================================
