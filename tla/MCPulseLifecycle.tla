--------------------------- MODULE MCPulseLifecycle ---------------------------
(***************************************************************************)
(* PulseLifecycle for TLC: firings that were skipped, so that all a        *)
(* completion changes is the next check.                                   *)
(***************************************************************************)
EXTENDS PulseLifecycle

MCOutcomes == {[status |-> "skipped", generated |-> FALSE, delivered |-> FALSE]}
=============================================================================
