--------------------------- MODULE MCReserveRates ----------------------------
(* Instances of ReserveRates for TLC: every history of the rates, crawled  *)
(* by the daemon or as a range.                                            *)
EXTENDS ReserveRates

Daemon == {[from |-> Unset, to |-> Unset]}
DaemonOrRange == Daemon \cup {[from |-> 1, to |-> 3]}
=============================================================================
