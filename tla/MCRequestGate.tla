--------------------------- MODULE MCRequestGate ---------------------------
(***************************************************************************)
(* Three requests for two slots of the main gate and one of the probe gate. *)
(***************************************************************************)
EXTENDS RequestGate

CONSTANTS q1, q2, q3

MCRequest == {q1, q2, q3}
MCLimit   == [main |-> 2, probe |-> 1]
=============================================================================
