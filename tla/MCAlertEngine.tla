---------------------------- MODULE MCAlertEngine ----------------------------
(***************************************************************************)
(* One server with two usage kinds. Readings lie well under, within five   *)
(* points of, and over the thresholds the operator switches between.       *)
(***************************************************************************)
EXTENDS AlertEngine

MCReading == [Usage -> {50, 87, 95}]
MCThreshold == {60, 90}
MCDefaults == [enabled |-> TRUE, sustain |-> 3, threshold |-> [k \in Usage |-> 90]]
=============================================================================
