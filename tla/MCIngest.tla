------------------------------- MODULE MCIngest -------------------------------
(***************************************************************************)
(* Ingest on one server and two goroutines for its pushes.                 *)
(***************************************************************************)
EXTENDS Ingest, TLC

Symmetric == Permutations(Handler)

MCCalm == {[k \in Usage |-> 50]}
MCReading == [Usage -> {50, 95}]
MCDefaults == [enabled |-> TRUE, sustain |-> 1, threshold |-> [k \in Usage |-> 90]]
MCQuiet == [MCDefaults EXCEPT !.enabled = FALSE]
=============================================================================
