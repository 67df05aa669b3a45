----------------------------- MODULE MCCollector -----------------------------
(* Collector, for TLC.                                                     *)
EXTENDS Collector, TLC

(* Half busy, busy, idle; more I/O wait taken back than time spent busy:   *)
(* less than, as much as and more than the time the processor was idle.    *)
MCLoad == {<<1, 1>>, <<2, 0>>, <<0, 2>>, <<-1, 2>>, <<-1, 1>>, <<-1, 0>>}

(* Nothing tells one address from another.                                 *)
Symmetric == Permutations(Address)
==============================================================================
