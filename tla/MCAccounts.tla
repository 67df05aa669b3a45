------------------------------ MODULE MCAccounts ------------------------------
EXTENDS Accounts, TLC

(* Requests are alike, and no liveness is checked. *)
Requests == Permutations(Request)
=============================================================================
