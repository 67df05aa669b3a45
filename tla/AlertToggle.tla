------------------------------ MODULE AlertToggle ------------------------------
(***************************************************************************)
(* What the alert engine promises whoever reads its notices: "the engine   *)
(* only notifies on transitions, never once per tick" (alerts.go:13-14).   *)
(* An alert that is down can only be announced firing, one that is up only *)
(* cleared; a server's alerts all drop, unannounced, when it is forgotten  *)
(* or the hub restarts. tally counts firing minus cleared notices.         *)
(***************************************************************************)
EXTENDS Integers

CONSTANTS Server, Kind

VARIABLE tally   \* [Server -> [Kind -> 0..1]]

Init == tally = [s \in Server |-> [k \in Kind |-> 0]]

(* One pass of the engine over server s announces any set of transitions. *)
Announce(s) ==
  \E up \in SUBSET {k \in Kind : tally[s][k] = 0},
     down \in SUBSET {k \in Kind : tally[s][k] = 1} :
       tally' = [tally EXCEPT ![s] = [k \in Kind |->
                   IF k \in up THEN 1 ELSE IF k \in down THEN 0 ELSE @[k]]]

Forget(s) == tally' = [tally EXCEPT ![s] = [k \in Kind |-> 0]]

Restart == tally' = [s \in Server |-> [k \in Kind |-> 0]]

Next == Restart \/ \E s \in Server : Announce(s) \/ Forget(s)

Spec == Init /\ [][Next]_tally
=============================================================================
