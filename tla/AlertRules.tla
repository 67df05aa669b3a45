------------------------------ MODULE AlertRules ------------------------------
(***************************************************************************)
(* What internal/hub/alerts.go decides about one server: the state it      *)
(* keeps (alertState), and how one snapshot, or one silence, moves it.     *)
(* Everything here is a constant-level operator; AlertEngine and Ingest    *)
(* use them in the actions that hold the engine's mutex.                   *)
(*                                                                         *)
(* Percentages are natural numbers, which is all the comparisons need.     *)
(***************************************************************************)
EXTENDS Integers

CONSTANTS
  Usage,        \* the usage kinds: cpu, memory, disk
  StreakBound   \* where the model stops counting a streak

ASSUME RulesAssumption ==
  /\ "offline" \notin Usage
  /\ StreakBound \in Nat \ {0}

Kind == Usage \cup {"offline"}

(* A rule is what observe reads from the settings before it locks: sustain *)
(* and one threshold per kind. A sustain above StreakBound is left out, so *)
(* a saturated streak compares with every sustain as the exact count does. *)
Rule == [sustain : 1..StreakBound, threshold : [Usage -> Nat]]

AlertState == [streak : [Usage -> 0..StreakBound], firing : [Usage -> BOOLEAN],
               offline : BOOLEAN]

(* stateFor's new entry; an absent entry reads the same. *)
Fresh == [streak |-> [k \in Usage |-> 0], firing |-> [k \in Usage |-> FALSE],
          offline |-> FALSE]

(* Whether st holds the alert of kind k up. *)
Raised(st, k) == IF k = "offline" THEN st.offline ELSE st.firing[k]

Firing(k)  == [kind |-> k, state |-> "firing"]
Cleared(k) == [kind |-> k, state |-> "cleared"]
Notice == [kind : Kind, state : {"firing", "cleared"}]

-----------------------------------------------------------------------------
(* observe, between Lock and Unlock: snapshot v judged under rule r *)

Over(value, threshold) == value >= threshold

(* Definitions marked "fault:" are plausible mistakes in the definition    *)
(* that follows them; no behaviour uses them.                              *)

(* fault: clears as soon as usage is under the line *)
NoHysteresis(value, threshold) == value < threshold

(* fault: takes the margin off twice over *)
DoubledMargin(value, threshold) == value < threshold - 50

(* "a clear 5 points below the threshold" *)
WellUnder(value, threshold) == value < threshold - 5

(* fault: a push under the threshold does not end the streak *)
KeepStreak(st, v, r, k) ==
  IF Over(v[k], r.threshold[k]) /\ st.streak[k] < StreakBound
  THEN st.streak[k] + 1 ELSE st.streak[k]

NextStreak(st, v, r, k) ==
  IF ~Over(v[k], r.threshold[k]) THEN 0
  ELSE IF st.streak[k] < StreakBound THEN st.streak[k] + 1 ELSE StreakBound

(* fault: fires one push early *)
StartsEarly(st, v, r, k) ==
  Over(v[k], r.threshold[k]) /\ st.streak[k] + 2 >= r.sustain /\ ~st.firing[k]

(* fault: misses its turn when sustain is lowered in the middle of a streak *)
StartsAtExactly(st, v, r, k) ==
  Over(v[k], r.threshold[k]) /\ NextStreak(st, v, r, k) = r.sustain /\ ~st.firing[k]

Starts(st, v, r, k) ==
  /\ Over(v[k], r.threshold[k])
  /\ NextStreak(st, v, r, k) >= r.sustain
  /\ ~st.firing[k]

Ends(st, v, r, k) ==
  /\ ~Over(v[k], r.threshold[k])
  /\ st.firing[k]
  /\ WellUnder(v[k], r.threshold[k])

Observed(st, v, r) ==
  [streak  |-> [k \in Usage |-> NextStreak(st, v, r, k)],
   firing  |-> [k \in Usage |-> (st.firing[k] \/ Starts(st, v, r, k))
                                  /\ ~Ends(st, v, r, k)],
   offline |-> FALSE]

(* The events observe queues to send once it has unlocked. Their fixed     *)
(* order (offline, cpu, memory, disk) is left out: they are a set.         *)
ObserveNotices(st, v, r) ==
  (IF st.offline THEN {Cleared("offline")} ELSE {})
    \cup {Firing(k) : k \in {u \in Usage : Starts(st, v, r, u)}}
    \cup {Cleared(k) : k \in {u \in Usage : Ends(st, v, r, u)}}

-----------------------------------------------------------------------------
(* checkOffline, between Lock and Unlock, for a server found down or not *)

SilenceJudged(st, down) == [st EXCEPT !.offline = @ \/ down]

(* fault: announces the silence on every tick *)
SilenceNoticesEveryTick(st, down) ==
  IF down THEN {Firing("offline")} ELSE {}

SilenceNotices(st, down) ==
  IF down /\ ~st.offline THEN {Firing("offline")} ELSE {}

-----------------------------------------------------------------------------
(* A tally counts, per kind, "firing" notices minus "cleared" ones. *)

NoTally == [k \in Kind |-> 0]

Counted(tally, notices) ==
  [k \in Kind |-> tally[k] + (IF Firing(k) \in notices THEN 1 ELSE 0)
                           - (IF Cleared(k) \in notices THEN 1 ELSE 0)]
=============================================================================
