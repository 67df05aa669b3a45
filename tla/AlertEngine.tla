----------------------------- MODULE AlertEngine -----------------------------
(***************************************************************************)
(* The alert engine of the hub (internal/hub/alerts.go) at the grain of    *)
(* its mutex: observe on every accepted push, checkOffline on its own      *)
(* timer, forget when a server is deleted, all of it lost when the hub     *)
(* restarts. Each action is one pass through the engine; what happens      *)
(* before the lock and after the unlock is interleaved in Ingest.          *)
(***************************************************************************)
EXTENDS AlertRules

CONSTANTS
  Server,       \* server ids
  Reading,      \* the usages a snapshot can report: functions of Usage
  Threshold,    \* thresholds an operator saves
  Sustain,      \* sustain counts an operator saves
  Defaults,     \* the settings the hub starts with
  MaxRestarts   \* how often the hub process is restarted

Settings == [enabled : BOOLEAN, sustain : Sustain, threshold : [Usage -> Threshold]]

ASSUME EngineAssumption ==
  /\ Reading \subseteq [Usage -> Nat]
  /\ Threshold \subseteq Nat
  /\ Sustain \subseteq 1..StreakBound
  /\ Defaults \in Settings
  /\ MaxRestarts \in Nat

VARIABLES
  settings,    \* the settings table, as far as alerts go
  usage,       \* what each host would report now
  reporting,   \* the servers whose agent is running
  seen,        \* the servers that have ever reported (last_seen # 0)
  silent,      \* the servers whose last_seen is past offlineAfter
  registered,  \* the servers in the servers table
  late,        \* deleted servers that a request begun earlier still knows
  restarts,
  alerts,      \* the engine's map of alertState
  tally,       \* history: notices decided since the entry was made
  run,         \* history: consecutive latest pushes over the threshold
  missed       \* history: servers with a push since then not evaluated

host == <<usage, reporting>>
table == <<seen, silent, registered, late, restarts>>
engine == <<alerts, tally>>
history == <<run, missed>>
vars == <<settings, host, table, engine, history>>

TypeOK ==
  /\ settings \in Settings
  /\ usage \in [Server -> Reading]
  /\ reporting \subseteq Server
  /\ seen \subseteq Server
  /\ silent \subseteq Server
  /\ registered \subseteq Server
  /\ late \subseteq Server \ registered
  /\ restarts \in 0..MaxRestarts
  /\ alerts \in [Server -> AlertState]
  /\ tally \in [Server -> [Kind -> Int]]
  /\ run \in [Server -> [Usage -> 0..StreakBound]]
  /\ missed \subseteq Server

Init ==
  /\ settings = Defaults
  /\ usage \in [Server -> Reading]
  /\ reporting = {} /\ seen = {} /\ silent = {}
  /\ registered = Server /\ late = {} /\ restarts = 0
  /\ alerts = [s \in Server |-> Fresh]
  /\ tally = [s \in Server |-> NoTally]
  /\ run = [s \in Server |-> [k \in Usage |-> 0]]
  /\ missed = {}

-----------------------------------------------------------------------------
(* The monitored hosts and the passing of time *)

UsageChanges(s) ==
  /\ \E v \in Reading : usage' = [usage EXCEPT ![s] = v]
  /\ UNCHANGED <<settings, reporting, table, engine, history>>

AgentStarts(s) ==
  /\ reporting' = reporting \cup {s}
  /\ UNCHANGED <<settings, usage, table, engine, history>>

AgentStops(s) ==
  /\ reporting' = reporting \ {s}
  /\ UNCHANGED <<settings, usage, table, engine, history>>

(* now - last_seen grows past offlineAfter. An agent that is running       *)
(* pushes more often than that; Ingest drops this assumption.              *)
TimeRunsOut(s) ==
  /\ s \in seen \ reporting
  /\ silent' = silent \cup {s}
  /\ UNCHANGED <<settings, host, seen, registered, late, restarts, engine, history>>

-----------------------------------------------------------------------------
(* One push of server s reaches the engine *)

Known(s) == s \in registered \cup late

(* fault: a push does not move last_seen once it is set *)
TouchedOnce(s) ==
  /\ seen' = seen \cup {s}
  /\ UNCHANGED <<silent, registered, late, restarts>>

(* TouchServer, on the way to the engine *)
Touched(s) ==
  /\ seen' = seen \cup {s}
  /\ silent' = silent \ {s}
  /\ UNCHANGED <<registered, late, restarts>>

(* How many pushes in a row were over the threshold, told by the arrivals. *)
Lengthened(s) ==
  [k \in Usage |-> IF ~Over(usage[s][k], settings.threshold[k]) THEN 0
                   ELSE IF run[s][k] < StreakBound THEN run[s][k] + 1
                   ELSE StreakBound]

Observe(s) ==
  /\ Known(s) /\ s \in reporting /\ settings.enabled
  /\ Touched(s)
  /\ alerts' = [alerts EXCEPT ![s] = Observed(@, usage[s], settings)]
  /\ tally' = [tally EXCEPT ![s] =
       Counted(@, ObserveNotices(alerts[s], usage[s], settings))]
  /\ run' = [run EXCEPT ![s] = Lengthened(s)]
  /\ UNCHANGED <<settings, host, missed>>

(* observe returns at once while alerts are switched off. *)
Ignore(s) ==
  /\ Known(s) /\ s \in reporting /\ ~settings.enabled
  /\ Touched(s)
  /\ run' = [run EXCEPT ![s] = Lengthened(s)]
  /\ missed' = missed \cup {s}
  /\ UNCHANGED <<settings, host, engine>>

(* fault: a server with a usage alert up is taken to be there *)
CheckOfflineQuiet(s) ==
  /\ Known(s) /\ settings.enabled
  /\ s \in seen
  /\ \A k \in Usage : ~alerts[s].firing[k]
  /\ alerts' = [alerts EXCEPT ![s] = SilenceJudged(@, s \in silent)]
  /\ tally' = [tally EXCEPT ![s] =
       Counted(@, SilenceNotices(alerts[s], s \in silent))]
  /\ UNCHANGED <<settings, host, table, history>>

(* One turn of checkOffline's loop. *)
CheckOffline(s) ==
  /\ Known(s) /\ settings.enabled
  /\ s \in seen   \* "never reported; nothing to go quiet"
  /\ alerts' = [alerts EXCEPT ![s] = SilenceJudged(@, s \in silent)]
  /\ tally' = [tally EXCEPT ![s] =
       Counted(@, SilenceNotices(alerts[s], s \in silent))]
  /\ UNCHANGED <<settings, host, table, history>>

-----------------------------------------------------------------------------
(* The operator, and the hub process *)

SaveSettings ==
  /\ \/ \E b \in BOOLEAN : settings' = [settings EXCEPT !.enabled = b]
     \/ \E n \in Sustain : settings' = [settings EXCEPT !.sustain = n]
     \/ \E k \in Usage, t \in Threshold :
          settings' = [settings EXCEPT !.threshold[k] = t]
  /\ UNCHANGED <<host, table, engine, history>>

(* handleDeleteServer: row, then engine. A push or a list of servers read  *)
(* earlier may still bring the id back to the engine.                      *)
Delete(s) ==
  /\ s \in registered
  /\ registered' = registered \ {s}
  /\ late' \in {late, late \cup {s}}
  /\ alerts' = [alerts EXCEPT ![s] = Fresh]
  /\ tally' = [tally EXCEPT ![s] = NoTally]
  /\ missed' = missed \ {s}
  /\ UNCHANGED <<settings, host, seen, silent, restarts, run>>

Settle(s) ==
  /\ s \in late
  /\ late' = late \ {s}
  /\ UNCHANGED <<settings, host, seen, silent, registered, restarts, engine, history>>

Restart ==
  /\ restarts < MaxRestarts
  /\ restarts' = restarts + 1
  /\ late' = {}
  /\ alerts' = [s \in Server |-> Fresh]
  /\ tally' = [s \in Server |-> NoTally]
  /\ missed' = {}
  /\ UNCHANGED <<settings, host, seen, silent, registered, run>>

-----------------------------------------------------------------------------
Next ==
  \/ SaveSettings \/ Restart
  \/ \E s \in Server :
       \/ UsageChanges(s) \/ AgentStarts(s) \/ AgentStops(s) \/ TimeRunsOut(s)
       \/ Observe(s) \/ Ignore(s) \/ CheckOffline(s) \/ Delete(s) \/ Settle(s)

(* A running agent pushes on a ticker (cmd/agent/main.go, run), the hub     *)
(* checks for silence on one (alerts.go, run), and time does not stop.     *)
Fairness ==
  \A s \in Server : /\ WF_vars(s \in registered /\ (Observe(s) \/ Ignore(s)))
                    /\ WF_vars(s \in registered /\ CheckOffline(s))
                    /\ WF_vars(TimeRunsOut(s))

Spec == Init /\ [][Next]_vars
FairSpec == Spec /\ Fairness

-----------------------------------------------------------------------------
(* Safety *)

(* A reader of the notices alone knows which alerts are up: for every      *)
(* server and kind the notices decided since the engine's entry was made   *)
(* add up to what the entry holds, so none is repeated and none skipped    *)
(* (observe and checkOffline both move the offline flag).                  *)
NoticesTellTheState ==
  \A s \in Server, k \in Kind :
    tally[s][k] = IF Raised(alerts[s], k) THEN 1 ELSE 0

(* The engine never counts more consecutive pushes than there were, as     *)
(* long as it evaluated every one of them: not after a restart, a delete   *)
(* or a change of threshold in the middle of a streak.                     *)
StreakIsReal ==
  \A s \in Server, k \in Usage :
    s \notin missed => alerts[s].streak[k] <= run[s][k]

(* A usage alert fires only when the last `sustain` pushes of the server   *)
(* were over the threshold, on every server none of whose pushes was       *)
(* ignored since its entry was made.                                       *)
FiresOnSustainedUse ==
  [][\A s \in Server, k \in Usage :
       /\ s \notin missed
       /\ ~alerts[s].firing[k] /\ alerts'[s].firing[k]
       => run'[s][k] >= settings.sustain]_vars

-----------------------------------------------------------------------------
(* Liveness *)

Watched(s) == s \in registered /\ settings.enabled

(* A running server that stays over a threshold is reported: from some     *)
(* point on its alert is up for good.                                      *)
SustainedUseFires ==
  \A s \in Server, k \in Usage :
    <>[](Watched(s) /\ s \in reporting /\ usage[s][k] >= settings.threshold[k])
      => <>[](alerts[s].firing[k])

(* A running server that stays well under a threshold has the alert down.  *)
RecoveredUseClears ==
  \A s \in Server, k \in Usage :
    <>[](Watched(s) /\ s \in reporting /\ usage[s][k] < settings.threshold[k] - 5)
      => <>[](~alerts[s].firing[k])

(* "a value hovering on the line does not flap between the two states"     *)
(* (alerts.go:95-96): while usage stays above threshold - 5, whatever it   *)
(* does there, the alert changes finitely often.                           *)
HoveringDoesNotFlap ==
  \A s \in Server, k \in Usage :
    <>[](Watched(s) /\ usage[s][k] >= settings.threshold[k] - 5)
      => <>[](alerts[s].firing[k]) \/ <>[](~alerts[s].firing[k])

(* A server that stops reporting is found out, and one that reports again  *)
(* is not left marked offline.                                             *)
SilenceIsNoticed ==
  \A s \in Server : <>[](Watched(s) /\ s \in seen \ reporting) => <>[](alerts[s].offline)

ReturnIsNoticed ==
  \A s \in Server : <>[](Watched(s) /\ s \in reporting) => <>[](~alerts[s].offline)
=============================================================================
