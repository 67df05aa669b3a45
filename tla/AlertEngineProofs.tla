-------------------------- MODULE AlertEngineProofs --------------------------
(***************************************************************************)
(* What holds of the alert engine for every set of servers, usage kinds,   *)
(* thresholds and sustain counts. The inductive invariant is TypeOK,       *)
(* NoticesTellTheState and StreakIsReal together.                          *)
(***************************************************************************)
EXTENDS AlertEngine, TLAPS

-----------------------------------------------------------------------------
(* The rules *)

(* The rules keep alertState well typed: the streak stays within bounds.   *)
LEMMA ObserveKeepsType ==
  ASSUME NEW st \in AlertState, NEW v \in [Usage -> Nat],
         NEW r, r.sustain \in Nat, r.threshold \in [Usage -> Nat]
  PROVE  Observed(st, v, r) \in AlertState
<1>1. \A k \in Usage : NextStreak(st, v, r, k) \in 0..StreakBound
  BY RulesAssumption DEF NextStreak, AlertState, Over
<1> QED BY <1>1 DEF Observed, AlertState, Starts, Ends

LEMMA SilenceKeepsType ==
  ASSUME NEW st \in AlertState, NEW down \in BOOLEAN
  PROVE  SilenceJudged(st, down) \in AlertState
BY DEF SilenceJudged, AlertState

(* Fresh and NoTally agree: nothing is up and nothing has been announced.  *)
LEMMA FreshIsSilent ==
  /\ Fresh \in AlertState
  /\ \A k \in Kind : NoTally[k] = 0 /\ ~Raised(Fresh, k)
BY RulesAssumption DEF Fresh, AlertState, NoTally, Raised, Kind

(* The notices observe queues are those of the flags it changed: no alert  *)
(* that stays up or down is announced, none that moves goes unannounced.   *)
LEMMA ObserveAnnouncesChanges ==
  ASSUME NEW st \in AlertState, NEW v \in [Usage -> Nat],
         NEW r, r.sustain \in Nat, r.threshold \in [Usage -> Nat],
         NEW k \in Kind
  PROVE  /\ Firing(k) \in ObserveNotices(st, v, r)
              <=> ~Raised(st, k) /\ Raised(Observed(st, v, r), k)
         /\ Cleared(k) \in ObserveNotices(st, v, r)
              <=> Raised(st, k) /\ ~Raised(Observed(st, v, r), k)
<1> DEFINE new == Observed(st, v, r)
           notices == ObserveNotices(st, v, r)
<1>1. CASE k = "offline"
  <2>1. Firing(k) \notin notices
    BY <1>1, RulesAssumption DEF ObserveNotices, Firing, Cleared
  <2>2. Cleared(k) \in notices <=> st.offline
    BY <1>1, RulesAssumption DEF ObserveNotices, Firing, Cleared
  <2>3. ~Raised(new, k) /\ (Raised(st, k) <=> st.offline)
    BY <1>1 DEF Observed, Raised
  <2> QED BY <2>1, <2>2, <2>3
<1>2. CASE k # "offline"
  <2>1. k \in Usage
    BY <1>2 DEF Kind
  <2>2. Firing(k) \in notices <=> Starts(st, v, r, k)
    BY <1>2, <2>1 DEF ObserveNotices, Firing, Cleared
  <2>3. Cleared(k) \in notices <=> Ends(st, v, r, k)
    BY <1>2, <2>1 DEF ObserveNotices, Firing, Cleared
  <2>4. /\ Raised(st, k) = st.firing[k]
        /\ Raised(new, k) = ((st.firing[k] \/ Starts(st, v, r, k)) /\ ~Ends(st, v, r, k))
    BY <1>2, <2>1 DEF Raised, Observed
  <2>5. st.firing[k] \in BOOLEAN
    BY <2>1 DEF AlertState
  <2>6. /\ Starts(st, v, r, k) => ~st.firing[k] /\ ~Ends(st, v, r, k)
        /\ Ends(st, v, r, k) => st.firing[k]
    BY DEF Starts, Ends
  <2> QED BY <2>2, <2>3, <2>4, <2>5, <2>6
<1> QED BY <1>1, <1>2

(* The same for checkOffline, which only ever announces "offline".         *)
LEMMA SilenceAnnouncesChanges ==
  ASSUME NEW st \in AlertState, NEW down \in BOOLEAN, NEW k \in Kind
  PROVE  /\ Firing(k) \in SilenceNotices(st, down)
              <=> ~Raised(st, k) /\ Raised(SilenceJudged(st, down), k)
         /\ Cleared(k) \in SilenceNotices(st, down)
              <=> Raised(st, k) /\ ~Raised(SilenceJudged(st, down), k)
<1>1. CASE k = "offline"
  BY <1>1 DEF SilenceNotices, SilenceJudged, Firing, Cleared, Raised, AlertState
<1>2. CASE k # "offline"
  BY <1>2 DEF SilenceNotices, SilenceJudged, Firing, Cleared, Raised, AlertState
<1> QED BY <1>1, <1>2

(* So notices that announce exactly the changes keep a tally that tells    *)
(* the state telling it.                                                   *)
LEMMA TallyFollows ==
  ASSUME NEW st, NEW new, NEW notices, NEW count \in [Kind -> Int], NEW k \in Kind,
         Firing(k) \in notices <=> ~Raised(st, k) /\ Raised(new, k),
         Cleared(k) \in notices <=> Raised(st, k) /\ ~Raised(new, k),
         count[k] = IF Raised(st, k) THEN 1 ELSE 0
  PROVE  Counted(count, notices)[k] = IF Raised(new, k) THEN 1 ELSE 0
<1>1. Counted(count, notices)[k] =
        count[k] + (IF Firing(k) \in notices THEN 1 ELSE 0)
                 - (IF Cleared(k) \in notices THEN 1 ELSE 0)
  BY DEF Counted
<1>2. CASE Raised(st, k) /\ Raised(new, k)
  BY <1>1, <1>2
<1>3. CASE Raised(st, k) /\ ~Raised(new, k)
  BY <1>1, <1>3
<1>4. CASE ~Raised(st, k) /\ Raised(new, k)
  BY <1>1, <1>4
<1>5. CASE ~Raised(st, k) /\ ~Raised(new, k)
  BY <1>1, <1>5
<1> QED BY <1>2, <1>3, <1>4, <1>5

-----------------------------------------------------------------------------
(* The inductive invariant *)

IInv == TypeOK /\ NoticesTellTheState /\ StreakIsReal

(* What the settings give observe, whatever the operator saved.            *)
LEMMA SettingsAreRules ==
  ASSUME settings \in Settings
  PROVE  settings.sustain \in Nat /\ settings.threshold \in [Usage -> Nat]
<1>1. settings.sustain \in Sustain /\ settings.threshold \in [Usage -> Threshold]
  BY DEF Settings
<1>2. Sustain \subseteq Nat /\ Threshold \subseteq Nat
  BY EngineAssumption, RulesAssumption
<1> QED BY <1>1, <1>2

LEMMA InitEstablishes == Init => IInv
<1> SUFFICES ASSUME Init PROVE IInv
  OBVIOUS
<1>1. TypeOK
  <2>1. NoTally \in [Kind -> Int]
    BY DEF NoTally
  <2> QED BY <2>1, FreshIsSilent, EngineAssumption, RulesAssumption DEF Init, TypeOK
<1>2. NoticesTellTheState
  BY FreshIsSilent DEF Init, NoticesTellTheState
<1>3. StreakIsReal
  BY DEF Init, StreakIsReal, Fresh
<1> QED BY <1>1, <1>2, <1>3 DEF IInv

(* A push that is evaluated lengthens or ends the streak and the run of    *)
(* arrivals alike.                                                         *)
LEMMA StreakFollowsRun ==
  ASSUME TypeOK, NEW s \in Server, NEW k \in Usage,
         alerts[s].streak[k] <= run[s][k]
  PROVE  NextStreak(alerts[s], usage[s], settings, k) <= Lengthened(s)[k]
<1>1. /\ alerts[s].streak[k] \in 0..StreakBound
      /\ run[s][k] \in 0..StreakBound
  BY DEF TypeOK, AlertState
<1> QED BY <1>1, RulesAssumption DEF NextStreak, Lengthened

LEMMA LengthenedType ==
  ASSUME TypeOK, NEW s \in Server
  PROVE  Lengthened(s) \in [Usage -> 0..StreakBound]
<1> SUFFICES ASSUME NEW k \in Usage PROVE Lengthened(s)[k] \in 0..StreakBound
  BY DEF Lengthened
<1>1. run[s][k] \in 0..StreakBound
  BY DEF TypeOK
<1> QED BY <1>1, RulesAssumption DEF Lengthened

LEMMA ObserveKeeps ==
  ASSUME IInv, NEW s \in Server, Observe(s)
  PROVE  IInv'
<1>1. /\ settings.sustain \in Nat /\ settings.threshold \in [Usage -> Nat]
      /\ usage[s] \in [Usage -> Nat] /\ alerts[s] \in AlertState
      /\ tally[s] \in [Kind -> Int]
  BY SettingsAreRules, EngineAssumption DEF IInv, TypeOK
<1> DEFINE st == alerts[s]
           new == Observed(st, usage[s], settings)
           notices == ObserveNotices(st, usage[s], settings)
<1>2. new \in AlertState
  BY <1>1, ObserveKeepsType
<1>3. Counted(tally[s], notices) \in [Kind -> Int]
  BY <1>1 DEF Counted
<1>4. TypeOK'
  BY <1>2, <1>3, LengthenedType DEF IInv, TypeOK, Observe, Touched, host
<1>5. NoticesTellTheState'
  <2> SUFFICES ASSUME NEW t \in Server, NEW k \in Kind
               PROVE  tally'[t][k] = IF Raised(alerts'[t], k) THEN 1 ELSE 0
    BY DEF NoticesTellTheState
  <2>1. tally[t][k] = IF Raised(alerts[t], k) THEN 1 ELSE 0
    BY DEF IInv, NoticesTellTheState
  <2>2. CASE t = s
    <3>1. /\ Firing(k) \in notices <=> ~Raised(st, k) /\ Raised(new, k)
          /\ Cleared(k) \in notices <=> Raised(st, k) /\ ~Raised(new, k)
      BY <1>1, ObserveAnnouncesChanges
    <3>2. Counted(tally[s], notices)[k] = IF Raised(new, k) THEN 1 ELSE 0
      BY <1>1, <2>1, <2>2, <3>1, TallyFollows
    <3>3. alerts'[s] = new /\ tally'[s] = Counted(tally[s], notices)
      BY DEF Observe, IInv, TypeOK
    <3> QED BY <2>2, <3>2, <3>3
  <2>3. CASE t # s
    <3>1. alerts'[t] = alerts[t] /\ tally'[t] = tally[t]
      BY <2>3 DEF Observe, IInv, TypeOK
    <3> QED BY <2>1, <3>1
  <2> QED BY <2>2, <2>3
<1>6. StreakIsReal'
  <2> SUFFICES ASSUME NEW t \in Server, NEW k \in Usage, t \notin missed'
               PROVE  alerts'[t].streak[k] <= run'[t][k]
    BY DEF StreakIsReal
  <2>1. t \notin missed /\ alerts[t].streak[k] <= run[t][k]
    BY DEF Observe, IInv, StreakIsReal
  <2>2. CASE t = s
    <3>1. NextStreak(st, usage[s], settings, k) <= Lengthened(s)[k]
      BY <2>1, <2>2, StreakFollowsRun DEF IInv
    <3>2. alerts'[s].streak[k] = NextStreak(st, usage[s], settings, k)
      BY DEF Observe, Observed, IInv, TypeOK
    <3>3. run'[s] = Lengthened(s)
      BY DEF Observe, IInv, TypeOK
    <3> QED BY <2>2, <3>1, <3>2, <3>3
  <2>3. CASE t # s
    BY <2>1, <2>3 DEF Observe, IInv, TypeOK
  <2> QED BY <2>2, <2>3
<1> QED BY <1>4, <1>5, <1>6 DEF IInv

LEMMA CheckOfflineKeeps ==
  ASSUME IInv, NEW s \in Server, CheckOffline(s)
  PROVE  IInv'
<1> DEFINE st == alerts[s]
           down == s \in silent
           new == SilenceJudged(st, down)
           notices == SilenceNotices(st, down)
<1>1. st \in AlertState /\ tally[s] \in [Kind -> Int] /\ down \in BOOLEAN
  BY DEF IInv, TypeOK
<1>2. new \in AlertState
  BY <1>1, SilenceKeepsType
<1>3. Counted(tally[s], notices) \in [Kind -> Int]
  BY <1>1 DEF Counted
<1>4. TypeOK'
  BY <1>2, <1>3 DEF IInv, TypeOK, CheckOffline, host, table, history
<1>5. NoticesTellTheState'
  <2> SUFFICES ASSUME NEW t \in Server, NEW k \in Kind
               PROVE  tally'[t][k] = IF Raised(alerts'[t], k) THEN 1 ELSE 0
    BY DEF NoticesTellTheState
  <2>1. tally[t][k] = IF Raised(alerts[t], k) THEN 1 ELSE 0
    BY DEF IInv, NoticesTellTheState
  <2>2. CASE t = s
    <3>1. /\ Firing(k) \in notices <=> ~Raised(st, k) /\ Raised(new, k)
          /\ Cleared(k) \in notices <=> Raised(st, k) /\ ~Raised(new, k)
      BY <1>1, SilenceAnnouncesChanges
    <3>2. Counted(tally[s], notices)[k] = IF Raised(new, k) THEN 1 ELSE 0
      BY <1>1, <2>1, <2>2, <3>1, TallyFollows
    <3>3. alerts'[s] = new /\ tally'[s] = Counted(tally[s], notices)
      BY DEF CheckOffline, IInv, TypeOK
    <3> QED BY <2>2, <3>2, <3>3
  <2>3. CASE t # s
    <3>1. alerts'[t] = alerts[t] /\ tally'[t] = tally[t]
      BY <2>3 DEF CheckOffline, IInv, TypeOK
    <3> QED BY <2>1, <3>1
  <2> QED BY <2>2, <2>3
<1>6. StreakIsReal'
  <2>1. \A t \in Server : alerts'[t].streak = alerts[t].streak
    BY DEF CheckOffline, SilenceJudged, IInv, TypeOK, AlertState
  <2> QED BY <2>1 DEF IInv, StreakIsReal, CheckOffline, history
<1> QED BY <1>4, <1>5, <1>6 DEF IInv

LEMMA ForgettingKeeps ==
  ASSUME IInv, Restart \/ \E s \in Server : Delete(s)
  PROVE  IInv'
<1>1. NoTally \in [Kind -> Int]
  BY DEF NoTally
<1>2. TypeOK'
  BY <1>1, FreshIsSilent, EngineAssumption
     DEF IInv, TypeOK, Delete, Restart, host
<1>3. NoticesTellTheState'
  <2> SUFFICES ASSUME NEW t \in Server, NEW k \in Kind
               PROVE  tally'[t][k] = IF Raised(alerts'[t], k) THEN 1 ELSE 0
    BY DEF NoticesTellTheState
  <2>1. CASE alerts'[t] = Fresh /\ tally'[t] = NoTally
    BY <2>1, FreshIsSilent
  <2>2. CASE alerts'[t] = alerts[t] /\ tally'[t] = tally[t]
    BY <2>2 DEF IInv, NoticesTellTheState
  <2> QED BY <2>1, <2>2 DEF IInv, TypeOK, Delete, Restart
<1>4. StreakIsReal'
  <2> SUFFICES ASSUME NEW t \in Server, NEW k \in Usage, t \notin missed'
               PROVE  alerts'[t].streak[k] <= run'[t][k]
    BY DEF StreakIsReal
  <2>1. run'[t][k] = run[t][k] /\ run[t][k] \in 0..StreakBound
    BY DEF IInv, TypeOK, Delete, Restart
  <2>2. CASE alerts'[t] = Fresh
    BY <2>1, <2>2, RulesAssumption DEF Fresh
  <2>3. CASE alerts'[t] # Fresh
    <3>1. alerts'[t] = alerts[t] /\ t \notin missed
      BY <2>3 DEF IInv, TypeOK, Delete, Restart
    <3> QED BY <2>1, <3>1 DEF IInv, StreakIsReal
  <2> QED BY <2>2, <2>3
<1> QED BY <1>2, <1>3, <1>4 DEF IInv

LEMMA IgnoreKeeps ==
  ASSUME IInv, NEW s \in Server, Ignore(s)
  PROVE  IInv'
<1>1. TypeOK'
  BY LengthenedType DEF IInv, TypeOK, Ignore, Touched, host, engine
<1>2. NoticesTellTheState'
  BY DEF IInv, NoticesTellTheState, Ignore, engine
<1>3. StreakIsReal'
  BY DEF IInv, TypeOK, StreakIsReal, Ignore, engine
<1> QED BY <1>1, <1>2, <1>3 DEF IInv

(* The steps of the hosts, the operator's settings and the end of a late   *)
(* request leave the engine alone.                                         *)
Outside ==
  \/ SaveSettings
  \/ \E s \in Server : \/ UsageChanges(s) \/ AgentStarts(s) \/ AgentStops(s)
                      \/ TimeRunsOut(s) \/ Settle(s)

LEMMA OutsideKeeps ==
  ASSUME IInv, Outside
  PROVE  IInv' /\ UNCHANGED <<alerts, tally>>
<1>1. UNCHANGED <<alerts, tally, run, missed>>
  BY DEF Outside, SaveSettings, UsageChanges, AgentStarts, AgentStops,
         TimeRunsOut, Settle, engine, history
<1>2. settings' \in Settings
  <2>1. CASE SaveSettings
    <3>1. settings \in Settings
      BY DEF IInv, TypeOK
    <3>2. ASSUME NEW b \in BOOLEAN, settings' = [settings EXCEPT !.enabled = b]
          PROVE  settings' \in Settings
      BY <3>1, <3>2 DEF Settings
    <3>3. ASSUME NEW n \in Sustain, settings' = [settings EXCEPT !.sustain = n]
          PROVE  settings' \in Settings
      BY <3>1, <3>3 DEF Settings
    <3>4. ASSUME NEW k \in Usage, NEW t \in Threshold,
                 settings' = [settings EXCEPT !.threshold[k] = t]
          PROVE  settings' \in Settings
      BY <3>1, <3>4 DEF Settings
    <3> QED BY <2>1, <3>2, <3>3, <3>4 DEF SaveSettings
  <2>2. CASE ~SaveSettings
    BY <2>2 DEF Outside, UsageChanges, AgentStarts, AgentStops,
                TimeRunsOut, Settle, IInv, TypeOK
  <2> QED BY <2>1, <2>2
<1>3. usage' \in [Server -> Reading]
  BY DEF Outside, SaveSettings, UsageChanges, AgentStarts, AgentStops,
         TimeRunsOut, Settle, host, IInv, TypeOK
<1>4. TypeOK'
  BY <1>1, <1>2, <1>3
     DEF Outside, SaveSettings, UsageChanges, AgentStarts, AgentStops,
         TimeRunsOut, Settle, host, table, IInv, TypeOK
<1> QED BY <1>1, <1>4 DEF IInv, NoticesTellTheState, StreakIsReal

LEMMA StepKeeps == IInv /\ [Next]_vars => IInv'
<1> SUFFICES ASSUME IInv, [Next]_vars PROVE IInv'
  OBVIOUS
<1>1. CASE Restart \/ \E s \in Server : Delete(s)
  BY <1>1, ForgettingKeeps
<1>2. CASE Outside
  BY <1>2, OutsideKeeps
<1>3. ASSUME NEW s \in Server, Observe(s) PROVE IInv'
  BY <1>3, ObserveKeeps
<1>4. ASSUME NEW s \in Server, Ignore(s) PROVE IInv'
  BY <1>4, IgnoreKeeps
<1>5. ASSUME NEW s \in Server, CheckOffline(s) PROVE IInv'
  BY <1>5, CheckOfflineKeeps
<1>6. CASE UNCHANGED vars
  BY <1>6 DEF vars, host, table, engine, history, IInv, TypeOK,
              NoticesTellTheState, StreakIsReal
<1> QED BY <1>1, <1>2, <1>3, <1>4, <1>5, <1>6 DEF Next, Outside

-----------------------------------------------------------------------------
(* The theorems *)

(* The engine's state stays well typed: flags are booleans, streaks within *)
(* bounds, and an id is never both registered and a leftover of a delete.  *)
THEOREM TypeCorrect == Spec => []TypeOK
<1>1. IInv => TypeOK
  BY DEF IInv
<1> QED BY <1>1, InitEstablishes, StepKeeps, PTL DEF Spec

(* For any servers, kinds and settings, the notices of observe and         *)
(* checkOffline add up to the flags they move.                             *)
THEOREM NoticesMatch == Spec => []NoticesTellTheState
<1>1. IInv => NoticesTellTheState
  BY DEF IInv
<1> QED BY <1>1, InitEstablishes, StepKeeps, PTL DEF Spec

(* No streak is longer than the run of pushes it stands for.               *)
THEOREM StreaksAreReal == Spec => []StreakIsReal
<1>1. IInv => StreakIsReal
  BY DEF IInv
<1> QED BY <1>1, InitEstablishes, StepKeeps, PTL DEF Spec

(* For any sustain count: on a server none of whose pushes was ignored, a  *)
(* usage alert goes up only on the last of sustain pushes over its         *)
(* threshold.                                                              *)
THEOREM FiresWhenSustained == Spec => FiresOnSustainedUse
<1> DEFINE Claim == \A s \in Server, k \in Usage :
             /\ s \notin missed
             /\ ~alerts[s].firing[k] /\ alerts'[s].firing[k]
             => run'[s][k] >= settings.sustain
<1>1. IInv /\ [Next]_vars => [Claim]_vars
  <2> SUFFICES ASSUME IInv, Next, NEW s \in Server, NEW k \in Usage, s \notin missed,
                      ~alerts[s].firing[k], alerts'[s].firing[k]
               PROVE  run'[s][k] >= settings.sustain
    OBVIOUS
  <2>1. ASSUME NEW t \in Server, Observe(t) PROVE run'[s][k] >= settings.sustain
    <3>1. CASE t = s
      <4>1. Starts(alerts[s], usage[s], settings, k)
        BY <2>1, <3>1 DEF Observe, Observed, IInv, TypeOK
      <4>2. NextStreak(alerts[s], usage[s], settings, k) <= Lengthened(s)[k]
        BY StreakFollowsRun DEF IInv, StreakIsReal
      <4>3. run'[s] = Lengthened(s)
        BY <2>1, <3>1 DEF Observe, IInv, TypeOK
      <4>4. /\ NextStreak(alerts[s], usage[s], settings, k) \in Int
            /\ Lengthened(s)[k] \in Int /\ settings.sustain \in Int
        <5>1. alerts[s].streak[k] \in 0..StreakBound
          BY DEF IInv, TypeOK, AlertState
        <5>2. NextStreak(alerts[s], usage[s], settings, k) \in Int
          BY <5>1, RulesAssumption DEF NextStreak
        <5> QED BY <5>2, LengthenedType, SettingsAreRules DEF IInv, TypeOK
      <4> QED BY <4>1, <4>2, <4>3, <4>4 DEF Starts
    <3>2. CASE t # s
      BY <2>1, <3>2 DEF Observe, IInv, TypeOK
    <3> QED BY <3>1, <3>2
  <2>2. ASSUME NEW t \in Server, CheckOffline(t) PROVE FALSE
    BY <2>2 DEF CheckOffline, SilenceJudged, IInv, TypeOK, AlertState
  <2>3. ASSUME Restart \/ \E t \in Server : Delete(t) PROVE FALSE
    <3>1. alerts'[s] = Fresh \/ alerts'[s] = alerts[s]
      BY <2>3 DEF Restart, Delete, IInv, TypeOK
    <3> QED BY <3>1 DEF Fresh
  <2>4. ASSUME Outside PROVE FALSE
    BY <2>4, OutsideKeeps
  <2>5. ASSUME NEW t \in Server, Ignore(t) PROVE FALSE
    BY <2>5 DEF Ignore, engine
  <2> QED BY <2>1, <2>2, <2>3, <2>4, <2>5 DEF Next, Outside
<1> QED BY <1>1, InitEstablishes, StepKeeps, PTL DEF Spec, FiresOnSustainedUse
=============================================================================
