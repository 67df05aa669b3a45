----------------------------- MODULE IngestProofs -----------------------------
(***************************************************************************)
(* What holds of the push pipeline for every set of servers and goroutines *)
(* and every bound.                                                        *)
(***************************************************************************)
EXTENDS Ingest, TLAPS

-----------------------------------------------------------------------------
(* The rules *)

(* The rules keep alertState well typed: the streak stays within bounds.   *)
LEMMA ObserveKeepsType ==
  ASSUME NEW st \in AlertState, NEW v \in [Usage -> Nat],
         NEW r, r.sustain \in Nat, r.threshold \in [Usage -> Nat]
  PROVE  Observed(st, v, r) \in AlertState
<1>1. \A k \in Usage : NextStreak(st, v, r, k) \in 0..StreakBound
  BY RulesAssumption DEF NextStreak, AlertState, Over
<1> QED BY <1>1 DEF Observed, AlertState, Starts, Ends

LEMMA SilenceKeepsType ==
  ASSUME NEW st \in AlertState, NEW down \in BOOLEAN
  PROVE  SilenceJudged(st, down) \in AlertState
BY DEF SilenceJudged, AlertState

(* Fresh and NoTally agree: nothing is up and nothing has been announced.  *)
LEMMA FreshIsSilent ==
  /\ Fresh \in AlertState
  /\ \A k \in Kind : NoTally[k] = 0 /\ ~Raised(Fresh, k)
BY RulesAssumption DEF Fresh, AlertState, NoTally, Raised, Kind

(* The notices observe queues are those of the flags it changed: no alert  *)
(* that stays up or down is announced, none that moves goes unannounced.   *)
LEMMA ObserveAnnouncesChanges ==
  ASSUME NEW st \in AlertState, NEW v \in [Usage -> Nat],
         NEW r, r.sustain \in Nat, r.threshold \in [Usage -> Nat],
         NEW k \in Kind
  PROVE  /\ Firing(k) \in ObserveNotices(st, v, r)
              <=> ~Raised(st, k) /\ Raised(Observed(st, v, r), k)
         /\ Cleared(k) \in ObserveNotices(st, v, r)
              <=> Raised(st, k) /\ ~Raised(Observed(st, v, r), k)
<1> DEFINE new == Observed(st, v, r)
           notices == ObserveNotices(st, v, r)
<1>1. CASE k = "offline"
  <2>1. Firing(k) \notin notices
    BY <1>1, RulesAssumption DEF ObserveNotices, Firing, Cleared
  <2>2. Cleared(k) \in notices <=> st.offline
    BY <1>1, RulesAssumption DEF ObserveNotices, Firing, Cleared
  <2>3. ~Raised(new, k) /\ (Raised(st, k) <=> st.offline)
    BY <1>1 DEF Observed, Raised
  <2> QED BY <2>1, <2>2, <2>3
<1>2. CASE k # "offline"
  <2>1. k \in Usage
    BY <1>2 DEF Kind
  <2>2. Firing(k) \in notices <=> Starts(st, v, r, k)
    BY <1>2, <2>1 DEF ObserveNotices, Firing, Cleared
  <2>3. Cleared(k) \in notices <=> Ends(st, v, r, k)
    BY <1>2, <2>1 DEF ObserveNotices, Firing, Cleared
  <2>4. /\ Raised(st, k) = st.firing[k]
        /\ Raised(new, k) = ((st.firing[k] \/ Starts(st, v, r, k)) /\ ~Ends(st, v, r, k))
    BY <1>2, <2>1 DEF Raised, Observed
  <2>5. st.firing[k] \in BOOLEAN
    BY <2>1 DEF AlertState
  <2>6. /\ Starts(st, v, r, k) => ~st.firing[k] /\ ~Ends(st, v, r, k)
        /\ Ends(st, v, r, k) => st.firing[k]
    BY DEF Starts, Ends
  <2> QED BY <2>2, <2>3, <2>4, <2>5, <2>6
<1> QED BY <1>1, <1>2

(* The same for checkOffline, which only ever announces "offline".         *)
LEMMA SilenceAnnouncesChanges ==
  ASSUME NEW st \in AlertState, NEW down \in BOOLEAN, NEW k \in Kind
  PROVE  /\ Firing(k) \in SilenceNotices(st, down)
              <=> ~Raised(st, k) /\ Raised(SilenceJudged(st, down), k)
         /\ Cleared(k) \in SilenceNotices(st, down)
              <=> Raised(st, k) /\ ~Raised(SilenceJudged(st, down), k)
<1>1. CASE k = "offline"
  BY <1>1 DEF SilenceNotices, SilenceJudged, Firing, Cleared, Raised, AlertState
<1>2. CASE k # "offline"
  BY <1>2 DEF SilenceNotices, SilenceJudged, Firing, Cleared, Raised, AlertState
<1> QED BY <1>1, <1>2

(* So notices that announce exactly the changes keep a tally that tells    *)
(* the state telling it.                                                   *)
LEMMA TallyFollows ==
  ASSUME NEW st, NEW new, NEW notices, NEW count \in [Kind -> Int], NEW k \in Kind,
         Firing(k) \in notices <=> ~Raised(st, k) /\ Raised(new, k),
         Cleared(k) \in notices <=> Raised(st, k) /\ ~Raised(new, k),
         count[k] = IF Raised(st, k) THEN 1 ELSE 0
  PROVE  Counted(count, notices)[k] = IF Raised(new, k) THEN 1 ELSE 0
<1>1. Counted(count, notices)[k] =
        count[k] + (IF Firing(k) \in notices THEN 1 ELSE 0)
                 - (IF Cleared(k) \in notices THEN 1 ELSE 0)
  BY DEF Counted
<1>2. CASE Raised(st, k) /\ Raised(new, k)
  BY <1>1, <1>2
<1>3. CASE Raised(st, k) /\ ~Raised(new, k)
  BY <1>1, <1>3
<1>4. CASE ~Raised(st, k) /\ Raised(new, k)
  BY <1>1, <1>4
<1>5. CASE ~Raised(st, k) /\ ~Raised(new, k)
  BY <1>1, <1>5
<1> QED BY <1>2, <1>3, <1>4, <1>5

(* Between two tallies of zeros and ones lies one set of transitions.      *)
LEMMA TransitionsBetween ==
  ASSUME NEW old \in [Kind -> 0..1], NEW new \in [Kind -> 0..1]
  PROVE  \E up \in SUBSET {k \in Kind : old[k] = 0}, down \in SUBSET {k \in Kind : old[k] = 1} :
           new = [k \in Kind |-> IF k \in up THEN 1 ELSE IF k \in down THEN 0 ELSE old[k]]
<1> DEFINE up == {k \in Kind : old[k] = 0 /\ new[k] = 1}
           down == {k \in Kind : old[k] = 1 /\ new[k] = 0}
           moved == [k \in Kind |-> IF k \in up THEN 1
                                    ELSE IF k \in down THEN 0 ELSE old[k]]
<1>1. /\ up \in SUBSET {k \in Kind : old[k] = 0}
      /\ down \in SUBSET {k \in Kind : old[k] = 1}
  OBVIOUS
<1>2. new = moved
  <2>1. ASSUME NEW k \in Kind PROVE new[k] = moved[k]
    <3>1. new[k] \in {0, 1} /\ old[k] \in {0, 1}
      OBVIOUS
    <3> QED BY <3>1
  <2> QED BY <2>1
<1> HIDE DEF up, down
<1> QED BY <1>1, <1>2

-----------------------------------------------------------------------------
(* Types *)

LEMMA Bounds ==
  /\ 0 \in 0..MaxVersion /\ 0 \in 0..MaxClock /\ 1 \in Version
  /\ Version \subseteq 0..MaxVersion /\ Clock \subseteq 0..MaxClock
  /\ \A n \in 0..MaxVersion : n # 0 => n \in Version
BY IngestAssumption DEF Version, Clock

(* The empty records are well typed. *)
LEMMA EmptyTypes ==
  /\ Idle \in Push /\ NoWatch \in Watch /\ NoDelete \in Deletion /\ NewRow \in Row
  /\ NoTally \in [Kind -> Int] /\ Fresh \in AlertState
<1>1. 0 \in 0..MaxClock /\ 0 \in 0..MaxVersion
  BY IngestAssumption
<1> QED BY <1>1, FreshIsSilent
        DEF Idle, Push, PushStep, NoWatch, Watch, NoDelete, Deletion, NewRow, Row, NoTally

LEMMA InitTypes == Init => TypeOK
<1> SUFFICES ASSUME Init PROVE TypeOK
  OBVIOUS
<1>1. [version |-> 1, told |-> 0, waiting |-> NoHandler] \in Agent
  BY IngestAssumption DEF Agent, Version
<1>2. clock \in Clock /\ restarts \in 0..MaxRestarts /\ 0 \in 0..MaxClock
  BY IngestAssumption DEF Init, Clock
<1>3. push \in [Server -> [Handler -> Push]]
  BY EmptyTypes DEF Init
<1>4. events \in Seq(Event)
  BY DEF Init
<1> QED BY <1>1, <1>2, <1>3, <1>4, EmptyTypes, IngestAssumption DEF Init, TypeOK

(* A push that moves leaves every other push alone.                        *)
LEMMA PushMoves ==
  ASSUME TypeOK, NEW s \in Server, NEW h \in Handler, NEW p, Becomes(s, h, p)
  PROVE  /\ p \in Push => push' \in [Server -> [Handler -> Push]]
         /\ push'[s][h] = p
         /\ \A t \in Server, g \in Handler :
              t # s \/ g # h => push'[t][g] = push[t][g]
BY DEF TypeOK, Becomes

(* The parts of the state, for the steps that leave them alone.            *)
USE DEF counters, tables, memory, threads, history

LEMMA PushTypes ==
  ASSUME TypeOK, NEW s \in Server, NEW h \in Handler, PushNext(s, h)
  PROVE  TypeOK'
<1> DEFINE p == push[s][h]
<1>1. p \in Push /\ row[s] \in Row /\ agent[s] \in Agent
  BY DEF TypeOK
<1>2. /\ \A st \in PushStep : [p EXCEPT !.step = st] \in Push
      /\ \A now \in 0..MaxClock : [p EXCEPT !.step = "touch", !.now = now] \in Push
  BY <1>1 DEF Push, PushStep
<1>3. CASE Arrive(s, h)
  <2>1. [Idle EXCEPT !.step = "put", !.asked = row[s].updateTo,
                     !.version = agent[s].version] \in Push
    <3>1. row[s].updateTo \in 0..MaxVersion /\ agent[s].version \in 0..MaxVersion
      BY <1>1 DEF Row, Agent, Version
    <3> QED BY <3>1, EmptyTypes DEF Push, PushStep
  <2>2. push' \in [Server -> [Handler -> Push]]
    BY <1>3, <2>1, PushMoves DEF Arrive
  <2>3. agent' \in [Server -> Agent]
    <3>1. agent' = [agent EXCEPT ![s] = [agent[s] EXCEPT !.waiting = h, !.told = 0]]
      BY <1>3 DEF Arrive, TypeOK
    <3>2. [agent[s] EXCEPT !.waiting = h, !.told = 0] \in Agent
      BY <1>1, Bounds DEF Agent
    <3> QED BY <3>1, <3>2 DEF TypeOK
  <2> QED BY <1>3, <2>2, <2>3 DEF Arrive, TypeOK
<1>4. CASE PutLive(s, h)
  <2>1. clock \in 0..MaxClock
    BY IngestAssumption DEF TypeOK, Clock
  <2>2. push' \in [Server -> [Handler -> Push]]
    BY <1>2, <1>4, <2>1, PushMoves DEF PutLive
  <2> QED BY <1>4, <2>1, <2>2 DEF PutLive, TypeOK
<1>5. CASE Refuse(s, h)
  <2>1. push' \in [Server -> [Handler -> Push]]
    BY <1>5, EmptyTypes, PushMoves DEF Refuse
  <2> QED BY <1>5, <2>1 DEF Refuse, TypeOK
<1>6. CASE Touch(s, h)
  <2>1. push' \in [Server -> [Handler -> Push]]
    BY <1>2, <1>6, PushMoves DEF Touch, PushStep
  <2>2. row' \in [Server -> Row]
    <3>1. [row[s] EXCEPT !.lastSeen = p.now, !.agent = p.version] \in Row
      BY <1>1 DEF Row, Push
    <3>2. \/ row' = row
          \/ row' = [row EXCEPT ![s] = [row[s] EXCEPT !.lastSeen = p.now,
                                                     !.agent = p.version]]
      BY <1>6 DEF Touch, TypeOK
    <3> QED BY <3>1, <3>2 DEF TypeOK
  <2>3. watch' \in Watch
    <3>1. watch \in Watch /\ watch.touched \cup {s} \in SUBSET Server
      BY DEF TypeOK, Watch
    <3>2. [watch EXCEPT !.touched = watch.touched \cup {s}] \in Watch
      BY <3>1 DEF Watch
    <3>3. watch' = watch \/ watch' = [watch EXCEPT !.touched = watch.touched \cup {s}]
      BY <1>6 DEF Touch
    <3> QED BY <3>1, <3>2, <3>3
  <2> QED BY <1>6, <2>1, <2>2, <2>3 DEF Touch, TypeOK
<1>7. CASE Persist(s, h)
  <2>1. push' \in [Server -> [Handler -> Push]]
    BY <1>2, <1>7, PushMoves DEF Persist, PushStep
  <2>2. lastPersist' \in [Server -> 0..MaxClock]
    BY <1>1, <1>7 DEF Persist, TypeOK, Push
  <2> QED BY <1>7, <2>1, <2>2 DEF Persist, TypeOK
<1>8. CASE Insert(s, h)
  <2>1. push' \in [Server -> [Handler -> Push]]
    BY <1>2, <1>8, PushMoves DEF Insert, PushStep
  <2>2. p.now \in 0..MaxClock
    BY <1>1 DEF Push
  <2>3. /\ samples' \in [Server -> SUBSET (0..MaxClock)]
        /\ kept' \in [Server -> SUBSET (0..MaxClock)]
    BY <1>8, <2>2 DEF Insert, TypeOK
  <2> QED BY <1>8, <2>1, <2>3 DEF Insert, TypeOK
<1>9. CASE Consult(s, h)
  <2>1. push' \in [Server -> [Handler -> Push]]
    BY <1>2, <1>9, PushMoves DEF Consult, PushStep
  <2> QED BY <1>9, <2>1 DEF Consult, TypeOK
<1>10. CASE Judge(s, h)
  <2>1. PICK v \in Reading :
          LET notices == ObserveNotices(alerts[s], v, settings) IN
          /\ alerts' = [alerts EXCEPT ![s] = Observed(@, v, settings)]
          /\ tally' = [tally EXCEPT ![s] = Counted(@, notices)]
          /\ Becomes(s, h, [p EXCEPT !.step = IF notices = {} THEN "reply" ELSE "fire",
                                     !.queue = notices])
    BY <1>10 DEF Judge
  <2>2. /\ alerts[s] \in AlertState /\ v \in [Usage -> Nat]
        /\ settings.sustain \in Nat /\ settings.threshold \in [Usage -> Nat]
    BY IngestAssumption, RulesAssumption DEF TypeOK, Settings
  <2>3. Observed(alerts[s], v, settings) \in AlertState
    BY <2>2, ObserveKeepsType
  <2>4. ObserveNotices(alerts[s], v, settings) \in SUBSET Notice
    BY DEF ObserveNotices, Notice, Firing, Cleared, Kind
  <2>5. [p EXCEPT !.step = IF ObserveNotices(alerts[s], v, settings) = {}
                           THEN "reply" ELSE "fire",
                  !.queue = ObserveNotices(alerts[s], v, settings)] \in Push
    BY <1>1, <2>4 DEF Push, PushStep
  <2>6. push' \in [Server -> [Handler -> Push]]
    BY <2>1, <2>5, PushMoves
  <2>7. tally' \in [Server -> [Kind -> Int]]
    BY <2>1 DEF TypeOK, Counted
  <2>8. alerts' \in [Server -> AlertState]
    BY <2>1, <2>3 DEF TypeOK
  <2> QED BY <1>10, <2>6, <2>7, <2>8 DEF Judge, TypeOK
<1>11. CASE Fire(s, h)
  <2>1. PICK n \in p.queue, done \in WriteOutcome("event") :
          /\ events' = IF done THEN Append(events, Recorded(s, n, p.now)) ELSE events
          /\ Becomes(s, h, [p EXCEPT !.queue = @ \ {n},
                                     !.step = IF p.queue = {n} THEN "reply" ELSE "fire"])
    BY <1>11 DEF Fire
  <2>2. [p EXCEPT !.queue = @ \ {n},
                  !.step = IF p.queue = {n} THEN "reply" ELSE "fire"] \in Push
    BY <1>1 DEF Push, PushStep
  <2>3. push' \in [Server -> [Handler -> Push]]
    BY <2>1, <2>2, PushMoves
  <2>4. Recorded(s, n, p.now) \in Event
    BY <1>1 DEF Recorded, Event, Push, Notice, TypeOK
  <2>5. events' \in Seq(Event)
    BY <2>1, <2>4 DEF TypeOK
  <2> QED BY <1>11, <2>3, <2>5 DEF Fire, TypeOK
<1>12. CASE Reply(s, h)
  <2>1. push' \in [Server -> [Handler -> Push]]
    BY <1>12, EmptyTypes, PushMoves DEF Reply
  <2>2. row' \in [Server -> Row]
    <3>1. [row[s] EXCEPT !.updateTo = 0] \in Row
      BY <1>1, IngestAssumption DEF Row
    <3>2. row' = row \/ row' = [row EXCEPT ![s] = [row[s] EXCEPT !.updateTo = 0]]
      BY <1>12 DEF Reply, TypeOK
    <3> QED BY <3>1, <3>2 DEF TypeOK
  <2>3. p.asked \in 0..MaxVersion /\ 0 \in 0..MaxVersion
    BY <1>1, IngestAssumption DEF Push
  <2>4. agent' \in [Server -> Agent]
    <3>1. \A told \in 0..MaxVersion :
            [agent[s] EXCEPT !.waiting = NoHandler, !.told = told] \in Agent
      BY <1>1 DEF Agent
    <3>2. \/ agent' = agent
          \/ \E told \in 0..MaxVersion : agent' =
               [agent EXCEPT ![s] = [agent[s] EXCEPT !.waiting = NoHandler, !.told = told]]
      BY <1>12, <2>3 DEF Reply, Answered, TypeOK
    <3> QED BY <3>1, <3>2 DEF TypeOK
  <2> QED BY <1>12, <2>1, <2>2, <2>4 DEF Reply, TypeOK
<1> QED BY <1>3, <1>4, <1>5, <1>6, <1>7, <1>8, <1>9, <1>10, <1>11, <1>12 DEF PushNext

LEMMA OutsideTypes ==
  ASSUME TypeOK, NEW s \in Server,
         GiveUp(s) \/ AgentUpdates(s) \/ OperatorNext(s)
  PROVE  TypeOK'
<1>1. agent[s] \in Agent /\ deleting \in Deletion
  BY DEF TypeOK
<1>2. CASE GiveUp(s)
  <2>1. [agent[s] EXCEPT !.waiting = NoHandler] \in Agent
    BY <1>1 DEF Agent
  <2>2. agent' = [agent EXCEPT ![s] = [agent[s] EXCEPT !.waiting = NoHandler]]
    BY <1>2 DEF GiveUp, TypeOK
  <2> QED BY <1>2, <2>1, <2>2 DEF GiveUp, TypeOK
<1>3. CASE AgentUpdates(s)
  <2>1. [agent[s] EXCEPT !.version = agent[s].told, !.told = 0] \in Agent
    BY <1>1, <1>3, Bounds DEF Agent, AgentUpdates
  <2>2. agent' = [agent EXCEPT ![s] = [agent[s] EXCEPT !.version = agent[s].told,
                                                     !.told = 0]]
    BY <1>3 DEF AgentUpdates, TypeOK
  <2> QED BY <1>3, <2>1, <2>2 DEF AgentUpdates, TypeOK
<1>4. CASE CreateServer(s)
  BY <1>4 DEF CreateServer, TypeOK
<1>5. CASE DeleteSamples(s)
  <2>1. [step |-> "row", of |-> {s}] \in Deletion
    BY DEF Deletion
  <2> QED BY <1>5, <2>1 DEF DeleteSamples, TypeOK
<1>6. CASE DeleteRow(s)
  <2>1. [deleting EXCEPT !.step = "live"] \in Deletion
    BY <1>1 DEF Deletion
  <2>2. row' \in [Server -> Row]
    BY <1>6, EmptyTypes DEF DeleteRow, TypeOK
  <2> QED BY <1>6, <2>1, <2>2 DEF DeleteRow, TypeOK
<1>7. CASE DeleteFails(s)
  BY <1>7, EmptyTypes DEF DeleteFails, TypeOK
<1>8. CASE RemoveLive(s)
  <2>1. [deleting EXCEPT !.step = "forget"] \in Deletion
    BY <1>1 DEF Deletion
  <2>2. live' \in [Server -> 0..MaxClock]
    BY <1>8, IngestAssumption DEF RemoveLive, TypeOK
  <2> QED BY <1>8, <2>1, <2>2 DEF RemoveLive, TypeOK
<1>9. CASE Forget(s)
  BY <1>9, EmptyTypes DEF Forget, TypeOK
<1> QED BY <1>2, <1>3, <1>4, <1>5, <1>6, <1>7, <1>8, <1>9 DEF OperatorNext

LEMMA WatchTypes ==
  ASSUME TypeOK,
         \/ WatchStart \/ WatchList \/ WatchStamp \/ WatchDone
         \/ \E s \in Server : WatchCheck(s) \/ WatchFire(s)
  PROVE  TypeOK'
<1>1. watch \in Watch /\ clock \in 0..MaxClock
  BY IngestAssumption DEF TypeOK, Clock
<1>2. CASE WatchStart
  <2>1. [watch EXCEPT !.step = "list"] \in Watch
    BY <1>1 DEF Watch
  <2> QED BY <1>2, <2>1 DEF WatchStart, TypeOK
<1>3. CASE WatchList
  <2>1. /\ [s \in Server |-> row[s].lastSeen] \in [Server -> 0..MaxClock]
        /\ registered \in SUBSET Server
    BY DEF TypeOK, Row
  <2>2. [NoWatch EXCEPT !.step = "stamp", !.todo = registered,
                        !.seen = [s \in Server |-> row[s].lastSeen]] \in Watch
    BY <2>1, EmptyTypes DEF Watch
  <2> QED BY <1>3, <2>2 DEF WatchList, TypeOK
<1>4. CASE WatchStamp
  <2>1. [watch EXCEPT !.step = "check", !.now = clock] \in Watch
    BY <1>1 DEF Watch
  <2> QED BY <1>4, <2>1 DEF WatchStamp, TypeOK
<1>5. CASE WatchDone
  BY <1>5, EmptyTypes DEF WatchDone, TypeOK
<1>6. ASSUME NEW s \in Server, WatchCheck(s)
      PROVE  TypeOK'
  <2>1. /\ alerts[s] \in AlertState /\ Down(s) \in BOOLEAN
        /\ SilenceJudged(alerts[s], Down(s)) \in AlertState
    <3>1. alerts[s] \in AlertState
      BY DEF TypeOK
    <3>2. Down(s) \in BOOLEAN
      BY DEF Down
    <3> QED BY <3>1, <3>2, SilenceKeepsType
  <2>2. watch' \in Watch
    <3>1. \A q \in SUBSET Server :
            [watch EXCEPT !.todo = watch.todo \ {s}, !.queue = q] \in Watch
      BY <1>1 DEF Watch
    <3>2. [watch EXCEPT !.todo = watch.todo \ {s}] \in Watch
      BY <1>1 DEF Watch
    <3> QED BY <1>6, <3>1, <3>2 DEF WatchCheck
  <2>3. alerts' \in [Server -> AlertState]
    BY <1>6, <2>1 DEF WatchCheck, TypeOK
  <2>4. tally' \in [Server -> [Kind -> Int]]
    <3>1. tally[s] \in [Kind -> Int] /\ tally \in [Server -> [Kind -> Int]]
      BY DEF TypeOK
    <3>2. \A notices : Counted(tally[s], notices) \in [Kind -> Int]
      BY <3>1 DEF Counted
    <3>3. \/ tally' = tally
          \/ \E notices : tally' = [tally EXCEPT ![s] = Counted(tally[s], notices)]
      BY <1>6 DEF WatchCheck
    <3> QED BY <3>1, <3>2, <3>3
  <2> QED BY <1>6, <2>2, <2>3, <2>4 DEF WatchCheck, TypeOK
<1>7. ASSUME NEW s \in Server, WatchFire(s)
      PROVE  TypeOK'
  <2>1. Recorded(s, Firing("offline"), watch.now) \in Event
    BY <1>1 DEF Recorded, Event, Firing, Kind, TypeOK, Watch
  <2>2. events' \in Seq(Event)
    BY <1>7, <2>1 DEF WatchFire, TypeOK
  <2>3. [watch EXCEPT !.queue = {}] \in Watch
    BY <1>1 DEF Watch
  <2> QED BY <1>7, <2>2, <2>3 DEF WatchFire, TypeOK
<1> QED BY <1>2, <1>3, <1>4, <1>5, <1>6, <1>7

LEMMA SystemTypes ==
  ASSUME TypeOK, SwitchAlerts \/ RequestAgentUpdate \/ Tick \/ Restart
  PROVE  TypeOK'
<1>1. CASE SwitchAlerts
  BY <1>1, IngestAssumption DEF SwitchAlerts, TypeOK, Settings
<1>2. ASSUME NEW targets, RequestUpdate(targets) PROVE TypeOK'
  <2>1. \A s \in Server : [row[s] EXCEPT !.updateTo = build] \in Row
    <3>1. row \in [Server -> Row] /\ build \in 0..MaxVersion
      BY Bounds DEF TypeOK
    <3> QED BY <3>1 DEF Row
  <2> QED BY <1>2, <2>1 DEF RequestUpdate, TypeOK
<1>3. CASE Tick
  BY <1>3, IngestAssumption DEF Tick, TypeOK, Clock
<1>4. CASE Restart
  <2>1. \A s \in Server : [agent[s] EXCEPT !.waiting = NoHandler] \in Agent
    BY DEF TypeOK, Agent
  <2>2. build' \in Version /\ restarts' \in 0..MaxRestarts
    BY <1>4, IngestAssumption DEF Restart, TypeOK, Version
  <2>3. 0 \in 0..MaxClock
    BY IngestAssumption
  <2> QED BY <1>4, <2>1, <2>2, <2>3, EmptyTypes DEF Restart, TypeOK
<1> QED BY <1>1, <1>2, <1>3, <1>4 DEF RequestAgentUpdate

LEMMA StepTypes == TypeOK /\ [Next]_vars => TypeOK'
<1> SUFFICES ASSUME TypeOK, [Next]_vars PROVE TypeOK'
  OBVIOUS
<1>1. CASE UNCHANGED vars
  BY <1>1 DEF vars, TypeOK
<1> QED BY <1>1, PushTypes, OutsideTypes, WatchTypes, SystemTypes DEF Next

(* The tables, the hub's memory and every request in flight stay well      *)
(* typed, and the registered ids are among those ever given out.           *)
THEOREM TypeCorrect == Spec => []TypeOK
BY InitTypes, StepTypes, PTL DEF Spec

-----------------------------------------------------------------------------
(* Steps of a push *)

(* Where a step of a push can lead, and what the handler carries along.    *)
LEMMA PushGoes ==
  ASSUME TypeOK, NEW s \in Server, NEW h \in Handler, PushNext(s, h)
  PROVE  \E p :
           /\ Becomes(s, h, p)
           /\ p.step = "put" => Arrive(s, h)
           /\ p.step = "touch" => PutLive(s, h)
           /\ p.step = "insert" => Persist(s, h)
           /\ p.step \notin {"idle", "put"} =>
                Serving(s, h) /\ p.asked = push[s][h].asked /\ p.version = push[s][h].version
           /\ p.step \notin {"idle", "put", "touch"} => p.now = push[s][h].now
<1> DEFINE old == push[s][h]
           Leads(p) ==
             /\ Becomes(s, h, p)
             /\ p.step = "put" => Arrive(s, h)
             /\ p.step = "touch" => PutLive(s, h)
             /\ p.step = "insert" => Persist(s, h)
             /\ p.step \notin {"idle", "put"} =>
                  Serving(s, h) /\ p.asked = old.asked /\ p.version = old.version
             /\ p.step \notin {"idle", "put", "touch"} => p.now = old.now
<1>1. old \in Push
  BY DEF TypeOK
<1>2. CASE Arrive(s, h)
  <2> DEFINE p == [Idle EXCEPT !.step = "put", !.asked = row[s].updateTo,
                               !.version = agent[s].version]
  <2>1. p.step = "put"
    BY DEF Idle
  <2>2. Becomes(s, h, p)
    BY <1>2 DEF Arrive
  <2> HIDE DEF p
  <2> QED BY <1>2, <2>1, <2>2
<1>3. CASE PutLive(s, h)
  <2> DEFINE p == [old EXCEPT !.step = "touch", !.now = clock]
  <2>1. p.step = "touch" /\ p.asked = old.asked /\ p.version = old.version
    BY <1>1 DEF Push
  <2>2. Becomes(s, h, p) /\ Serving(s, h)
    BY <1>3 DEF PutLive, Serving
  <2> HIDE DEF p
  <2> QED BY <1>3, <2>1, <2>2
<1>4. CASE Refuse(s, h) \/ Reply(s, h)
  <2>1. Becomes(s, h, Idle)
    BY <1>4 DEF Refuse, Reply
  <2> QED BY <2>1 DEF Idle
<1>5. CASE Touch(s, h) \/ Insert(s, h) \/ Consult(s, h) \/ Persist(s, h)
  <2>1. PICK st : /\ Becomes(s, h, [old EXCEPT !.step = st])
                  /\ st \in {"persist", "consult", "judge", "reply", "insert"}
                  /\ st = "insert" => Persist(s, h)
    <3>1. CASE Touch(s, h)
      BY <3>1 DEF Touch
    <3>2. CASE Insert(s, h)
      BY <3>2 DEF Insert
    <3>3. CASE Consult(s, h)
      BY <3>3 DEF Consult
    <3>4. CASE Persist(s, h)
      <4> DEFINE due == old.now - lastPersist[s] >= SampleEvery
      <4>1. Becomes(s, h, [old EXCEPT !.step = IF due THEN "insert" ELSE "consult"])
        BY <3>4 DEF Persist
      <4> HIDE DEF due
      <4> QED BY <3>4, <4>1
    <3> QED BY <1>5, <3>1, <3>2, <3>3, <3>4
  <2> DEFINE p == [old EXCEPT !.step = st]
  <2>2. /\ p.step = st /\ p.asked = old.asked /\ p.version = old.version
        /\ p.now = old.now
    BY <1>1 DEF Push
  <2>3. Serving(s, h)
    BY <1>5 DEF Touch, Insert, Consult, Persist, Serving
  <2> HIDE DEF p
  <2>4. Becomes(s, h, p)
    BY <2>1 DEF p
  <2> QED BY <2>1, <2>2, <2>3, <2>4
<1>6. CASE Judge(s, h) \/ Fire(s, h)
  <2>1. PICK st, queue : /\ Becomes(s, h, [old EXCEPT !.step = st, !.queue = queue])
                         /\ st \in {"fire", "reply"}
    <3>1. CASE Judge(s, h)
      BY <3>1 DEF Judge
    <3>2. CASE Fire(s, h)
      BY <3>2 DEF Fire
    <3> QED BY <1>6, <3>1, <3>2
  <2> DEFINE p == [old EXCEPT !.step = st, !.queue = queue]
  <2>2. /\ p.step = st /\ p.asked = old.asked /\ p.version = old.version
        /\ p.now = old.now
    BY <1>1 DEF Push
  <2>3. Serving(s, h)
    BY <1>6 DEF Judge, Fire, Serving
  <2> HIDE DEF p
  <2>4. Becomes(s, h, p)
    BY <2>1 DEF p
  <2> QED BY <2>1, <2>2, <2>3, <2>4
<1> QED BY <1>2, <1>3, <1>4, <1>5, <1>6 DEF PushNext

-----------------------------------------------------------------------------
(* Which step can change what *)

Causes(s) ==
  /\ push'[s] # push[s] => Restart \/ \E h \in Handler : PushNext(s, h)
  /\ agent'[s] # agent[s] =>
       Restart \/ GiveUp(s) \/ AgentUpdates(s) \/ \E h \in Handler : Arrive(s, h) \/ Reply(s, h)
  /\ row'[s] # row[s] =>
       DeleteRow(s) \/ RequestAgentUpdate \/ \E h \in Handler : Touch(s, h) \/ Reply(s, h)
  /\ samples'[s] # samples[s] => DeleteSamples(s) \/ \E h \in Handler : Insert(s, h)
  /\ kept'[s] # kept[s] => Restart \/ DeleteSamples(s) \/ \E h \in Handler : Insert(s, h)
  /\ lastPersist'[s] # lastPersist[s] => Restart \/ \E h \in Handler : Persist(s, h)
  /\ live'[s] # live[s] => Restart \/ RemoveLive(s) \/ \E h \in Handler : PutLive(s, h)
  /\ alerts'[s] # alerts[s] \/ tally'[s] # tally[s] =>
       Restart \/ Forget(s) \/ WatchCheck(s) \/ \E h \in Handler : Judge(s, h)
  /\ s \in registered' \ registered => CreateServer(s)
  /\ s \in registered \ registered' => DeleteRow(s)
  /\ s \in used' \ used => CreateServer(s)

CausesAll ==
  /\ clock' # clock => Tick
  /\ build' # build => Restart
  /\ gaveUp \subseteq gaveUp' /\ overlapped \subseteq overlapped'
  /\ used \subseteq used'
  /\ deleting' # deleting => Restart \/ \E s \in Server : OperatorNext(s)

LEMMA StepCauses ==
  ASSUME TypeOK, [Next]_vars, NEW s \in Server
  PROVE  Causes(s) /\ CausesAll
<1> USE DEF Causes, CausesAll
<1> DEFINE Goal == Causes(s) /\ CausesAll
<1>1. ASSUME NEW t \in Server, NEW h \in Handler, Arrive(t, h) PROVE Goal
  BY <1>1 DEF Arrive, PushNext, TypeOK, Becomes
<1>2. ASSUME NEW t \in Server, NEW h \in Handler, PutLive(t, h) PROVE Goal
  BY <1>2 DEF PutLive, PushNext, TypeOK, Becomes
<1>3. ASSUME NEW t \in Server, NEW h \in Handler, Refuse(t, h) PROVE Goal
  BY <1>3 DEF Refuse, PushNext, TypeOK, Becomes
<1>4. ASSUME NEW t \in Server, NEW h \in Handler, Touch(t, h) PROVE Goal
  <2>1. push \in [Server -> [Handler -> Push]] /\ row \in [Server -> Row]
    BY DEF TypeOK
  <2>2. t # s => push'[s] = push[s] /\ row'[s] = row[s]
    BY <1>4, <2>1 DEF Touch, Becomes
  <2>3. UNCHANGED <<counters, registered, used, samples, memory, deleting, agent, history>>
    BY <1>4 DEF Touch
  <2> QED BY <1>4, <2>2, <2>3 DEF PushNext
<1>5. ASSUME NEW t \in Server, NEW h \in Handler, Persist(t, h) PROVE Goal
  BY <1>5 DEF Persist, PushNext, TypeOK, Becomes
<1>6. ASSUME NEW t \in Server, NEW h \in Handler, Insert(t, h) PROVE Goal
  BY <1>6 DEF Insert, PushNext, TypeOK, Becomes
<1>7. ASSUME NEW t \in Server, NEW h \in Handler, Consult(t, h) PROVE Goal
  BY <1>7 DEF Consult, PushNext, TypeOK, Becomes
<1>8. ASSUME NEW t \in Server, NEW h \in Handler, Judge(t, h) PROVE Goal
  <2>1. /\ push \in [Server -> [Handler -> Push]]
        /\ alerts \in [Server -> AlertState] /\ tally \in [Server -> [Kind -> Int]]
    BY DEF TypeOK
  <2>2. t # s => push'[s] = push[s] /\ alerts'[s] = alerts[s] /\ tally'[s] = tally[s]
    BY <1>8, <2>1 DEF Judge, Becomes
  <2>3. UNCHANGED <<counters, tables, build, live, lastPersist, deleting, agent, kept,
                    overlapped, gaveUp>>
    BY <1>8 DEF Judge
  <2> QED BY <1>8, <2>2, <2>3 DEF PushNext
<1>9. ASSUME NEW t \in Server, NEW h \in Handler, Fire(t, h) PROVE Goal
  <2>1. push \in [Server -> [Handler -> Push]]
    BY DEF TypeOK
  <2>2. t # s => push'[s] = push[s]
    BY <1>9, <2>1 DEF Fire, Becomes
  <2>3. UNCHANGED <<clock, registered, used, row, samples, memory, deleting, agent, history>>
    BY <1>9 DEF Fire
  <2> QED BY <1>9, <2>2, <2>3 DEF PushNext
<1>10. ASSUME NEW t \in Server, NEW h \in Handler, Reply(t, h) PROVE Goal
  BY <1>10 DEF Reply, PushNext, TypeOK, Becomes, Answered
<1>11. ASSUME NEW t \in Server, GiveUp(t) PROVE Goal
  BY <1>11 DEF GiveUp, OperatorNext, TypeOK
<1>12. ASSUME NEW t \in Server, AgentUpdates(t) PROVE Goal
  BY <1>12 DEF AgentUpdates, OperatorNext, TypeOK
<1>13. ASSUME NEW t \in Server, WatchCheck(t) PROVE Goal
  BY <1>13 DEF WatchCheck, OperatorNext, TypeOK
<1>14. ASSUME NEW t \in Server, WatchFire(t) PROVE Goal
  BY <1>14 DEF WatchFire, OperatorNext, TypeOK
<1>15. ASSUME NEW t \in Server, CreateServer(t) PROVE Goal
  BY <1>15 DEF CreateServer, OperatorNext, TypeOK
<1>16. ASSUME NEW t \in Server, DeleteSamples(t) PROVE Goal
  BY <1>16 DEF DeleteSamples, OperatorNext, TypeOK
<1>17. ASSUME NEW t \in Server, DeleteRow(t) PROVE Goal
  <2>1. /\ row \in [Server -> Row] /\ overlapped \subseteq overlapped'
        /\ UNCHANGED <<counters, used, samples, memory, push, agent, tally, kept, gaveUp>>
    BY <1>17 DEF DeleteRow, TypeOK
  <2>2. t # s => row'[s] = row[s] /\ (s \in registered' <=> s \in registered)
    BY <1>17, <2>1 DEF DeleteRow
  <2>3. t = s => s \notin registered'
    BY <1>17 DEF DeleteRow
  <2> QED BY <1>17, <2>1, <2>2, <2>3 DEF OperatorNext
<1>18. ASSUME NEW t \in Server, DeleteFails(t) PROVE Goal
  BY <1>18 DEF DeleteFails, OperatorNext, TypeOK
<1>19. ASSUME NEW t \in Server, RemoveLive(t) PROVE Goal
  BY <1>19 DEF RemoveLive, OperatorNext, TypeOK
<1>20. ASSUME NEW t \in Server, Forget(t) PROVE Goal
  BY <1>20 DEF Forget, OperatorNext, TypeOK
<1>21. CASE WatchStart
  BY <1>21 DEF WatchStart, TypeOK
<1>22. CASE WatchList
  BY <1>22 DEF WatchList, TypeOK
<1>23. CASE WatchStamp
  BY <1>23 DEF WatchStamp, TypeOK
<1>24. CASE WatchDone
  BY <1>24 DEF WatchDone, TypeOK
<1>25. CASE SwitchAlerts
  BY <1>25 DEF SwitchAlerts, TypeOK
<1>26. CASE RequestAgentUpdate
  BY <1>26 DEF RequestAgentUpdate, RequestUpdate, TypeOK
<1>27. CASE Tick
  BY <1>27 DEF Tick, TypeOK
<1>28. CASE Restart
  BY <1>28 DEF Restart, TypeOK
<1>29. CASE UNCHANGED vars
  BY <1>29 DEF vars
<1> QED BY <1>1, <1>2, <1>3, <1>4, <1>5, <1>6, <1>7, <1>8, <1>9, <1>10, <1>11, <1>12,
           <1>13, <1>14, <1>15, <1>16, <1>17, <1>18, <1>19, <1>20, <1>21, <1>22,
           <1>23, <1>24, <1>25, <1>26, <1>27, <1>28, <1>29
        DEF Next, PushNext, OperatorNext

(* checkOffline's own variables.                                           *)
LEMMA WatchCauses ==
  ASSUME [Next]_vars
  PROVE  \/ watch' = watch
         \/ WatchStart \/ WatchList \/ WatchStamp \/ WatchDone \/ Restart
         \/ \E s \in Server : WatchCheck(s) \/ WatchFire(s)
         \/ \E s \in Server, h \in Handler : Touch(s, h)
<1>1. ASSUME NEW s \in Server, NEW h \in Handler, PushNext(s, h), ~Touch(s, h)
      PROVE  watch' = watch
  BY <1>1 DEF PushNext, Arrive, PutLive, Refuse, Persist, Insert, Consult, Judge, Fire,
     Reply
<1>2. ASSUME NEW s \in Server, OperatorNext(s) \/ GiveUp(s) \/ AgentUpdates(s)
      PROVE  watch' = watch
  BY <1>2 DEF OperatorNext, CreateServer, DeleteSamples, DeleteRow, DeleteFails,
     RemoveLive, Forget, GiveUp, AgentUpdates
<1>3. CASE SwitchAlerts \/ RequestAgentUpdate \/ Tick \/ UNCHANGED vars
  BY <1>3 DEF SwitchAlerts, RequestAgentUpdate, RequestUpdate, Tick, vars
<1> QED BY <1>1, <1>2, <1>3 DEF Next

-----------------------------------------------------------------------------
(* History rows *)

Apart(a, b) == a - b >= SampleEvery \/ b - a >= SampleEvery

(* SamplesSpaced says nothing of the rows that maybePersist has let        *)
(* through and no InsertSample has written yet; nor why the next one it    *)
(* lets through is far enough from them: none is later than lastPersist.   *)
SpacingOf(s) ==
  /\ \A a \in kept[s] : a <= lastPersist[s]
  /\ \A a, b \in kept[s] : a # b => Apart(a, b)
  /\ \A h \in Handler :
       push[s][h].step = "insert" =>
         /\ push[s][h].now <= lastPersist[s]
         /\ \A a \in kept[s] : Apart(a, push[s][h].now)
         /\ \A g \in Handler :
              push[s][g].step = "insert" /\ g # h
              => Apart(push[s][g].now, push[s][h].now)

SpacingInv == \A s \in Server : SpacingOf(s)

(* A step that lets no row through and writes none.                        *)
LEMMA SpacingQuiet ==
  ASSUME NEW s \in Server, SpacingOf(s), lastPersist'[s] = lastPersist[s],
         kept'[s] \subseteq kept[s],
         \A h \in Handler : push'[s][h].step = "insert" => push'[s][h] = push[s][h]
  PROVE  SpacingOf(s)'
BY DEF SpacingOf, Apart

(* maybePersist lets a row through that is later than all the others by    *)
(* SampleEvery.                                                            *)
LEMMA SpacingPersist ==
  ASSUME TypeOK, NEW s \in Server, SpacingOf(s), NEW h \in Handler, Persist(s, h)
  PROVE  SpacingOf(s)'
<1> DEFINE p == push[s][h]
           due == p.now - lastPersist[s] >= SampleEvery
           q == [p EXCEPT !.step = IF due THEN "insert" ELSE "consult"]
<1>1. /\ push'[s][h] = q
      /\ \A g \in Handler : g # h => push'[s][g] = push[s][g]
  BY PushMoves DEF Persist
<1>2. p \in Push /\ lastPersist[s] \in 0..MaxClock
  BY DEF TypeOK
<1>3. q.step = (IF due THEN "insert" ELSE "consult") /\ q.now = p.now
  BY <1>2 DEF Push
<1>4. kept' = kept
  BY DEF Persist
<1>5. CASE ~due
  <2>1. lastPersist' = lastPersist
    BY <1>5 DEF Persist
  <2>2. push'[s][h].step = "consult"
    BY <1>1, <1>3, <1>5
  <2> QED BY <1>1, <1>4, <2>1, <2>2, SpacingQuiet
<1>6. CASE due
  <2>1. /\ lastPersist'[s] = p.now /\ p.now >= lastPersist[s] + SampleEvery
        /\ p.now \in Int /\ SampleEvery \in Int /\ SampleEvery >= 0
    BY <1>2, <1>6, IngestAssumption DEF Persist, TypeOK, Push
  <2>2. /\ \A a \in kept[s] : a \in Int /\ a <= lastPersist[s]
        /\ \A g \in Handler : push[s][g].now \in Int
        /\ \A g \in Handler : push[s][g].step = "insert"
             => push[s][g].now <= lastPersist[s]
    BY DEF SpacingOf, TypeOK, Push
  <2>3. \A a \in kept[s] : a <= p.now /\ Apart(a, p.now)
    BY <1>2, <2>1, <2>2 DEF Apart
  <2>4. \A g \in Handler : push[s][g].step = "insert" =>
          /\ push[s][g].now <= p.now
          /\ Apart(push[s][g].now, p.now) /\ Apart(p.now, push[s][g].now)
    BY <1>2, <2>1, <2>2 DEF Apart
  <2>5. push'[s][h].now = p.now /\ \A g \in Handler : g # h => push'[s][g] = push[s][g]
    BY <1>1, <1>3
  <2> HIDE DEF due, q, p
  <2>6. \A a, b \in kept'[s] : a # b => Apart(a, b)
    BY <1>4 DEF SpacingOf
  <2>7. ASSUME NEW g \in Handler, push'[s][g].step = "insert"
        PROVE  /\ push'[s][g].now <= lastPersist'[s]
               /\ \A a \in kept'[s] : Apart(a, push'[s][g].now)
               /\ \A k \in Handler :
                    push'[s][k].step = "insert" /\ k # g
                    => Apart(push'[s][k].now, push'[s][g].now)
    <3>1. CASE g = h
      BY <1>4, <2>1, <2>3, <2>4, <2>5, <3>1
    <3>2. CASE g # h
      BY <1>4, <2>1, <2>4, <2>5, <2>7, <3>2 DEF SpacingOf
    <3> QED BY <3>1, <3>2
  <2> QED BY <1>4, <2>1, <2>3, <2>6, <2>7 DEF SpacingOf, Apart
<1> QED BY <1>5, <1>6

(* InsertSample writes a row already accounted for.                        *)
LEMMA SpacingInsert ==
  ASSUME TypeOK, NEW s \in Server, SpacingOf(s), NEW h \in Handler, Insert(s, h)
  PROVE  SpacingOf(s)'
<1> DEFINE p == push[s][h]
<1>1. /\ push'[s][h].step = "consult"
      /\ \A g \in Handler : g # h => push'[s][g] = push[s][g]
  BY PushMoves DEF Insert, TypeOK, Push
<1>2. kept'[s] \subseteq kept[s] \cup {p.now} /\ lastPersist' = lastPersist
  BY DEF Insert, TypeOK
<1>3. /\ p.step = "insert" /\ p.now <= lastPersist[s]
      /\ \A a \in kept[s] : Apart(a, p.now) /\ Apart(p.now, a)
      /\ \A g \in Handler : push[s][g].step = "insert" /\ g # h
           => Apart(p.now, push[s][g].now) /\ Apart(push[s][g].now, p.now)
  BY DEF Insert, SpacingOf, Apart
<1> QED BY <1>1, <1>2, <1>3 DEF SpacingOf

LEMMA SpacingStep == TypeOK /\ SpacingInv /\ [Next]_vars => SpacingInv'
<1> SUFFICES ASSUME TypeOK, SpacingInv, [Next]_vars, NEW s \in Server
             PROVE  SpacingOf(s)'
  BY DEF SpacingInv
<1>1. SpacingOf(s) /\ Causes(s)
  BY StepCauses DEF SpacingInv
<1>2. CASE Restart
  BY <1>2 DEF Restart, SpacingOf, Idle
<1>3. CASE DeleteSamples(s)
  BY <1>1, <1>3, SpacingQuiet DEF DeleteSamples, TypeOK
<1>4. ASSUME NEW h \in Handler, Persist(s, h) \/ Insert(s, h) PROVE SpacingOf(s)'
  BY <1>1, <1>4, SpacingPersist, SpacingInsert
<1>5. ASSUME ~Restart, ~DeleteSamples(s),
             \A h \in Handler : ~Persist(s, h) /\ ~Insert(s, h)
      PROVE  SpacingOf(s)'
  <2>1. lastPersist'[s] = lastPersist[s] /\ kept'[s] = kept[s]
    BY <1>1, <1>5 DEF Causes
  <2>2. ASSUME NEW h \in Handler, PushNext(s, h)
        PROVE  \A g \in Handler : push'[s][g].step = "insert" => push'[s][g] = push[s][g]
    BY <1>5, <2>2, PushGoes, PushMoves
  <2>3. push'[s] = push[s] \/ \E h \in Handler : PushNext(s, h)
    BY <1>1, <1>5 DEF Causes
  <2> QED BY <1>1, <2>1, <2>2, <2>3, SpacingQuiet
<1> QED BY <1>2, <1>3, <1>4, <1>5

(* However many pushes of one server overlap, and for every SampleEvery,   *)
(* the history rows written by one run of the hub are spaced.              *)
THEOREM SpacingHolds == Spec => []SamplesSpaced
<1>1. Init => SpacingInv
  BY DEF Init, SpacingInv, SpacingOf, Idle
<1>2. TypeOK /\ SpacingInv => SamplesSpaced
  <2> SUFFICES ASSUME TypeOK, SpacingInv, NEW s \in Server,
                      NEW a \in kept[s], NEW b \in kept[s], a < b
               PROVE  b - a >= SampleEvery
    BY DEF SamplesSpaced
  <2>1. a \in Int /\ b \in Int /\ SampleEvery \in Nat
    BY IngestAssumption DEF TypeOK
  <2> QED BY <2>1, IngestAssumption DEF SpacingInv, SpacingOf, Apart
<1> QED BY <1>1, <1>2, SpacingStep, TypeCorrect, PTL DEF Spec

-----------------------------------------------------------------------------
(* last_seen *)

(* An agent that has never given up has at most the one push out that it   *)
(* is waiting for, and no row is newer than the push about to touch it.    *)
SeenOf(s) ==
  /\ row[s].lastSeen <= clock
  /\ s \notin gaveUp => \A h \in Handler : Serving(s, h) => agent[s].waiting = h
  /\ \A h \in Handler : push[s][h].step = "touch" =>
       /\ push[s][h].now <= clock
       /\ s \notin gaveUp => row[s].lastSeen <= push[s][h].now

SeenInv == \A s \in Server : SeenOf(s)

LEMMA ClockAdvances ==
  ASSUME TypeOK, [Next]_vars
  PROVE  clock \in Int /\ clock' \in Int /\ clock >= 0 /\ clock' >= clock
<1>1. clock \in Int /\ clock >= 0
  BY IngestAssumption DEF TypeOK, Clock
<1>2. CASE Server = {}
  <2>1. clock' = clock \/ Tick
    BY <1>2 DEF Next, WatchStart, WatchList, WatchStamp, WatchDone, SwitchAlerts,
       RequestAgentUpdate, RequestUpdate, Restart, vars
  <2> QED BY <1>1, <2>1 DEF Tick
<1>3. CASE Server # {}
  <2>1. clock' # clock => Tick
    BY <1>3, StepCauses DEF CausesAll
  <2> QED BY <1>1, <2>1 DEF Tick
<1> QED BY <1>2, <1>3

(* Only TouchServer moves a last_seen, and only a delete resets it.        *)
LEMMA SeenMoves ==
  ASSUME TypeOK, NEW s \in Server, [Next]_vars
  PROVE  \/ row'[s].lastSeen = row[s].lastSeen
         \/ row'[s].lastSeen = 0 /\ s \notin registered'
         \/ \E h \in Handler : Touch(s, h) /\ row'[s].lastSeen = push[s][h].now
<1>1. row[s] \in Row /\ row \in [Server -> Row]
  BY DEF TypeOK
<1>2. ASSUME NEW h \in Handler, Touch(s, h)
      PROVE  row'[s].lastSeen \in {row[s].lastSeen, push[s][h].now}
  <2>1. \/ row' = row
        \/ row' = [row EXCEPT ![s] = [row[s] EXCEPT !.lastSeen = push[s][h].now,
                                                   !.agent = push[s][h].version]]
    BY <1>1, <1>2 DEF Touch
  <2> QED BY <1>1, <2>1 DEF Row
<1>3. ASSUME NEW h \in Handler, Reply(s, h) PROVE row'[s].lastSeen = row[s].lastSeen
  BY <1>1, <1>3 DEF Reply, Row
<1>4. CASE DeleteRow(s)
  BY <1>1, <1>4 DEF DeleteRow, NewRow
<1>5. CASE RequestAgentUpdate
  BY <1>1, <1>5 DEF RequestAgentUpdate, RequestUpdate, Row
<1>6. \/ row'[s] = row[s] \/ DeleteRow(s) \/ RequestAgentUpdate
      \/ \E h \in Handler : Touch(s, h) \/ Reply(s, h)
  BY StepCauses DEF Causes
<1> QED BY <1>2, <1>3, <1>4, <1>5, <1>6

LEMMA SeenStep == TypeOK /\ SeenInv /\ [Next]_vars => SeenInv'
<1> SUFFICES ASSUME TypeOK, SeenInv, [Next]_vars, NEW s \in Server
             PROVE  SeenOf(s)'
  BY DEF SeenInv
<1>1. SeenOf(s) /\ Causes(s) /\ (s \notin gaveUp' => s \notin gaveUp)
  BY StepCauses DEF SeenInv, CausesAll
<1>2. /\ clock \in Int /\ clock' \in Int /\ clock' >= clock /\ clock >= 0
      /\ row[s].lastSeen \in Int /\ \A h \in Handler : push[s][h].now \in Int
  BY ClockAdvances DEF TypeOK, Row, Push
<1>3. agent[s] \in Agent /\ agent \in [Server -> Agent] /\ NoHandler \notin Handler
  BY IngestAssumption DEF TypeOK
<1>4. row'[s].lastSeen <= clock'
  <2>1. \A h \in Handler : Touch(s, h) => push[s][h].now <= clock
    BY <1>1 DEF Touch, SeenOf
  <2> QED BY <1>1, <1>2, <2>1, SeenMoves DEF SeenOf
<1>5. ASSUME s \notin gaveUp', NEW h \in Handler, Serving(s, h)'
      PROVE  agent'[s].waiting = h
  <2>1. Serving(s, h) => agent[s].waiting = h
    BY <1>1, <1>5 DEF SeenOf
  <2>2. ASSUME NEW g \in Handler, Arrive(s, g) PROVE agent'[s].waiting = h
    <3>1. agent'[s].waiting = g /\ agent[s].waiting = NoHandler
      BY <1>3, <2>2 DEF Arrive, Agent
    <3>2. g # h => push'[s][h] = push[s][h]
      BY <2>2, PushMoves DEF Arrive
    <3> QED BY <1>3, <1>5, <2>1, <3>1, <3>2 DEF Serving
  <2>3. ASSUME NEW g \in Handler, Reply(s, g) PROVE agent'[s].waiting = h
    <3>1. g # h /\ push'[s][h] = push[s][h]
      BY <1>5, <2>3, PushMoves DEF Reply, Serving, Idle
    <3> QED BY <1>5, <2>1, <2>3, <3>1 DEF Reply, Answered, Serving
  <2>4. ASSUME ~Restart, \A g \in Handler : ~Arrive(s, g) /\ ~Reply(s, g)
        PROVE  agent'[s].waiting = h
    <3>1. Serving(s, h)
      <4>1. ASSUME NEW g \in Handler, PushNext(s, g) PROVE Serving(s, h)
        <5>1. PICK p : Becomes(s, g, p) /\ (p.step # "idle" => Serving(s, g))
          BY <2>4, <4>1, PushGoes
        <5> QED BY <1>5, <5>1, PushMoves DEF Serving
      <4> QED BY <1>1, <1>5, <2>4, <4>1 DEF Causes, Serving
    <3>2. ~GiveUp(s)
      BY <1>5 DEF GiveUp
    <3>3. AgentUpdates(s) => agent'[s].waiting = agent[s].waiting
      BY <1>3 DEF AgentUpdates, Agent
    <3> QED BY <1>1, <2>1, <2>4, <3>1, <3>2, <3>3 DEF Causes
  <2>5. ~Restart
    BY <1>5 DEF Restart, Serving, Idle
  <2> QED BY <2>2, <2>3, <2>4, <2>5
<1>6. ASSUME NEW h \in Handler, push'[s][h].step = "touch"
      PROVE  /\ push'[s][h].now <= clock'
             /\ s \notin gaveUp' => row'[s].lastSeen <= push'[s][h].now
  <2>1. CASE PutLive(s, h)
    <3>1. push'[s][h] = [push[s][h] EXCEPT !.step = "touch", !.now = clock] /\ row' = row
      BY <2>1, PushMoves DEF PutLive
    <3>2. push[s][h] \in Push
      BY DEF TypeOK
    <3>3. push'[s][h].now = clock
      BY <3>1, <3>2 DEF Push
    <3> QED BY <1>1, <1>2, <3>1, <3>3 DEF SeenOf
  <2>2. CASE ~PutLive(s, h)
    <3>1. push'[s][h] = push[s][h]
      <4>1. ASSUME NEW g \in Handler, PushNext(s, g) PROVE push'[s][h] = push[s][h]
        BY <1>6, <2>2, <4>1, PushGoes, PushMoves
      <4>2. ~Restart
        BY <1>6 DEF Restart, Idle
      <4> QED BY <1>1, <4>1, <4>2 DEF Causes
    <3>2. push[s][h].now <= clock /\ (s \notin gaveUp => row[s].lastSeen <= push[s][h].now)
      BY <1>1, <1>6, <3>1 DEF SeenOf
    <3>3. ASSUME s \notin gaveUp, NEW g \in Handler, Touch(s, g) PROVE FALSE
      <4>1. Serving(s, g) /\ Serving(s, h)
        BY <1>6, <3>1, <3>3 DEF Touch, Serving
      <4>2. g = h
        BY <1>1, <3>3, <4>1 DEF SeenOf
      <4>3. push'[s][g].step = "persist"
        BY <3>3, PushMoves DEF Touch, TypeOK, Push
      <4> QED BY <1>6, <4>2, <4>3
    <3>4. push[s][h].now >= 0
      BY DEF TypeOK, Push
    <3> QED BY <1>1, <1>2, <3>1, <3>2, <3>3, <3>4, SeenMoves
  <2> QED BY <2>1, <2>2
<1> QED BY <1>4, <1>5, <1>6 DEF SeenOf

LEMMA SeenHolds == Spec => []SeenInv
<1>1. Init => SeenInv
  BY IngestAssumption DEF Init, SeenInv, SeenOf, NewRow, Idle, Serving
<1> QED BY <1>1, SeenStep, TypeCorrect, PTL DEF Spec

(* For any number of goroutines: last_seen goes back only on a server      *)
(* whose agent has given up on a push before.                              *)
THEOREM LastSeenHolds == Spec => LastSeenAdvances
<1> DEFINE Claim == \A s \in registered \cap registered' :
             row'[s].lastSeen < row[s].lastSeen => s \in gaveUp
<1>1. TypeOK /\ SeenInv /\ [Next]_vars => [Claim]_vars
  <2> SUFFICES ASSUME TypeOK, SeenInv, [Next]_vars, NEW s \in registered \cap registered',
                      row'[s].lastSeen < row[s].lastSeen, s \notin gaveUp
               PROVE  FALSE
    OBVIOUS
  <2>1. s \in Server /\ row[s].lastSeen \in Int
    BY DEF TypeOK, Row
  <2>2. ASSUME NEW h \in Handler, Touch(s, h)
        PROVE  row[s].lastSeen <= push[s][h].now /\ push[s][h].now \in Int
    BY <2>1, <2>2 DEF Touch, SeenInv, SeenOf, TypeOK, Push
  <2> QED BY <2>1, <2>2, SeenMoves
<1> QED BY <1>1, SeenHolds, TypeCorrect, PTL DEF Spec, LastSeenAdvances

-----------------------------------------------------------------------------
(* checkOffline *)

(* What checkOffline goes by: the copies of last_seen it took are still    *)
(* those of the table, but for the servers touched or deleted since.       *)
WatchInv ==
  /\ watch.step \in {"idle", "list"} => watch.todo = {}
  /\ watch.step = "check" => watch.now <= clock
  /\ watch.todo \subseteq used
  /\ \A s \in watch.todo \cap registered :
       s \notin watch.touched => watch.seen[s] = row[s].lastSeen

(* Between ListServers and the end of the pass the list only gets shorter. *)
LEMMA WatchStep == TypeOK /\ WatchInv /\ [Next]_vars => WatchInv'
<1> SUFFICES ASSUME TypeOK, WatchInv, [Next]_vars PROVE WatchInv'
  OBVIOUS
<1>1. /\ watch \in Watch /\ watch.todo \subseteq Server
      /\ clock' \in Int /\ clock \in Int /\ clock' >= clock /\ watch.now \in Int
  BY ClockAdvances DEF TypeOK, Watch
<1>2. CASE WatchStart
  BY <1>1, <1>2 DEF WatchStart, WatchInv, Watch
<1>3. CASE WatchList
  BY <1>3 DEF WatchList, WatchInv, NoWatch, TypeOK
<1>4. CASE WatchStamp
  BY <1>1, <1>4 DEF WatchStamp, WatchInv, Watch
<1>5. CASE WatchDone \/ Restart
  BY <1>5 DEF WatchDone, Restart, WatchInv, NoWatch
<1>6. ASSUME NEW t \in Server, WatchCheck(t) PROVE WatchInv'
  <2>1. \/ watch' = [watch EXCEPT !.todo = watch.todo \ {t}]
        \/ \E q : watch' = [watch EXCEPT !.todo = watch.todo \ {t}, !.queue = q]
    BY <1>6 DEF WatchCheck
  <2>2. /\ watch'.step = watch.step /\ watch'.todo \subseteq watch.todo
        /\ watch'.now = watch.now /\ watch'.seen = watch.seen
        /\ watch'.touched = watch.touched
    BY <1>1, <2>1 DEF Watch
  <2>3. UNCHANGED <<clock, used, registered, row>>
    BY <1>6 DEF WatchCheck
  <2> QED BY <2>2, <2>3 DEF WatchInv
<1>7. ASSUME NEW t \in Server, WatchFire(t) PROVE WatchInv'
  BY <1>1, <1>7 DEF WatchFire, WatchInv, Watch
<1>8. ASSUME NEW t \in Server, NEW h \in Handler, Touch(t, h) PROVE WatchInv'
  <2>1. /\ watch'.step = watch.step /\ watch'.todo = watch.todo /\ watch'.now = watch.now
        /\ watch'.seen = watch.seen /\ watch.touched \subseteq watch'.touched
    BY <1>1, <1>8 DEF Touch, Watch
  <2>2. /\ \A s \in Server : s # t => row'[s] = row[s]
        /\ row'[t] # row[t] =>
             t \in watch'.touched \/ watch.step \notin {"stamp", "check"}
    BY <1>1, <1>8 DEF Touch, Watch, TypeOK
  <2>3. watch.step \notin {"stamp", "check"} => watch.todo = {}
    BY <1>1 DEF WatchInv, Watch
  <2> QED BY <1>1, <1>8, <2>1, <2>2, <2>3 DEF Touch, WatchInv, TypeOK
<1>9. ASSUME watch' = watch,
             \A t \in Server, h \in Handler : ~Touch(t, h)
      PROVE  WatchInv'
  <2>1. ASSUME NEW s \in watch.todo \cap registered'
        PROVE  s \in registered /\ row'[s].lastSeen = row[s].lastSeen
    <3>1. s \in Server /\ Causes(s)
      BY <1>1, StepCauses
    <3>2. s \in registered
      BY <2>1, <3>1 DEF Causes, CreateServer, WatchInv
    <3> QED BY <1>9, <2>1, <3>1, <3>2, SeenMoves
  <2>2. watch.todo \subseteq used'
    <3>1. ASSUME NEW s \in watch.todo PROVE s \in used'
      BY <1>1, <3>1, StepCauses DEF CausesAll, WatchInv
    <3> QED BY <3>1
  <2> QED BY <1>1, <1>9, <2>1, <2>2 DEF WatchInv
<1> QED BY <1>2, <1>3, <1>4, <1>5, <1>6, <1>7, <1>8, <1>9, WatchCauses

LEMMA WatchHolds == Spec => []WatchInv
<1>1. Init => WatchInv
  BY DEF Init, WatchInv, NoWatch
<1> QED BY <1>1, WatchStep, TypeCorrect, PTL DEF Spec

(* For every OfflineAfter and any number of servers: an offline alert that *)
(* goes up is true at that moment of every server not touched, or deleted, *)
(* since the pass read its list.                                           *)
THEOREM AlarmHolds == Spec => AlarmIsCurrent
<1> DEFINE Claim == \A s \in registered :
             /\ ~alerts[s].offline /\ alerts'[s].offline
             /\ s \notin watch.touched
             => clock - row[s].lastSeen > OfflineAfter
<1>1. TypeOK /\ WatchInv /\ [Next]_vars => [Claim]_vars
  <2> SUFFICES ASSUME TypeOK, WatchInv, [Next]_vars, NEW s \in registered,
                      ~alerts[s].offline, alerts'[s].offline, s \notin watch.touched
               PROVE  clock - row[s].lastSeen > OfflineAfter
    OBVIOUS
  <2>1. /\ s \in Server /\ row[s].lastSeen \in Int /\ clock \in Int /\ watch.now \in Int
        /\ OfflineAfter \in Int
    <3>1. s \in Server /\ row \in [Server -> Row] /\ watch \in Watch
      BY DEF TypeOK
    <3> QED BY <3>1, ClockAdvances, IngestAssumption DEF Row, Watch
  <2>2. alerts \in [Server -> AlertState] /\ alerts[s] \in AlertState
    BY <2>1 DEF TypeOK
  <2>3. ~Restart /\ ~Forget(s)
    BY <2>1, <2>2 DEF Restart, Forget, Fresh
  <2>4. ASSUME NEW h \in Handler, Judge(s, h) PROVE FALSE
    BY <2>1, <2>2, <2>4 DEF Judge, Observed
  <2>5. WatchCheck(s)
    BY <2>1, <2>3, <2>4, StepCauses DEF Causes
  <2>6. Down(s)
    BY <2>1, <2>2, <2>5 DEF WatchCheck, SilenceJudged, AlertState
  <2>7. watch.seen[s] = row[s].lastSeen /\ watch.now <= clock
    BY <2>5 DEF WatchCheck, WatchInv
  <2> QED BY <2>1, <2>6, <2>7 DEF Down
<1> QED BY <1>1, WatchHolds, TypeCorrect, PTL DEF Spec, AlarmIsCurrent

-----------------------------------------------------------------------------
(* Announcements *)

(* What has been announced of an alert since the engine's entry was made   *)
(* is whether it is up.                                                    *)
TalliedOf(s) ==
  \A k \in Kind : tally[s][k] = IF Raised(alerts[s], k) THEN 1 ELSE 0

TallyInv == \A s \in Server : TalliedOf(s)

LEMMA TallyStep == TypeOK /\ TallyInv /\ [Next]_vars => TallyInv'
<1> SUFFICES ASSUME TypeOK, TallyInv, [Next]_vars, NEW s \in Server
             PROVE  TalliedOf(s)'
  BY DEF TallyInv
<1>1. /\ TalliedOf(s) /\ Causes(s)
      /\ alerts[s] \in AlertState /\ tally[s] \in [Kind -> Int]
  BY StepCauses DEF TallyInv, TypeOK
<1>2. CASE Restart \/ Forget(s)
  <2>1. alerts'[s] = Fresh /\ tally'[s] = NoTally
    BY <1>2 DEF Restart, Forget, TypeOK
  <2> QED BY <2>1, FreshIsSilent DEF TalliedOf
<1>3. ASSUME WatchCheck(s) PROVE TalliedOf(s)'
  <2>1. \/ UNCHANGED <<alerts, tally>>
        \/ /\ alerts'[s] = SilenceJudged(alerts[s], Down(s))
           /\ tally'[s] = Counted(tally[s], SilenceNotices(alerts[s], Down(s)))
    BY <1>3 DEF WatchCheck, TypeOK
  <2>2. Down(s) \in BOOLEAN
    BY DEF Down
  <2>3. ASSUME NEW k \in Kind
        PROVE  tally'[s][k] = IF Raised(alerts'[s], k) THEN 1 ELSE 0
    <3> DEFINE new == SilenceJudged(alerts[s], Down(s))
               notices == SilenceNotices(alerts[s], Down(s))
    <3>1. /\ Firing(k) \in notices <=> ~Raised(alerts[s], k) /\ Raised(new, k)
          /\ Cleared(k) \in notices <=> Raised(alerts[s], k) /\ ~Raised(new, k)
      BY <1>1, <2>2, SilenceAnnouncesChanges
    <3>2. tally[s][k] = IF Raised(alerts[s], k) THEN 1 ELSE 0
      BY <1>1 DEF TalliedOf
    <3>3. Counted(tally[s], notices)[k] = IF Raised(new, k) THEN 1 ELSE 0
      <4> HIDE DEF new, notices
      <4> QED BY <1>1, <3>1, <3>2, TallyFollows
    <3> QED BY <2>1, <3>2, <3>3
  <2> QED BY <2>3 DEF TalliedOf
<1>4. ASSUME NEW h \in Handler, Judge(s, h) PROVE TalliedOf(s)'
  <2>1. PICK v \in Reading :
          /\ alerts'[s] = Observed(alerts[s], v, settings)
          /\ tally'[s] = Counted(tally[s], ObserveNotices(alerts[s], v, settings))
    BY <1>4 DEF Judge, TypeOK
  <2>2. /\ v \in [Usage -> Nat]
        /\ settings.sustain \in Nat /\ settings.threshold \in [Usage -> Nat]
    BY IngestAssumption, RulesAssumption DEF TypeOK, Settings
  <2>3. ASSUME NEW k \in Kind
        PROVE  tally'[s][k] = IF Raised(alerts'[s], k) THEN 1 ELSE 0
    <3> DEFINE new == Observed(alerts[s], v, settings)
               notices == ObserveNotices(alerts[s], v, settings)
    <3>1. /\ Firing(k) \in notices <=> ~Raised(alerts[s], k) /\ Raised(new, k)
          /\ Cleared(k) \in notices <=> Raised(alerts[s], k) /\ ~Raised(new, k)
      BY <1>1, <2>2, ObserveAnnouncesChanges
    <3>2. tally[s][k] = IF Raised(alerts[s], k) THEN 1 ELSE 0
      BY <1>1 DEF TalliedOf
    <3>3. Counted(tally[s], notices)[k] = IF Raised(new, k) THEN 1 ELSE 0
      <4> HIDE DEF new, notices
      <4> QED BY <1>1, <3>1, <3>2, TallyFollows
    <3> QED BY <2>1, <3>3
  <2> QED BY <2>3 DEF TalliedOf
<1>5. ASSUME alerts'[s] = alerts[s], tally'[s] = tally[s] PROVE TalliedOf(s)'
  BY <1>1, <1>5 DEF TalliedOf
<1> QED BY <1>1, <1>2, <1>3, <1>4, <1>5 DEF Causes

(* However pushes, checks, deletes and restarts interleave, for any number *)
(* of servers and goroutines: a notice is only ever a transition.          *)
THEOREM PipelineImplementsToggle == Spec => OnlyTransitionsAnnounced
<1> DEFINE Bits == tally \in [Server -> [Kind -> 0..1]]
<1>1. Init => Toggle!Init /\ TallyInv
  BY FreshIsSilent DEF Init, Toggle!Init, NoTally, TallyInv, TalliedOf
<1>2. TypeOK /\ TallyInv => Bits
  BY DEF TypeOK, TallyInv, TalliedOf
<1>3. TypeOK /\ Bits /\ Bits' /\ [Next]_vars => [Toggle!Next]_tally
  <2> SUFFICES ASSUME TypeOK, Bits, Bits', [Next]_vars, tally' # tally
               PROVE  Toggle!Next
    OBVIOUS
  <2>1. PICK s \in Server : tally'[s] # tally[s]
    OBVIOUS
  <2>2. Restart \/ Forget(s) \/ WatchCheck(s) \/ \E h \in Handler : Judge(s, h)
    BY <2>1, StepCauses DEF Causes
  <2>3. CASE Restart
    BY <2>3 DEF Restart, NoTally, Toggle!Restart, Toggle!Next
  <2>4. CASE Forget(s)
    BY <2>4 DEF Forget, NoTally, Toggle!Forget, Toggle!Next
  <2>5. CASE WatchCheck(s) \/ \E h \in Handler : Judge(s, h)
    <3>1. tally' = [tally EXCEPT ![s] = tally'[s]]
      BY <2>5 DEF WatchCheck, Judge
    <3>2. tally[s] \in [Kind -> 0..1] /\ tally'[s] \in [Kind -> 0..1]
      OBVIOUS
    <3>3. PICK up \in SUBSET {k \in Kind : tally[s][k] = 0},
               down \in SUBSET {k \in Kind : tally[s][k] = 1} :
            tally'[s] = [k \in Kind |-> IF k \in up THEN 1
                                         ELSE IF k \in down THEN 0 ELSE tally[s][k]]
      BY <3>2, TransitionsBetween
    <3>4. tally' = [tally EXCEPT ![s] = [k \in Kind |->
                      IF k \in up THEN 1 ELSE IF k \in down THEN 0 ELSE tally[s][k]]]
      BY <3>1, <3>3
    <3>5. Toggle!Announce(s)
      BY <3>4 DEF Toggle!Announce
    <3> QED BY <3>5 DEF Toggle!Next
  <2> QED BY <2>2, <2>3, <2>4, <2>5
<1> QED BY <1>1, <1>2, <1>3, TallyStep, TypeCorrect, PTL
        DEF Spec, OnlyTransitionsAnnounced, Toggle!Spec

-----------------------------------------------------------------------------
(* Deleted servers *)

Engaged(s) == s \in watch.todo \/ \E h \in Handler : Serving(s, h)

(* The delete under way is that of s, and it is about to do step st.       *)
Deleting(s, st) == s \in deleting.of /\ deleting.step = st

(* A server whose row is gone is out of every push and every list, and     *)
(* what is left of it is what its delete has not come to yet.              *)
GoneOf(s) ==
  /\ s \in deleting.of => s \in used /\ deleting.of = {s} /\ deleting.step # "idle"
  /\ Deleting(s, "row") => s \in registered /\ (s \notin overlapped => samples[s] = {})
  /\ Deleting(s, "live") \/ Deleting(s, "forget") => s \notin registered
  /\ s \in used \ (registered \cup overlapped) =>
       /\ ~Engaged(s) /\ samples[s] = {}
       /\ Deleting(s, "live") \/ live[s] = 0
       /\ Deleting(s, "live") \/ Deleting(s, "forget") \/ alerts[s] = Fresh

GoneInv == \A s \in Server : GoneOf(s)

(* Nobody takes up a server without a row.                                 *)
LEMMA EngagesRegistered ==
  ASSUME TypeOK, [Next]_vars, NEW s \in Server, Engaged(s)', ~Engaged(s)
  PROVE  s \in registered
<1>1. Causes(s) /\ watch \in Watch
  BY StepCauses DEF TypeOK
<1>2. ASSUME NEW h \in Handler, Serving(s, h)', ~Serving(s, h) PROVE s \in registered
  <2>1. ~Restart
    BY <1>2 DEF Restart, Serving, Idle
  <2>2. PICK g \in Handler : PushNext(s, g)
    BY <1>1, <1>2, <2>1 DEF Causes, Serving
  <2>3. PICK p : /\ Becomes(s, g, p)
                 /\ p.step = "put" => Arrive(s, g)
                 /\ p.step \notin {"idle", "put"} => Serving(s, g)
    BY <2>2, PushGoes
  <2>4. g = h /\ p.step = push'[s][h].step
    BY <1>2, <2>3, PushMoves DEF Serving
  <2>5. Arrive(s, g)
    BY <1>2, <2>3, <2>4 DEF Serving
  <2> QED BY <2>5 DEF Arrive
<1>3. ASSUME s \in watch'.todo, s \notin watch.todo PROVE s \in registered
  <2>1. WatchList => watch'.todo = registered
    BY DEF WatchList, NoWatch
  <2>2. ASSUME WatchStart \/ WatchStamp PROVE watch'.todo = watch.todo
    BY <1>1, <2>2 DEF WatchStart, WatchStamp, Watch
  <2>3. ASSUME WatchDone \/ Restart PROVE watch'.todo = {}
    BY <2>3 DEF WatchDone, Restart, NoWatch
  <2>4. ASSUME NEW t \in Server, WatchCheck(t) PROVE watch'.todo = watch.todo \ {t}
    BY <1>1, <2>4 DEF WatchCheck, Watch
  <2>5. ASSUME NEW t \in Server, WatchFire(t) PROVE watch'.todo = watch.todo
    BY <1>1, <2>5 DEF WatchFire, Watch
  <2>6. ASSUME NEW t \in Server, NEW h \in Handler, Touch(t, h)
        PROVE  watch'.todo = watch.todo
    BY <1>1, <2>6 DEF Touch, Watch
  <2> QED BY <1>3, <2>1, <2>2, <2>3, <2>4, <2>5, <2>6, WatchCauses
<1> QED BY <1>2, <1>3 DEF Engaged

(* What of a server without a row can still move, if nobody has taken it   *)
(* up: only its own delete does, or a restart.                             *)
LEMMA GoneStays ==
  ASSUME TypeOK, [Next]_vars, NEW s \in Server, s \notin registered, ~Engaged(s), ~Restart,
         \A t \in Server : ~OperatorNext(t)
  PROVE  UNCHANGED <<samples[s], live[s], alerts[s]>> /\ ~Engaged(s)'
<1>1. ~Engaged(s)'
  BY EngagesRegistered
<1>2. \A h \in Handler : ~Insert(s, h) /\ ~PutLive(s, h) /\ ~Judge(s, h)
  BY DEF Insert, PutLive, Judge, Engaged, Serving
<1>3. ~WatchCheck(s)
  BY DEF WatchCheck, Engaged
<1>4. ~DeleteSamples(s) /\ ~RemoveLive(s) /\ ~Forget(s)
  BY DEF OperatorNext
<1> QED BY <1>1, <1>2, <1>3, <1>4, StepCauses DEF Causes

LEMMA GoneDelete ==
  ASSUME TypeOK, GoneInv, WatchInv, NEW t \in Server, OperatorNext(t), NEW s \in Server
  PROVE  GoneOf(s)'
<1>1. GoneOf(s) /\ GoneOf(t) /\ deleting \in Deletion /\ registered \subseteq used
  BY DEF GoneInv, TypeOK
<1>2. CASE CreateServer(t)
  BY <1>1, <1>2 DEF CreateServer, GoneOf, Engaged, Deleting, Serving
<1>3. CASE DeleteSamples(t)
  <2>1. samples' = [samples EXCEPT ![t] = {}] /\ samples \in [Server -> SUBSET (0..MaxClock)]
    BY <1>3 DEF DeleteSamples, TypeOK
  <2>2. deleting' = [step |-> "row", of |-> {t}] /\ deleting.step = "idle" /\ t \in registered
    BY <1>3 DEF DeleteSamples
  <2>3. UNCHANGED <<registered, used, overlapped, live, alerts, watch, push>>
    BY <1>3 DEF DeleteSamples
  <2> QED BY <1>1, <2>1, <2>2, <2>3 DEF GoneOf, Engaged, Deleting, Serving
<1>4. CASE DeleteRow(t)
  <2>1. deleting' = [deleting EXCEPT !.step = "live"]
    BY <1>4 DEF DeleteRow
  <2>2. deleting'.step = "live" /\ deleting'.of = deleting.of /\ deleting.step = "row"
        /\ t \in deleting.of
    BY <1>1, <1>4, <2>1 DEF Deletion, DeleteRow
  <2>3. /\ registered' = registered \ {t}
        /\ overlapped' = IF Engaged(t) THEN overlapped \cup {t} ELSE overlapped
        /\ UNCHANGED <<used, samples, live, alerts, watch, push>>
    BY <1>4 DEF DeleteRow, Engaged
  <2>4. Engaged(s)' <=> Engaged(s)
    BY <2>3 DEF Engaged, Serving
  <2>5. CASE s = t
    BY <1>1, <2>2, <2>3, <2>4, <2>5 DEF GoneOf, Deleting
  <2>6. CASE s # t
    BY <1>1, <2>2, <2>3, <2>4, <2>6 DEF GoneOf, Deleting
  <2> QED BY <2>5, <2>6
<1>5. CASE DeleteFails(t)
  <2>1. deleting'.step = "idle" /\ deleting'.of = {} /\ Deleting(t, "row")
    BY <1>5 DEF DeleteFails, NoDelete, Deleting
  <2>2. UNCHANGED <<registered, used, overlapped, samples, live, alerts, watch, push>>
    BY <1>5 DEF DeleteFails
  <2> QED BY <1>1, <2>1, <2>2 DEF GoneOf, Engaged, Deleting, Serving
<1>6. CASE RemoveLive(t)
  <2>1. deleting' = [deleting EXCEPT !.step = "forget"]
    BY <1>6 DEF RemoveLive
  <2>2. deleting'.step = "forget" /\ deleting'.of = deleting.of /\ Deleting(t, "live")
    BY <1>1, <1>6, <2>1 DEF Deletion, RemoveLive, Deleting
  <2>3. live'[t] = 0 /\ (s # t => live'[s] = live[s])
    BY <1>6 DEF RemoveLive, TypeOK
  <2>4. UNCHANGED <<registered, used, overlapped, samples, alerts, watch, push>>
    BY <1>6 DEF RemoveLive
  <2> QED BY <1>1, <2>2, <2>3, <2>4 DEF GoneOf, Engaged, Deleting, Serving
<1>7. CASE Forget(t)
  <2>1. deleting'.step = "idle" /\ deleting'.of = {} /\ Deleting(t, "forget")
    BY <1>7 DEF Forget, NoDelete, Deleting
  <2>2. alerts'[t] = Fresh /\ (s # t => alerts'[s] = alerts[s])
    BY <1>7 DEF Forget, TypeOK
  <2>3. UNCHANGED <<registered, used, overlapped, samples, live, watch, push>>
    BY <1>7 DEF Forget
  <2> QED BY <1>1, <2>1, <2>2, <2>3 DEF GoneOf, Engaged, Deleting, Serving
<1> QED BY <1>2, <1>3, <1>4, <1>5, <1>6, <1>7 DEF OperatorNext

LEMMA GoneStep == TypeOK /\ WatchInv /\ GoneInv /\ [Next]_vars => GoneInv'
<1> SUFFICES ASSUME TypeOK, WatchInv, GoneInv, [Next]_vars, NEW s \in Server
             PROVE  GoneOf(s)'
  BY DEF GoneInv
<1>1. GoneOf(s) /\ Causes(s) /\ CausesAll
  BY StepCauses DEF GoneInv
<1>2. CASE Restart
  <2>1. /\ deleting'.of = {} /\ ~Engaged(s)' /\ live'[s] = 0 /\ alerts'[s] = Fresh
        /\ UNCHANGED <<registered, used, overlapped, samples>>
    BY <1>2 DEF Restart, NoDelete, NoWatch, Idle, Engaged, Serving
  <2> QED BY <1>1, <2>1 DEF GoneOf, Deleting
<1>3. CASE \E t \in Server : OperatorNext(t)
  BY <1>3, GoneDelete
<1>4. ASSUME ~Restart, \A t \in Server : ~OperatorNext(t) PROVE GoneOf(s)'
  <2>1. /\ deleting' = deleting /\ overlapped \subseteq overlapped'
        /\ (s \in registered' <=> s \in registered) /\ (s \in used' <=> s \in used)
    BY <1>1, <1>4 DEF Causes, CausesAll, OperatorNext
  <2>2. Deleting(s, "row") => samples'[s] = samples[s] \/ s \in overlapped'
    <3>1. ASSUME NEW h \in Handler, Insert(s, h), Deleting(s, "row") PROVE s \in overlapped'
      BY <3>1 DEF Insert, Deleting
    <3>2. ~DeleteSamples(s)
      BY <1>4 DEF OperatorNext
    <3> QED BY <1>1, <3>1, <3>2 DEF Causes
  <2>3. ASSUME s \in used' \ (registered' \cup overlapped')
        PROVE  /\ ~Engaged(s) /\ ~Engaged(s)'
               /\ UNCHANGED <<samples[s], live[s], alerts[s]>>
    <3>1. s \notin registered /\ ~Engaged(s)
      BY <1>1, <2>1, <2>3 DEF GoneOf
    <3> QED BY <1>4, <3>1, GoneStays
  <2> QED BY <1>1, <2>1, <2>2, <2>3 DEF GoneOf, Deleting
<1> QED BY <1>2, <1>3, <1>4

LEMMA GoneHolds == Spec => []GoneInv
<1>1. Init => GoneInv
  BY DEF Init, GoneInv, GoneOf, Engaged, Serving, NoWatch, Idle, NoDelete, Deleting
<1> QED BY <1>1, GoneStep, WatchHolds, TypeCorrect, PTL DEF Spec

(* For any number of servers, goroutines and overlapping requests: a       *)
(* deleted server leaves something behind only if a push or a check had    *)
(* hold of it when its row went.                                           *)
THEOREM DeletedLeaveNothing == Spec => []DeletedLeavesNothing
<1>1. TypeOK /\ GoneInv => DeletedLeavesNothing
  BY DEF TypeOK, GoneInv, GoneOf, Deleting, DeletedLeavesNothing
<1> QED BY <1>1, GoneHolds, TypeCorrect, PTL

-----------------------------------------------------------------------------
(* Events in the table *)

(* No row comes from a run of the hub yet to come, or from a server yet to *)
(* be created, which nobody has taken up either.                           *)
PastInv ==
  /\ \A i \in 1..Len(events) :
       events[i].boot <= restarts /\ events[i].server \in used
  /\ \A s \in Server : \A h \in Handler : Serving(s, h) => s \in used
  /\ watch.queue \subseteq used

(* Between the engine's unlock and the last fire the table lags behind the *)
(* engine by what the push still has to send, and by nothing else.         *)
Owed(s, k, notices) ==
  LET up == SaidUp(s, k, Len(events)) IN
  /\ Firing(k) \in notices => Raised(alerts[s], k) /\ ~up
  /\ Cleared(k) \in notices => ~Raised(alerts[s], k) /\ up
  /\ Firing(k) \notin notices /\ Cleared(k) \notin notices => (up <=> Raised(alerts[s], k))

TellingOf(s) ==
  \A k \in Usage :
    /\ \A i \in 1..Len(events) :
         Tells(i, s, k) => (events[i].state = "firing" <=> ~SaidUp(s, k, i - 1))
    /\ \A h \in Handler : push[s][h].step = "fire" => Owed(s, k, push[s][h].queue)
    /\ (\A h \in Handler : push[s][h].step # "fire") => Owed(s, k, {})

(* Kept for the servers there are and those to come: a deleted server's    *)
(* alerts are forgotten before its pushes have ended.                      *)
TellingInv ==
  \A s \in Server : s \in registered \/ s \notin used => s \in gaveUp \/ TellingOf(s)

(* A row more leaves what the table said before, and says its own alert.   *)
LEMMA RowAdded ==
  ASSUME events \in Seq(Event), NEW e \in Event, events' = Append(events, e),
         e.boot = restarts, restarts' = restarts, NEW s \in Server, NEW k \in Usage,
         NEW new \in Nat, new = Len(events) + 1
  PROVE  /\ Len(events') = new /\ events'[new] = e
         /\ \A i \in 1..Len(events) :
              events'[i] = events[i] /\ (Tells(i, s, k)' <=> Tells(i, s, k))
         /\ \A n \in 0..Len(events) : SaidUp(s, k, n)' <=> SaidUp(s, k, n)
         /\ e.server = s /\ e.kind = k =>
              Tells(new, s, k)' /\ (SaidUp(s, k, new)' <=> e.state = "firing")
         /\ e.server # s \/ e.kind # k =>
              ~Tells(new, s, k)' /\ (SaidUp(s, k, new)' <=> SaidUp(s, k, Len(events)))
<1> DEFINE told == e.server = s /\ e.kind = k
<1>1. /\ Len(events) \in Nat /\ Len(events') = new /\ events'[new] = e
      /\ \A i \in 1..Len(events) : events'[i] = events[i]
  OBVIOUS
<1>2. /\ Tells(new, s, k)' <=> told
      /\ \A i \in 1..Len(events) : Tells(i, s, k)' <=> Tells(i, s, k)
  BY <1>1 DEF Tells
<1>3. \A n \in 0..Len(events) : SaidUp(s, k, n)' <=> SaidUp(s, k, n)
  BY <1>1, <1>2 DEF SaidUp
<1>4. ASSUME told PROVE SaidUp(s, k, new)' <=> e.state = "firing"
  <2>1. \A i \in 1..new : (\A j \in (i + 1)..new : ~Tells(j, s, k)') => i = new
    BY <1>1, <1>2, <1>4
  <2>2. \A j \in (new + 1)..new : FALSE
    OBVIOUS
  <2>3. SaidUp(s, k, new)' <=> \E i \in 1..new :
          /\ Tells(i, s, k)' /\ events'[i].state = "firing"
          /\ \A j \in (i + 1)..new : ~Tells(j, s, k)'
    BY DEF SaidUp
  <2>4. new \in 1..new
    BY <1>1
  <2> QED BY <1>1, <1>2, <1>4, <2>1, <2>2, <2>3, <2>4
<1>5. ASSUME ~told PROVE SaidUp(s, k, new)' <=> SaidUp(s, k, Len(events))
  <2>1. 1..new = 1..Len(events) \cup {new}
    BY <1>1
  <2>2. \A i \in 1..Len(events) : (i + 1)..new = (i + 1)..Len(events) \cup {new}
    BY <1>1
  <2> QED BY <1>1, <1>2, <1>5, <2>1, <2>2 DEF SaidUp
<1> QED BY <1>1, <1>2, <1>3, <1>4, <1>5

(* Rows come from fire, of a push or of checkOffline.                      *)
LEMMA RowCauses ==
  ASSUME [Next]_vars
  PROVE  /\ restarts' # restarts => Restart
         /\ events' # events =>
              \E s \in Server : WatchFire(s) \/ \E h \in Handler : Fire(s, h)
<1>1. ASSUME NEW s \in Server, NEW h \in Handler, PushNext(s, h)
      PROVE  restarts' = restarts /\ (Fire(s, h) \/ events' = events)
  BY <1>1 DEF PushNext, Arrive, PutLive, Refuse, Touch, Persist, Insert, Consult, Judge,
     Fire, Reply
<1>2. ASSUME NEW s \in Server, OperatorNext(s) \/ GiveUp(s) \/ AgentUpdates(s)
      PROVE  restarts' = restarts /\ events' = events
  BY <1>2 DEF OperatorNext, CreateServer, DeleteSamples, DeleteRow, DeleteFails,
     RemoveLive, Forget, GiveUp, AgentUpdates
<1>3. ASSUME NEW s \in Server, WatchCheck(s) \/ WatchFire(s)
      PROVE  restarts' = restarts /\ (WatchFire(s) \/ events' = events)
  BY <1>3 DEF WatchCheck, WatchFire
<1>4. CASE WatchStart \/ WatchList \/ WatchStamp \/ WatchDone \/ SwitchAlerts
           \/ RequestAgentUpdate \/ Tick \/ UNCHANGED vars
  BY <1>4 DEF WatchStart, WatchList, WatchStamp, WatchDone, SwitchAlerts,
     RequestAgentUpdate, RequestUpdate, Tick, vars
<1>5. Restart => events' = events
  BY DEF Restart
<1> QED BY <1>1, <1>2, <1>3, <1>4, <1>5 DEF Next

(* What one row more can be.                                               *)
LEMMA RowOf ==
  ASSUME TypeOK, "event" \notin Failing, NEW s \in Server
  PROVE  /\ \A h \in Handler : Fire(s, h) =>
              \E n \in push[s][h].queue :
                /\ n \in Notice
                /\ Recorded(s, n, push[s][h].now) \in Event
                /\ events' = Append(events, Recorded(s, n, push[s][h].now))
                /\ Becomes(s, h, [push[s][h] EXCEPT !.queue = @ \ {n},
                             !.step = IF push[s][h].queue = {n} THEN "reply" ELSE "fire"])
         /\ WatchFire(s) =>
              /\ Recorded(s, Firing("offline"), watch.now) \in Event
              /\ events' = Append(events, Recorded(s, Firing("offline"), watch.now))
<1>1. ASSUME NEW h \in Handler, Fire(s, h), NEW n \in push[s][h].queue
      PROVE  n \in Notice /\ Recorded(s, n, push[s][h].now) \in Event
  BY DEF TypeOK, Push, Recorded, Event, Notice
<1>2. Recorded(s, Firing("offline"), watch.now) \in Event
  BY DEF TypeOK, Watch, Recorded, Event, Firing, Kind
<1> QED BY <1>1, <1>2 DEF Fire, WatchFire, WriteOutcome

LEMMA PastStep ==
  ASSUME "event" \notin Failing
  PROVE  TypeOK /\ WatchInv /\ PastInv /\ [Next]_vars => PastInv'
<1> SUFFICES ASSUME TypeOK, WatchInv, PastInv, [Next]_vars PROVE PastInv'
  OBVIOUS
<1>1. events \in Seq(Event) /\ restarts \in Nat /\ watch \in Watch
  BY IngestAssumption DEF TypeOK
<1>2. ASSUME NEW s \in used PROVE s \in used' /\ s \in Server
  BY <1>2, StepCauses DEF CausesAll, TypeOK
<1>3. restarts' \in Nat /\ restarts' >= restarts
  BY <1>1, RowCauses DEF Restart
<1>4. \A i \in 1..Len(events') : events'[i].boot <= restarts' /\ events'[i].server \in used'
  <2>1. \A i \in 1..Len(events) :
          /\ events[i].boot \in Nat /\ events[i].boot <= restarts'
          /\ events[i].server \in used'
    <3>1. \A i \in 1..Len(events) : events[i] \in Event
      BY <1>1
    <3>2. \A i \in 1..Len(events) : events[i].boot \in Nat
      BY <3>1 DEF Event
    <3> QED BY <1>1, <1>2, <1>3, <3>2 DEF PastInv
  <2>2. ASSUME NEW e \in Event, events' = Append(events, e), e.boot = restarts,
               e.server \in used
        PROVE  \A i \in 1..Len(events') :
                 events'[i].boot <= restarts' /\ events'[i].server \in used'
    <3>1. e.boot <= restarts' /\ e.server \in used'
      BY <1>1, <1>2, <1>3, <2>2
    <3>2. Len(events') = Len(events) + 1 /\ events'[Len(events) + 1] = e
      BY <1>1, <2>2
    <3>3. \A i \in 1..Len(events) : events'[i] = events[i]
      BY <1>1, <2>2
    <3>4. Len(events) \in Nat
      BY <1>1
    <3> QED BY <2>1, <3>1, <3>2, <3>3, <3>4
  <2>3. ASSUME NEW s \in Server, NEW h \in Handler, Fire(s, h)
        PROVE  \E e \in Event : /\ events' = Append(events, e) /\ e.boot = restarts
                                /\ e.server \in used
    <3>1. s \in used
      BY <2>3 DEF Fire, PastInv, Serving
    <3> QED BY <2>3, <3>1, RowOf DEF Recorded
  <2>4. ASSUME NEW s \in Server, WatchFire(s)
        PROVE  \E e \in Event : /\ events' = Append(events, e) /\ e.boot = restarts
                                /\ e.server \in used
    <3>1. s \in used
      BY <2>4 DEF WatchFire, PastInv
    <3> QED BY <2>4, <3>1, RowOf DEF Recorded
  <2> QED BY <2>1, <2>2, <2>3, <2>4, RowCauses
<1>5. ASSUME NEW s \in Server, NEW h \in Handler, Serving(s, h)' PROVE s \in used'
  <2>1. Engaged(s) => s \in used
    BY DEF Engaged, WatchInv, PastInv
  <2>2. Engaged(s)'
    BY <1>5 DEF Engaged
  <2>3. s \in registered => s \in used
    BY DEF TypeOK
  <2> QED BY <1>2, <2>1, <2>2, <2>3, EngagesRegistered
<1>6. watch'.queue \subseteq used'
  <2>1. ASSUME WatchStart \/ WatchStamp \/ \E s \in Server, h \in Handler : Touch(s, h)
        PROVE  watch'.queue = watch.queue
    BY <1>1, <2>1 DEF WatchStart, WatchStamp, Touch, Watch
  <2>2. ASSUME WatchList \/ WatchDone \/ Restart \/ \E s \in Server : WatchFire(s)
        PROVE  watch'.queue = {}
    <3>1. CASE WatchList
      BY <3>1 DEF WatchList, NoWatch
    <3>2. CASE WatchDone \/ Restart
      BY <3>2 DEF WatchDone, Restart, NoWatch
    <3>3. ASSUME NEW s \in Server, WatchFire(s) PROVE watch'.queue = {}
      BY <1>1, <3>3 DEF WatchFire, Watch
    <3> QED BY <2>2, <3>1, <3>2, <3>3
  <2>3. ASSUME NEW s \in Server, WatchCheck(s) PROVE watch'.queue \subseteq {s} /\ s \in used
    <3>1. watch'.queue \subseteq {s}
      <4>1. \/ watch' = [watch EXCEPT !.todo = watch.todo \ {s}] /\ watch.queue = {}
            \/ \E q \in {{}, {s}} : watch' = [watch EXCEPT !.todo = watch.todo \ {s}, !.queue = q]
        BY <2>3 DEF WatchCheck
      <4> QED BY <1>1, <4>1 DEF Watch
    <3> QED BY <2>3, <3>1 DEF WatchCheck, WatchInv
  <2> QED BY <1>2, <2>1, <2>2, <2>3, WatchCauses DEF PastInv
<1> QED BY <1>4, <1>5, <1>6 DEF PastInv

(* A step that sends nothing of s's and leaves its usage alerts as they    *)
(* are: what was told and what is owed stay as they were.                  *)
LEMMA TellingQuiet ==
  ASSUME TypeOK, NEW s \in Server, TellingOf(s), restarts' = restarts,
         \A k \in Usage : Raised(alerts'[s], k) <=> Raised(alerts[s], k),
         \A h \in Handler : push[s][h].step = "fire" \/ push'[s][h].step = "fire"
           => push'[s][h] = push[s][h],
         \/ events' = events
         \/ \E e \in Event : /\ events' = Append(events, e) /\ e.boot = restarts
                             /\ e.server # s \/ e.kind \notin Usage
  PROVE  TellingOf(s)'
<1> SUFFICES ASSUME NEW k \in Usage
             PROVE  /\ \A i \in 1..Len(events') : Tells(i, s, k)' =>
                         (events'[i].state = "firing" <=> ~SaidUp(s, k, i - 1)')
                    /\ \A h \in Handler : push'[s][h].step = "fire"
                         => Owed(s, k, push[s][h].queue)'
                    /\ (\A h \in Handler : push'[s][h].step # "fire") => Owed(s, k, {})'
  BY DEF TellingOf
<1>1. events \in Seq(Event) /\ Len(events) \in Nat
  BY DEF TypeOK
<1>2. /\ SaidUp(s, k, Len(events))' <=> SaidUp(s, k, Len(events))
      /\ \A i \in 1..Len(events') : Tells(i, s, k)' =>
           /\ i \in 1..Len(events) /\ Tells(i, s, k) /\ events'[i] = events[i]
           /\ SaidUp(s, k, i - 1)' <=> SaidUp(s, k, i - 1)
  <2>1. CASE events' = events
    BY <2>1 DEF Tells, SaidUp
  <2>2. ASSUME NEW e \in Event, events' = Append(events, e), e.boot = restarts,
               e.server # s \/ e.kind \notin Usage
        PROVE  <1>2!1 /\ <1>2!2
    <3>1. PICK new \in Nat : new = Len(events) + 1
      BY <1>1
    <3>2. /\ Len(events') = new /\ events'[new] = e
          /\ \A i \in 1..Len(events) :
               events'[i] = events[i] /\ (Tells(i, s, k)' <=> Tells(i, s, k))
          /\ \A n \in 0..Len(events) : SaidUp(s, k, n)' <=> SaidUp(s, k, n)
          /\ ~Tells(new, s, k)'
          /\ SaidUp(s, k, new)' <=> SaidUp(s, k, Len(events))
      <4>1. e.server # s \/ e.kind # k
        BY <2>2
      <4> QED BY <1>1, <2>2, <3>1, <4>1, RowAdded
    <3>3. \A i \in 1..new : i = new \/ (i \in 1..Len(events) /\ i - 1 \in 0..Len(events))
      BY <1>1, <3>1
    <3> QED BY <3>2, <3>3
  <2> QED BY <2>1, <2>2
<1> QED BY <1>2 DEF TellingOf, Owed

(* fire writes what the push owes, and owes that no more.                  *)
LEMMA TellingFire ==
  ASSUME TypeOK, "event" \notin Failing, NEW s \in Server, NEW h \in Handler, Fire(s, h),
         TellingOf(s), \A g \in Handler : Serving(s, g) => g = h
  PROVE  TellingOf(s)'
<1> DEFINE p == push[s][h]
<1>1. PICK n \in p.queue :
        /\ n \in Notice
        /\ Recorded(s, n, p.now) \in Event
        /\ events' = Append(events, Recorded(s, n, p.now))
        /\ Becomes(s, h, [p EXCEPT !.queue = @ \ {n},
                                   !.step = IF p.queue = {n} THEN "reply" ELSE "fire"])
  BY RowOf
<1>2. /\ p \in Push /\ p.step = "fire" /\ UNCHANGED <<alerts, restarts>>
      /\ events \in Seq(Event)
  BY DEF TypeOK, Fire
<1>3. /\ push'[s][h].queue = p.queue \ {n}
      /\ push'[s][h].step = IF p.queue = {n} THEN "reply" ELSE "fire"
  <2> DEFINE q == [p EXCEPT !.queue = @ \ {n},
                            !.step = IF p.queue = {n} THEN "reply" ELSE "fire"]
  <2>1. q.queue = p.queue \ {n} /\ q.step = IF p.queue = {n} THEN "reply" ELSE "fire"
    BY <1>2 DEF Push
  <2> HIDE DEF q
  <2>2. Becomes(s, h, q)
    BY <1>1 DEF q
  <2> QED BY <2>1, <2>2, PushMoves
<1>4. \A g \in Handler : g # h => push'[s][g].step = "idle"
  BY <1>1, PushMoves DEF Serving
<1> SUFFICES ASSUME NEW k \in Usage
             PROVE  /\ \A i \in 1..Len(events') : Tells(i, s, k)' =>
                         (events'[i].state = "firing" <=> ~SaidUp(s, k, i - 1)')
                    /\ \A g \in Handler : push'[s][g].step = "fire"
                         => Owed(s, k, push[s][g].queue)'
                    /\ (\A g \in Handler : push'[s][g].step # "fire") => Owed(s, k, {})'
  BY DEF TellingOf
<1>5. PICK new \in Nat : new = Len(events) + 1
  BY <1>2
<1> DEFINE e == Recorded(s, n, p.now)
           up == SaidUp(s, k, Len(events))
<1>6. /\ e.server = s /\ e.kind = n.kind /\ e.state = n.state /\ e.boot = restarts
      /\ e \in Event /\ events' = Append(events, e)
  BY <1>1 DEF Recorded
<1> HIDE DEF e
<1>7. /\ Len(events') = new /\ events'[new] = e
      /\ \A i \in 1..Len(events) :
           events'[i] = events[i] /\ (Tells(i, s, k)' <=> Tells(i, s, k))
      /\ \A m \in 0..Len(events) : SaidUp(s, k, m)' <=> SaidUp(s, k, m)
      /\ n.kind = k => SaidUp(s, k, new)' <=> n.state = "firing"
      /\ n.kind # k => ~Tells(new, s, k)' /\ (SaidUp(s, k, new)' <=> up)
  BY <1>2, <1>5, <1>6, RowAdded
<1>8. /\ Firing(k) # Cleared(k)
      /\ n.kind = k => \/ n = Firing(k) /\ n.state = "firing"
                       \/ n = Cleared(k) /\ n.state # "firing"
      /\ n.kind # k => n # Firing(k) /\ n # Cleared(k)
  BY <1>1 DEF Firing, Cleared, Notice
<1>9. Owed(s, k, p.queue)
  BY <1>2 DEF TellingOf
<1> PICK left : left = p.queue \ {n}
  OBVIOUS
<1>10. (n.kind = k => (n.state = "firing" <=> ~up)) /\ Owed(s, k, left)'
  <2>1. SaidUp(s, k, Len(events))' <=> SaidUp(s, k, new)'
    BY <1>7
  <2>2. n.kind = k => (n.state = "firing" <=> ~up)
    BY <1>8, <1>9 DEF Owed
  <2>3. CASE n.kind = k
    BY <1>2, <1>7, <1>8, <1>9, <2>1, <2>2, <2>3 DEF Owed
  <2>4. CASE n.kind # k
    BY <1>2, <1>7, <1>8, <1>9, <2>1, <2>4 DEF Owed
  <2> QED BY <2>2, <2>3, <2>4
<1>11. \A i \in 1..Len(events') : Tells(i, s, k)' =>
         (events'[i].state = "firing" <=> ~SaidUp(s, k, i - 1)')
  <2>1. \A i \in 1..new : i = new \/ (i \in 1..Len(events) /\ i - 1 \in 0..Len(events))
    BY <1>2, <1>5
  <2>2. new - 1 = Len(events) /\ Len(events) \in 0..Len(events)
    BY <1>2, <1>5
  <2>3. ASSUME Tells(new, s, k)' PROVE events'[new].state = "firing" <=> ~SaidUp(s, k, new - 1)'
    BY <1>6, <1>7, <1>10, <2>2, <2>3
  <2>4. ASSUME NEW i \in 1..Len(events), Tells(i, s, k)', i - 1 \in 0..Len(events)
        PROVE  events'[i].state = "firing" <=> ~SaidUp(s, k, i - 1)'
    BY <1>7, <2>4 DEF TellingOf
  <2> QED BY <1>7, <2>1, <2>3, <2>4
<1>12. ASSUME NEW g \in Handler, push'[s][g].step = "fire"
       PROVE  Owed(s, k, push[s][g].queue)'
  BY <1>3, <1>4, <1>10, <1>12 DEF Owed
<1>13. ASSUME \A g \in Handler : push'[s][g].step # "fire" PROVE Owed(s, k, {})'
  BY <1>3, <1>10, <1>13 DEF Owed
<1> QED BY <1>11, <1>12, <1>13

(* A verdict owes exactly the changes it made.                             *)
LEMMA TellingJudge ==
  ASSUME TypeOK, NEW s \in Server, NEW h \in Handler, Judge(s, h),
         TellingOf(s), \A g \in Handler : Serving(s, g) => g = h
  PROVE  TellingOf(s)'
<1> DEFINE p == push[s][h]
<1>1. PICK v \in Reading :
        LET notices == ObserveNotices(alerts[s], v, settings) IN
        /\ alerts'[s] = Observed(alerts[s], v, settings)
        /\ Becomes(s, h, [p EXCEPT !.step = IF notices = {} THEN "reply" ELSE "fire",
                                   !.queue = notices])
  BY DEF Judge, TypeOK
<1> DEFINE notices == ObserveNotices(alerts[s], v, settings)
<1>2. p \in Push /\ p.step = "judge" /\ UNCHANGED <<events, restarts>>
  BY DEF TypeOK, Judge
<1>3. /\ push'[s][h].queue = notices
      /\ push'[s][h].step = IF notices = {} THEN "reply" ELSE "fire"
  <2> DEFINE q == [p EXCEPT !.step = IF notices = {} THEN "reply" ELSE "fire",
                            !.queue = notices]
  <2>1. q.queue = notices /\ q.step = IF notices = {} THEN "reply" ELSE "fire"
    BY <1>2 DEF Push
  <2>2. Becomes(s, h, q)
    BY <1>1
  <2> HIDE DEF q
  <2> QED BY <2>1, <2>2, PushMoves
<1>4. \A g \in Handler : push[s][g].step # "fire" /\ (g # h => push'[s][g].step = "idle")
  BY <1>1, <1>2, PushMoves DEF Serving
<1>5. /\ alerts[s] \in AlertState /\ v \in [Usage -> Nat]
      /\ settings.sustain \in Nat /\ settings.threshold \in [Usage -> Nat]
  BY IngestAssumption, RulesAssumption DEF TypeOK, Settings
<1>6. PICK sent : sent = notices
  OBVIOUS
<1>7. ASSUME NEW k \in Usage PROVE Owed(s, k, sent)'
  <2>1. /\ Firing(k) \in notices <=> ~Raised(alerts[s], k) /\ Raised(alerts'[s], k)
        /\ Cleared(k) \in notices <=> Raised(alerts[s], k) /\ ~Raised(alerts'[s], k)
    BY <1>1, <1>5, ObserveAnnouncesChanges DEF Kind
  <2>2. SaidUp(s, k, Len(events)) <=> Raised(alerts[s], k)
    BY <1>4 DEF TellingOf, Owed
  <2>3. SaidUp(s, k, Len(events))' <=> SaidUp(s, k, Len(events))
    BY <1>2 DEF SaidUp, Tells
  <2> QED BY <1>6, <2>1, <2>2, <2>3 DEF Owed
<1> HIDE DEF notices
<1>8. ASSUME NEW k \in Usage
      PROVE  \A i \in 1..Len(events') : Tells(i, s, k)' =>
               (events'[i].state = "firing" <=> ~SaidUp(s, k, i - 1)')
  BY <1>2 DEF TellingOf, SaidUp, Tells
<1>9. ASSUME NEW k \in Usage, NEW g \in Handler, push'[s][g].step = "fire"
      PROVE  Owed(s, k, push[s][g].queue)'
  BY <1>3, <1>4, <1>6, <1>7, <1>9
<1>10. ASSUME NEW k \in Usage, \A g \in Handler : push'[s][g].step # "fire"
       PROVE  Owed(s, k, {})'
  BY <1>3, <1>6, <1>7, <1>10
<1> QED BY <1>8, <1>9, <1>10 DEF TellingOf

(* The steps of a push other than its verdict and its sendings.            *)
LEMMA TellingOther ==
  ASSUME TypeOK, NEW s \in Server, NEW h \in Handler, PushNext(s, h),
         ~Judge(s, h), ~Fire(s, h)
  PROVE  \A g \in Handler : push[s][g].step = "fire" \/ push'[s][g].step = "fire"
           => push'[s][g] = push[s][g]
<1>1. push[s][h].step # "fire"
  BY DEF PushNext, Arrive, PutLive, Refuse, Touch, Persist, Insert, Consult, Judge, Fire,
     Reply, Serving
<1>2. PICK p : Becomes(s, h, p) /\ p.step # "fire"
  <2>1. CASE Arrive(s, h)
    BY <2>1, PushGoes DEF Arrive, Idle
  <2>2. CASE Refuse(s, h) \/ Reply(s, h)
    BY <2>2 DEF Refuse, Reply, Idle
  <2>4. push[s][h] \in Push
    BY DEF TypeOK
  <2>5. CASE PutLive(s, h)
    <3> DEFINE q == [push[s][h] EXCEPT !.step = "touch", !.now = clock]
    <3>1. q.step = "touch"
      BY <2>4 DEF Push
    <3>2. Becomes(s, h, q)
      BY <2>5 DEF PutLive
    <3> HIDE DEF q
    <3> QED BY <3>1, <3>2
  <2>6. CASE Touch(s, h) \/ Insert(s, h)
    BY <2>4, <2>6 DEF Touch, Insert, Push
  <2>7. CASE Persist(s, h)
    BY <2>4, <2>7 DEF Persist, Push
  <2>8. CASE Consult(s, h)
    BY <2>4, <2>8 DEF Consult, Push
  <2> QED BY <2>1, <2>2, <2>5, <2>6, <2>7, <2>8 DEF PushNext
<1> QED BY <1>1, <1>2, PushMoves

LEMMA TellingStep ==
  ASSUME "event" \notin Failing
  PROVE  TypeOK /\ WatchInv /\ GoneInv /\ SeenInv /\ PastInv /\ TellingInv /\ [Next]_vars
           => TellingInv'
<1> SUFFICES ASSUME TypeOK, WatchInv, GoneInv, SeenInv, PastInv, TellingInv, [Next]_vars,
                    NEW s \in Server, s \in registered' \/ s \notin used', s \notin gaveUp'
             PROVE  TellingOf(s)'
  BY DEF TellingInv
<1>1. Causes(s) /\ CausesAll
  BY StepCauses
<1>2. TellingOf(s) /\ (s \in registered \/ s \notin used) /\ s \notin gaveUp
  BY <1>1 DEF Causes, CausesAll, CreateServer, TellingInv
<1>3. \A g, h \in Handler : Serving(s, g) /\ Serving(s, h) => g = h
  BY <1>2 DEF SeenInv, SeenOf
<1>4. alerts[s] \in AlertState /\ alerts \in [Server -> AlertState]
  BY DEF TypeOK
<1>5. CASE Restart
  <2>1. /\ restarts' = restarts + 1 /\ restarts \in Nat /\ events' = events
        /\ alerts'[s] = Fresh /\ \A h \in Handler : push'[s][h].step = "idle"
    BY <1>5, IngestAssumption DEF Restart, TypeOK, Idle
  <2>2. \A i \in 1..Len(events) : events[i].boot \in Int
    <3>1. \A i \in 1..Len(events) : events[i] \in Event
      BY DEF TypeOK
    <3> QED BY <3>1 DEF Event
  <2>3. ASSUME NEW k \in Usage PROVE \A i \in 1..Len(events) : ~Tells(i, s, k)'
    BY <2>1, <2>2 DEF PastInv, Tells
  <2>4. ASSUME NEW k \in Usage PROVE ~SaidUp(s, k, Len(events))' /\ ~Raised(alerts'[s], k)
    BY <2>1, <2>3, FreshIsSilent DEF SaidUp, Kind
  <2> QED BY <2>1, <2>3, <2>4 DEF TellingOf, Owed
<1>6. ASSUME NEW h \in Handler, Fire(s, h) PROVE TellingOf(s)'
  BY <1>2, <1>3, <1>6, TellingFire DEF Fire, Serving
<1>7. ASSUME NEW h \in Handler, Judge(s, h) PROVE TellingOf(s)'
  BY <1>2, <1>3, <1>7, TellingJudge DEF Judge, Serving
<1>8. ASSUME ~Restart, \A h \in Handler : ~Fire(s, h) /\ ~Judge(s, h) PROVE TellingOf(s)'
  <2>1. restarts' = restarts
    BY <1>8, RowCauses
  <2>2. \A h \in Handler : push[s][h].step = "fire" \/ push'[s][h].step = "fire"
          => push'[s][h] = push[s][h]
    <3>1. push'[s] = push[s] \/ \E h \in Handler : PushNext(s, h)
      BY <1>1, <1>8 DEF Causes
    <3> QED BY <1>8, <3>1, TellingOther
  <2>3. ASSUME NEW k \in Usage PROVE Raised(alerts'[s], k) <=> Raised(alerts[s], k)
    <3>1. ~Forget(s)
      BY <1>2 DEF Forget, GoneInv, GoneOf, Deleting
    <3>2. WatchCheck(s) => alerts'[s] = alerts[s] \/ alerts'[s] = SilenceJudged(alerts[s], Down(s))
      BY <1>4 DEF WatchCheck
    <3>3. k # "offline"
      BY RulesAssumption
    <3>4. \A down : Raised(SilenceJudged(alerts[s], down), k) <=> Raised(alerts[s], k)
      BY <1>4, <3>3 DEF SilenceJudged, Raised, AlertState
    <3> QED BY <1>1, <1>8, <3>1, <3>2, <3>4 DEF Causes
  <2>4. \/ events' = events
        \/ \E e \in Event : /\ events' = Append(events, e) /\ e.boot = restarts
                            /\ e.server # s \/ e.kind \notin Usage
    <3>1. ASSUME NEW t \in Server, NEW h \in Handler, Fire(t, h)
          PROVE  \E e \in Event : /\ events' = Append(events, e) /\ e.boot = restarts
                                 /\ e.server # s
      <4>1. t # s
        BY <1>8, <3>1
      <4> QED BY <3>1, <4>1, RowOf DEF Recorded
    <3>2. ASSUME NEW t \in Server, WatchFire(t)
          PROVE  \E e \in Event : /\ events' = Append(events, e) /\ e.boot = restarts
                                 /\ e.kind \notin Usage
      BY <3>2, RowOf, RulesAssumption DEF Recorded, Firing
    <3> QED BY <3>1, <3>2, RowCauses
  <2> QED BY <1>2, <2>1, <2>2, <2>3, <2>4, TellingQuiet
<1> QED BY <1>5, <1>6, <1>7, <1>8

(* For any number of servers, goroutines, kinds and restarts: as long as   *)
(* an agent waits for its answers and the rows are written, the table      *)
(* never says twice that one of its usage alerts fires, or that it clears. *)
THEOREM EventsAlternate == Spec => []UsageEventsAlternate
<1>1. CASE "event" \in Failing
  <2>1. UsageEventsAlternate
    BY <1>1 DEF UsageEventsAlternate
  <2> QED BY <2>1, PTL
<1>2. CASE "event" \notin Failing
  <2>1. Init => PastInv /\ TellingInv
    <3> SUFFICES ASSUME Init PROVE PastInv /\ TellingInv
      OBVIOUS
    <3>1. Len(events) = 0 /\ (\A s \in Server : alerts[s] = Fresh) /\ watch.queue = {}
          /\ \A s \in Server : \A h \in Handler : push[s][h].step = "idle"
      BY DEF Init, NoWatch, Idle
    <3>2. \A s \in Server : \A k \in Usage : ~SaidUp(s, k, 0) /\ ~Raised(alerts[s], k)
      BY <3>1, FreshIsSilent DEF SaidUp, Kind
    <3> QED BY <3>1, <3>2 DEF PastInv, TellingInv, TellingOf, Owed, Serving
  <2>2. TypeOK /\ TellingInv => UsageEventsAlternate
    BY DEF TypeOK, TellingInv, TellingOf, UsageEventsAlternate
  <2>3. TypeOK /\ WatchInv /\ GoneInv /\ SeenInv /\ PastInv /\ TellingInv /\ [Next]_vars
          => PastInv' /\ TellingInv'
    BY <1>2, PastStep, TellingStep
  <2> QED BY <2>1, <2>2, <2>3, TypeCorrect, WatchHolds, GoneHolds, SeenHolds, PTL DEF Spec
<1> QED BY <1>1, <1>2

-----------------------------------------------------------------------------
(* Update requests *)

(* A request of an older build is what every push of its server asks for,  *)
(* and all its agent is told. Once a push asks for the version of the      *)
(* running build, the request cannot be an older one again. So an agent    *)
(* that reported what one of these pushes asks for still runs it.          *)
AskedOf(s, h) ==
  LET p == push[s][h]
      asks == row[s].updateTo
      a == agent[s]
  IN
  /\ asks \notin {0, build} => p.asked = asks /\ a.told \in {0, asks}
  /\ p.asked = build =>
       /\ asks \in {0, build} /\ a.told \in {0, build}
       /\ \A g \in Handler : Serving(s, g) /\ a.waiting = g => push[s][g].asked \in {0, build}
  /\ p.asked # 0 /\ p.version = p.asked /\ p.asked \in {asks, build}
       => a.version = p.asked

AskedInv == \A s \in Server, h \in Handler : Serving(s, h) => AskedOf(s, h)

(* What moves an update request: a delete, a new request, or the reply of  *)
(* a push that reports the version its copy of the row asks for.           *)
LEMMA RequestMoves ==
  ASSUME TypeOK, NEW s \in Server, [Next]_vars
  PROVE  \/ row'[s].updateTo = row[s].updateTo
         \/ row'[s].updateTo = 0 /\ s \notin registered'
         \/ row'[s].updateTo = build /\ build # 0 /\ build' = build
         \/ \E h \in Handler : /\ Reply(s, h) /\ row'[s].updateTo = 0
                              /\ push[s][h].asked # 0
                              /\ push[s][h].version = push[s][h].asked
<1>1. row[s] \in Row /\ row \in [Server -> Row] /\ build # 0
  BY DEF TypeOK, Version
<1>2. ASSUME NEW h \in Handler, Touch(s, h) PROVE row'[s].updateTo = row[s].updateTo
  BY <1>1, <1>2 DEF Touch, Row
<1>3. ASSUME NEW h \in Handler, Reply(s, h)
      PROVE  \/ row'[s].updateTo = row[s].updateTo
             \/ /\ row'[s].updateTo = 0 /\ push[s][h].asked # 0
                /\ push[s][h].version = push[s][h].asked
  BY <1>1, <1>3 DEF Reply, Row
<1>4. CASE DeleteRow(s)
  BY <1>1, <1>4 DEF DeleteRow, NewRow
<1>5. CASE RequestAgentUpdate
  BY <1>1, <1>5 DEF RequestAgentUpdate, RequestUpdate, Row
<1>6. \/ row'[s] = row[s] \/ DeleteRow(s) \/ RequestAgentUpdate
      \/ \E h \in Handler : Touch(s, h) \/ Reply(s, h)
  BY StepCauses DEF Causes
<1> QED BY <1>2, <1>3, <1>4, <1>5, <1>6

(* What can become of the copy of the row a push works with.               *)
LEMMA CopyMoves ==
  ASSUME TypeOK, [Next]_vars, NEW s \in Server, NEW h \in Handler, Serving(s, h)'
  PROVE  \/ /\ Arrive(s, h)
            /\ push'[s][h].asked = row[s].updateTo
            /\ push'[s][h].version = agent[s].version
         \/ /\ Serving(s, h) /\ push'[s][h].asked = push[s][h].asked
            /\ push'[s][h].version = push[s][h].version
<1>1. ~Restart
  BY DEF Restart, Serving, Idle
<1>2. CASE push'[s][h] = push[s][h]
  BY <1>2 DEF Serving
<1>3. CASE push'[s][h] # push[s][h]
  <2>1. PICK g \in Handler : PushNext(s, g)
    BY <1>1, <1>3, StepCauses DEF Causes
  <2>2. PICK p : /\ Becomes(s, g, p)
                 /\ p.step = "put" => Arrive(s, g)
                 /\ p.step \notin {"idle", "put"} =>
                      /\ Serving(s, g) /\ p.asked = push[s][g].asked
                      /\ p.version = push[s][g].version
    BY <2>1, PushGoes
  <2>3. g = h /\ p = push'[s][h]
    BY <1>3, <2>2, PushMoves
  <2>4. CASE Arrive(s, h)
    <3> DEFINE new == [Idle EXCEPT !.step = "put", !.asked = row[s].updateTo,
                                   !.version = agent[s].version]
    <3>1. Becomes(s, h, new)
      BY <2>4 DEF Arrive
    <3>2. new.asked = row[s].updateTo /\ new.version = agent[s].version
      BY DEF Idle
    <3> HIDE DEF new
    <3> QED BY <2>4, <3>1, <3>2, PushMoves
  <2>5. CASE ~Arrive(s, h)
    BY <2>2, <2>3, <2>5 DEF Serving
  <2> QED BY <2>4, <2>5
<1> QED BY <1>2, <1>3

(* What can become of an agent while the hub runs on.                      *)
LEMMA AgentMoves ==
  ASSUME TypeOK, [Next]_vars, NEW s \in Server, ~Restart,
         \A h \in Handler : ~Arrive(s, h)
  PROVE  /\ \/ agent'[s].told \in {0, agent[s].told}
            \/ \E g \in Handler : /\ Serving(s, g) /\ agent[s].waiting = g
                                   /\ agent'[s].told = push[s][g].asked
         /\ agent'[s].waiting \in {NoHandler, agent[s].waiting}
         /\ \/ agent'[s].version = agent[s].version
            \/ /\ agent'[s].version = agent[s].told
               /\ agent[s].told \notin {0, agent[s].version}
<1>1. agent[s] \in Agent /\ agent \in [Server -> Agent]
  BY DEF TypeOK
<1>2. CASE GiveUp(s)
  BY <1>1, <1>2 DEF GiveUp, Agent
<1>3. CASE AgentUpdates(s)
  BY <1>1, <1>3 DEF AgentUpdates, Agent
<1>4. ASSUME NEW h \in Handler, Reply(s, h)
      PROVE  \/ agent'[s] = agent[s]
             \/ /\ Serving(s, h) /\ agent[s].waiting = h
                /\ agent'[s].told \in {0, push[s][h].asked}
                /\ agent'[s].waiting = NoHandler
                /\ agent'[s].version = agent[s].version
  <2>1. PICK told \in {0, push[s][h].asked} : Answered(s, h, told)
    BY <1>4 DEF Reply
  <2>2. CASE agent[s].waiting = h
    <3> DEFINE a == [agent[s] EXCEPT !.waiting = NoHandler, !.told = told]
    <3>1. a.told = told /\ a.waiting = NoHandler /\ a.version = agent[s].version
      BY <1>1 DEF Agent
    <3>2. agent' = [agent EXCEPT ![s] = a]
      BY <2>1, <2>2, <1>1 DEF Answered
    <3> HIDE DEF a
    <3> QED BY <1>1, <1>4, <2>2, <3>1, <3>2 DEF Reply, Serving
  <2> QED BY <2>1, <2>2 DEF Answered
<1>5. \/ agent'[s] = agent[s] \/ GiveUp(s) \/ AgentUpdates(s)
      \/ \E h \in Handler : Reply(s, h)
  BY StepCauses DEF Causes
<1> QED BY <1>2, <1>3, <1>4, <1>5

LEMMA AskedStep == TypeOK /\ AskedInv /\ [Next]_vars => AskedInv'
<1> SUFFICES ASSUME TypeOK, AskedInv, [Next]_vars,
                    NEW s \in Server, NEW h \in Handler, Serving(s, h)'
             PROVE  AskedOf(s, h)'
  BY DEF AskedInv
<1> DEFINE asks == row[s].updateTo
<1>1. ~Restart
  BY DEF Restart, Serving, Idle
<1>2. build' = build /\ build # 0
  BY <1>1, StepCauses DEF CausesAll, TypeOK, Version
<1>3. \A g \in Handler : Serving(s, g) => AskedOf(s, g)
  BY DEF AskedInv
<1>4. CASE \E g \in Handler : Arrive(s, g)
  <2>1. PICK g \in Handler : Arrive(s, g)
    BY <1>4
  <2>2. /\ row' = row /\ agent'[s].told = 0 /\ agent'[s].waiting = g
        /\ agent'[s].version = agent[s].version
    BY <2>1 DEF Arrive, TypeOK, Agent
  <2>3. Serving(s, g)' /\ ~Serving(s, g) /\ push'[s][g].asked = asks
        /\ push'[s][g].version = agent[s].version
    <3>1. Serving(s, g)'
      <4> DEFINE new == [Idle EXCEPT !.step = "put", !.asked = row[s].updateTo,
                                     !.version = agent[s].version]
      <4>1. Becomes(s, g, new)
        BY <2>1 DEF Arrive
      <4>2. new.step = "put"
        BY DEF Idle
      <4> HIDE DEF new
      <4> QED BY <4>1, <4>2, PushMoves DEF Serving
    <3>2. ~Serving(s, g)
      BY <2>1 DEF Arrive
    <3> QED BY <3>1, <3>2, CopyMoves
  <2>4. CASE h = g
    BY <1>2, <2>2, <2>3, <2>4 DEF AskedOf
  <2>5. CASE h # g
    <3>1. ~Arrive(s, h)
      BY <2>2, <2>5 DEF Arrive, TypeOK, Agent
    <3>2. /\ Serving(s, h) /\ push'[s][h].asked = push[s][h].asked
          /\ push'[s][h].version = push[s][h].version
      BY <3>1, CopyMoves
    <3> QED BY <1>2, <1>3, <2>2, <2>3, <3>2 DEF AskedOf
  <2> QED BY <2>4, <2>5
<1>5. CASE \A g \in Handler : ~Arrive(s, g)
  <2>1. /\ Serving(s, h) /\ push'[s][h].asked = push[s][h].asked
        /\ push'[s][h].version = push[s][h].version
    BY <1>5, CopyMoves
  <2>2. AskedOf(s, h)
    BY <1>3, <2>1
  <2>3. row'[s].updateTo \in {asks, 0, build}
    BY RequestMoves
  <2>4. /\ \/ agent'[s].told \in {0, agent[s].told}
           \/ \E g \in Handler : /\ Serving(s, g) /\ agent[s].waiting = g
                                  /\ agent'[s].told = push[s][g].asked
        /\ agent'[s].waiting \in {NoHandler, agent[s].waiting}
        /\ \/ agent'[s].version = agent[s].version
           \/ /\ agent'[s].version = agent[s].told
              /\ agent[s].told \notin {0, agent[s].version}
    BY <1>1, <1>5, AgentMoves
  <2>5. row'[s].updateTo \notin {0, build'} =>
          push'[s][h].asked = row'[s].updateTo /\ agent'[s].told \in {0, row'[s].updateTo}
    BY <1>2, <1>3, <2>1, <2>2, <2>3, <2>4 DEF AskedOf
  <2>6. push'[s][h].asked = build' =>
          /\ row'[s].updateTo \in {0, build'} /\ agent'[s].told \in {0, build'}
          /\ \A g \in Handler : Serving(s, g)' /\ agent'[s].waiting = g
                                => push'[s][g].asked \in {0, build'}
    <3> SUFFICES ASSUME push[s][h].asked = build
                 PROVE  /\ row'[s].updateTo \in {0, build} /\ agent'[s].told \in {0, build}
                        /\ \A g \in Handler : Serving(s, g)' /\ agent'[s].waiting = g
                                              => push'[s][g].asked \in {0, build}
      BY <1>2, <2>1
    <3>1. /\ asks \in {0, build} /\ agent[s].told \in {0, build}
          /\ \A g \in Handler : Serving(s, g) /\ agent[s].waiting = g
                                => push[s][g].asked \in {0, build}
      BY <2>2 DEF AskedOf
    <3>2. ASSUME NEW g \in Handler, Serving(s, g)', agent'[s].waiting = g
          PROVE  push'[s][g].asked \in {0, build}
      <4>1. Serving(s, g) /\ push'[s][g].asked = push[s][g].asked
        BY <1>5, <3>2, CopyMoves
      <4>2. agent[s].waiting = g
        BY <2>4, <3>2, IngestAssumption
      <4> QED BY <3>1, <4>1, <4>2
    <3> QED BY <2>3, <2>4, <3>1, <3>2
  <2>7. /\ push'[s][h].asked # 0 /\ push'[s][h].version = push'[s][h].asked
        /\ push'[s][h].asked \in {row'[s].updateTo, build'}
        => agent'[s].version = push'[s][h].asked
    BY <1>2, <2>1, <2>2, <2>3, <2>4 DEF AskedOf
  <2> QED BY <2>5, <2>6, <2>7 DEF AskedOf
<1> QED BY <1>4, <1>5

(* Whatever pushes overlap with it, give up or fail to be written, and     *)
(* however often the hub is upgraded, for any number of goroutines and     *)
(* versions: a request to update goes only when the agent runs the version *)
(* asked for, or in the one case the property names.                       *)
THEOREM RequestsOutlivePushes == Spec => RequestOutlivesPushes
<1> DEFINE Claim == \A s \in registered \cap registered' :
             row[s].updateTo # 0 /\ row'[s].updateTo = 0
             => \/ agent[s].version = row[s].updateTo
                \/ row[s].updateTo = build /\ \E h \in Handler : AnswersOlder(s, h)
<1>1. Init => AskedInv
  BY DEF Init, AskedInv, Serving, Idle
<1>2. TypeOK /\ AskedInv /\ [Next]_vars => [Claim]_vars
  <2> SUFFICES ASSUME TypeOK, AskedInv, [Next]_vars, NEW s \in registered \cap registered',
                      row[s].updateTo # 0, row'[s].updateTo = 0
               PROVE  \/ agent[s].version = row[s].updateTo
                      \/ row[s].updateTo = build /\ \E h \in Handler : AnswersOlder(s, h)
    OBVIOUS
  <2>1. s \in Server /\ build # 0
    BY DEF TypeOK, Version
  <2>2. PICK h \in Handler : /\ Reply(s, h) /\ push[s][h].asked # 0
                             /\ push[s][h].version = push[s][h].asked
    BY <2>1, RequestMoves
  <2>3. AskedOf(s, h) /\ push[s][h].step = "reply"
    BY <2>1, <2>2 DEF AskedInv, Reply, Serving
  <2>4. CASE push[s][h].asked \in {row[s].updateTo, build}
    BY <2>2, <2>3, <2>4 DEF AskedOf
  <2>5. CASE push[s][h].asked \notin {row[s].updateTo, build}
    BY <2>2, <2>3, <2>5 DEF AskedOf, AnswersOlder
  <2> QED BY <2>4, <2>5
<1>3. TypeOK /\ AskedInv /\ [Next]_vars => AskedInv'
  BY AskedStep
<1> QED BY <1>1, <1>2, <1>3, TypeCorrect, PTL DEF Spec, RequestOutlivesPushes

=============================================================================
