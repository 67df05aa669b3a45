-------------------------------- MODULE Ingest --------------------------------
(***************************************************************************)
(* The hub's push pipeline: handleAgentPush (internal/hub/ingest.go) step  *)
(* by step, run by one goroutine per request, beside the offline check of  *)
(* alerts.go, the operator's requests (create, delete, update, settings)   *)
(* and restarts of the hub. A step is what happens between two points      *)
(* where another goroutine can come in: a store statement, a locked        *)
(* section. The agents are there as far as the hub can tell: each sends    *)
(* one push at a time, unless it gives up waiting for the answer.          *)
(***************************************************************************)
EXTENDS AlertRules, Sequences

CONSTANTS
  Server,        \* server ids; sqlite never reuses one
  Handler,       \* goroutines serving pushes
  NoHandler,     \* no request is out
  Reading,       \* the usages a snapshot can report
  Defaults,      \* the alert settings at first
  Switches,      \* the values the operator saves for alert.enabled
  OfflineAfter,  \* seconds of silence that make a server offline
  SampleEvery,   \* seconds between two history rows of a server
  MaxVersion,    \* agent versions are 1..MaxVersion; 0 is the empty string
  Deletable,     \* the servers the operator may delete
  Asks,          \* does the operator ask for agent updates?
  GivesUp,       \* do agents time out on a slow hub (15s, cmd/agent)?
  Failing,       \* the store's writes that fail now and then
  Upgrades,      \* may a restart bring a newer build of the hub?
  MaxClock, MaxEvents, MaxRestarts   \* bounds: no push once the events are full

Clock == SampleEvery..MaxClock   \* Unix time is well past SampleEvery
Version == 1..MaxVersion

(* TouchServer, InsertSample, AddAlertEvent, ClearAgentUpdate, DeleteServer. *)
Writes == {"touch", "sample", "event", "clear", "delete"}

Settings == [enabled : BOOLEAN, sustain : 1..StreakBound, threshold : [Usage -> Nat]]

ASSUME IngestAssumption ==
  /\ NoHandler \notin Handler
  /\ Reading # {} /\ Reading \subseteq [Usage -> Nat]
  /\ Defaults \in Settings /\ Switches \subseteq BOOLEAN
  /\ OfflineAfter \in Nat
  /\ SampleEvery \in Nat \ {0}
  /\ MaxVersion \in Nat \ {0}
  /\ Deletable \subseteq Server /\ Asks \in BOOLEAN
  /\ GivesUp \in BOOLEAN /\ Failing \subseteq Writes
  /\ MaxClock \in Nat /\ MaxClock >= SampleEvery
  /\ Upgrades \in BOOLEAN
  /\ MaxEvents \in Nat /\ MaxRestarts \in Nat

VARIABLES
  clock, restarts,
  \* the database
  registered,   \* ids in the servers table
  used,         \* ids ever in it (AUTOINCREMENT)
  row,          \* last_seen, agent_version, update_to of each server
  samples,      \* history: the timestamps of each server's rows
  events,       \* alert_events, in the order of their ids
  settings,
  \* the hub process
  build,        \* the version it was built at, metrics.AgentVersion
  live,         \* arrival of the newest snapshot in the live cache, 0 if none
  lastPersist,  \* when maybePersist last let a row through, 0 if never
  alerts,       \* the engine's map
  push,         \* the push each goroutine is serving
  watch,        \* checkOffline
  deleting,     \* handleDeleteServer
  \* the agents
  agent,
  \* history
  tally, kept, overlapped, gaveUp

counters == <<clock, restarts>>
tables == <<registered, used, row, samples, events, settings>>
memory == <<build, live, lastPersist, alerts>>
threads == <<push, watch, deleting>>
history == <<tally, kept, overlapped, gaveUp>>
vars == <<counters, tables, memory, threads, agent, history>>

-----------------------------------------------------------------------------
(* States *)

Row == [lastSeen : 0..MaxClock, agent : 0..MaxVersion, updateTo : 0..MaxVersion]
NewRow == [lastSeen |-> 0, agent |-> 0, updateTo |-> 0]

PushStep == {"idle", "put", "touch", "persist", "insert", "consult", "judge", "fire",
             "reply"}

Push == [step : PushStep, now : 0..MaxClock, asked : 0..MaxVersion,
         version : 0..MaxVersion, queue : SUBSET Notice]

Idle == [step |-> "idle", now |-> 0, asked |-> 0, version |-> 0, queue |-> {}]

Watch == [step : {"idle", "list", "stamp", "check"}, now : 0..MaxClock,
          todo : SUBSET Server, queue : SUBSET Server,
          seen : [Server -> 0..MaxClock], touched : SUBSET Server]

NoWatch == [step |-> "idle", now |-> 0, todo |-> {}, queue |-> {},
            seen |-> [s \in Server |-> 0], touched |-> {}]

Deletion == [step : {"idle", "row", "live", "forget"}, of : SUBSET Server]

NoDelete == [step |-> "idle", of |-> {}]

Agent == [version : Version, told : 0..MaxVersion, waiting : Handler \cup {NoHandler}]

Event == [server : Server, kind : Kind, state : {"firing", "cleared"},
          ts : 0..MaxClock, boot : 0..MaxRestarts]

TypeOK ==
  /\ clock \in Clock /\ restarts \in 0..MaxRestarts
  /\ registered \subseteq used /\ used \subseteq Server
  /\ row \in [Server -> Row]
  /\ samples \in [Server -> SUBSET (0..MaxClock)]
  /\ events \in Seq(Event)
  /\ settings \in Settings
  /\ build \in Version
  /\ live \in [Server -> 0..MaxClock]
  /\ lastPersist \in [Server -> 0..MaxClock]
  /\ alerts \in [Server -> AlertState]
  /\ push \in [Server -> [Handler -> Push]]
  /\ watch \in Watch
  /\ deleting \in Deletion
  /\ agent \in [Server -> Agent]
  /\ tally \in [Server -> [Kind -> Int]]
  /\ kept \in [Server -> SUBSET (0..MaxClock)]
  /\ overlapped \subseteq Server /\ gaveUp \subseteq Server

Init ==
  /\ clock = SampleEvery /\ restarts = 0
  /\ registered = {} /\ used = {}
  /\ row = [s \in Server |-> NewRow]
  /\ samples = [s \in Server |-> {}]
  /\ events = <<>>
  /\ settings = Defaults
  /\ build \in Version
  /\ live = [s \in Server |-> 0]
  /\ lastPersist = [s \in Server |-> 0]
  /\ alerts = [s \in Server |-> Fresh]
  /\ push = [s \in Server |-> [h \in Handler |-> Idle]]
  /\ watch = NoWatch
  /\ deleting = NoDelete
  /\ agent = [s \in Server |-> [version |-> 1, told |-> 0, waiting |-> NoHandler]]
  /\ tally = [s \in Server |-> NoTally]
  /\ kept = [s \in Server |-> {}]
  /\ overlapped = {} /\ gaveUp = {}

Serving(s, h) == push[s][h].step # "idle"

(* Whether a write of the store takes effect; the push, the engine and the *)
(* check log a failure and go on.                                          *)
WriteOutcome(write) == IF write \in Failing THEN BOOLEAN ELSE {TRUE}

Becomes(s, h, p) == push' = [push EXCEPT ![s][h] = p]

-----------------------------------------------------------------------------
(* handleAgentPush *)

(* fault: the agent does not wait for the answer to its last push *)
ArriveOverlapping(s, h) ==
  /\ Len(events) < MaxEvents
  /\ s \in registered /\ ~Serving(s, h)
  /\ Becomes(s, h, [Idle EXCEPT !.step = "put", !.asked = row[s].updateTo,
                                !.version = agent[s].version])
  /\ agent' = [agent EXCEPT ![s].waiting = h, ![s].told = 0]
  /\ UNCHANGED <<counters, tables, memory, watch, deleting, history>>

(* The agent posts a snapshot; GetServerByToken reads the row, and from    *)
(* here on the handler works with that copy. A deleted server's push is    *)
(* refused (401), which changes nothing.                                   *)
Arrive(s, h) ==
  /\ Len(events) < MaxEvents
  /\ s \in registered /\ agent[s].waiting = NoHandler /\ ~Serving(s, h)
  /\ Becomes(s, h, [Idle EXCEPT !.step = "put", !.asked = row[s].updateTo,
                                !.version = agent[s].version])
  /\ agent' = [agent EXCEPT ![s].waiting = h, ![s].told = 0]
  /\ UNCHANGED <<counters, tables, memory, watch, deleting, history>>

(* The body is in: now := time.Now(), live.Put. *)
PutLive(s, h) ==
  /\ push[s][h].step = "put"
  /\ live' = [live EXCEPT ![s] = clock]
  /\ Becomes(s, h, [push[s][h] EXCEPT !.step = "touch", !.now = clock])
  /\ UNCHANGED <<counters, tables, build, lastPersist, alerts, watch, deleting, agent,
                 history>>

(* The body never came in whole, because its agent has gone (400). *)
Refuse(s, h) ==
  /\ push[s][h].step = "put" /\ agent[s].waiting # h
  /\ Becomes(s, h, Idle)
  /\ UNCHANGED <<counters, tables, memory, watch, deleting, agent, history>>

(* TouchServer, an UPDATE that a deleted row no longer matches. *)
Touch(s, h) ==
  LET p == push[s][h] IN
  /\ p.step = "touch"
  /\ \E done \in WriteOutcome("touch") :
       /\ row' = IF done /\ s \in registered
                 THEN [row EXCEPT ![s].lastSeen = p.now, ![s].agent = p.version]
                 ELSE row
       /\ watch' = IF done /\ watch.step \in {"stamp", "check"}
                   THEN [watch EXCEPT !.touched = @ \cup {s}] ELSE watch
  /\ Becomes(s, h, [p EXCEPT !.step = "persist"])
  /\ UNCHANGED <<counters, registered, used, samples, events, settings, memory,
                 deleting, agent, history>>

(* fault: takes a clock that seems to step back for a reason to persist *)
PersistOnStepBack(s, h) ==
  LET p == push[s][h]
      due == p.now - lastPersist[s] >= SampleEvery \/ p.now < lastPersist[s]
  IN
  /\ p.step = "persist"
  /\ lastPersist' = IF due THEN [lastPersist EXCEPT ![s] = p.now] ELSE lastPersist
  /\ Becomes(s, h, [p EXCEPT !.step = IF due THEN "insert" ELSE "consult"])
  /\ UNCHANGED <<counters, tables, build, live, alerts, watch, deleting, agent, history>>

(* maybePersist under persistMu: whether this push becomes a history row. *)
Persist(s, h) ==
  LET p == push[s][h]
      due == p.now - lastPersist[s] >= SampleEvery
  IN
  /\ p.step = "persist"
  /\ lastPersist' = IF due THEN [lastPersist EXCEPT ![s] = p.now] ELSE lastPersist
  /\ Becomes(s, h, [p EXCEPT !.step = IF due THEN "insert" ELSE "consult"])
  /\ UNCHANGED <<counters, tables, build, live, alerts, watch, deleting, agent, history>>

(* InsertSample; nothing ties a sample to a row of servers. *)
Insert(s, h) ==
  LET p == push[s][h] IN
  /\ p.step = "insert"
  /\ \E done \in WriteOutcome("sample") :
       /\ samples' = IF done THEN [samples EXCEPT ![s] = @ \cup {p.now}] ELSE samples
       /\ kept' = IF done THEN [kept EXCEPT ![s] = @ \cup {p.now}] ELSE kept
  /\ overlapped' = IF s \in deleting.of /\ deleting.step = "row"
                   THEN overlapped \cup {s} ELSE overlapped
  /\ Becomes(s, h, [p EXCEPT !.step = "consult"])
  /\ UNCHANGED <<counters, registered, used, row, events, settings, memory, watch,
                 deleting, agent, tally, gaveUp>>

(* observe before its Lock: it returns while alerts are switched off. The  *)
(* other settings it reads here are constant in this module.               *)
Consult(s, h) ==
  /\ push[s][h].step = "consult"
  /\ Becomes(s, h, [push[s][h] EXCEPT !.step = IF settings.enabled THEN "judge"
                                               ELSE "reply"])
  /\ UNCHANGED <<counters, tables, memory, watch, deleting, agent, history>>

(* observe from Lock to Unlock: the notices are decided but not yet sent.  *)
(* The snapshot's usages, unread until now, are chosen here.               *)
Judge(s, h) ==
  LET p == push[s][h] IN
  /\ p.step = "judge"
  /\ \E v \in Reading :
       LET notices == ObserveNotices(alerts[s], v, settings) IN
       /\ alerts' = [alerts EXCEPT ![s] = Observed(@, v, settings)]
       /\ tally' = [tally EXCEPT ![s] = Counted(@, notices)]
       /\ Becomes(s, h, [p EXCEPT !.step = IF notices = {} THEN "reply" ELSE "fire",
                                  !.queue = notices])
  /\ UNCHANGED <<counters, tables, build, live, lastPersist, watch, deleting, agent,
                 kept, overlapped, gaveUp>>

Recorded(s, notice, ts) ==
  [server |-> s, kind |-> notice.kind, state |-> notice.state,
   ts |-> ts, boot |-> restarts]

(* fire, once per queued notice: AddAlertEvent, then a Telegram call that  *)
(* may take 10s and changes nothing here.                                  *)
Fire(s, h) ==
  LET p == push[s][h] IN
  /\ p.step = "fire"
  /\ \E n \in p.queue, done \in WriteOutcome("event") :
       /\ events' = IF done THEN Append(events, Recorded(s, n, p.now)) ELSE events
       /\ Becomes(s, h, [p EXCEPT !.queue = @ \ {n},
                                  !.step = IF p.queue = {n} THEN "reply" ELSE "fire"])
  /\ UNCHANGED <<counters, registered, used, row, samples, settings, memory, watch,
                 deleting, agent, history>>

(* The agent reads the answer, unless it has given up on this request. *)
Answered(s, h, told) ==
  agent' = IF agent[s].waiting = h
           THEN [agent EXCEPT ![s].waiting = NoHandler, ![s].told = told] ELSE agent

(* fault: clears on any answer *)
ReplyClears(s, h) ==
  LET p == push[s][h] IN
  /\ p.step = "reply"
  /\ row' = IF s \in registered THEN [row EXCEPT ![s].updateTo = 0] ELSE row
  /\ Answered(s, h, p.asked)
  /\ Becomes(s, h, Idle)
  /\ UNCHANGED <<counters, registered, used, samples, events, settings, memory, watch,
                 deleting, history>>

(* The answer goes by the copy of the row: if the agent reports the        *)
(* version that copy asks for, ClearAgentUpdate; else ask for it.          *)
Reply(s, h) ==
  LET p == push[s][h]
      arrived == p.asked # 0 /\ p.asked = p.version
  IN
  /\ p.step = "reply"
  /\ \E done \in WriteOutcome("clear") :
       row' = IF arrived /\ done /\ s \in registered
              THEN [row EXCEPT ![s].updateTo = 0] ELSE row
  /\ Answered(s, h, IF arrived THEN 0 ELSE p.asked)
  /\ Becomes(s, h, Idle)
  /\ UNCHANGED <<counters, registered, used, samples, events, settings, memory, watch,
                 deleting, history>>

-----------------------------------------------------------------------------
(* The agent *)

(* The hub took longer than the agent's timeout, or the agent died: the    *)
(* goroutine goes on serving a request nobody waits for.                   *)
GiveUp(s) ==
  /\ GivesUp /\ agent[s].waiting # NoHandler
  /\ agent' = [agent EXCEPT ![s].waiting = NoHandler]
  /\ gaveUp' = gaveUp \cup {s}
  /\ UNCHANGED <<counters, tables, memory, threads, tally, kept, overlapped>>

(* selfUpdate went well; the agent comes back as the version asked for. *)
AgentUpdates(s) ==
  /\ agent[s].waiting = NoHandler /\ agent[s].told \notin {0, agent[s].version}
  /\ agent' = [agent EXCEPT ![s].version = agent[s].told, ![s].told = 0]
  /\ UNCHANGED <<counters, tables, memory, threads, history>>

-----------------------------------------------------------------------------
(* checkOffline *)

WatchStart ==
  /\ watch.step = "idle" /\ settings.enabled
  /\ watch' = [watch EXCEPT !.step = "list"]
  /\ UNCHANGED <<counters, tables, memory, push, deleting, agent, history>>

(* ListServers: the copies of last_seen the whole pass works with. *)
WatchList ==
  /\ watch.step = "list"
  /\ watch' = [NoWatch EXCEPT !.step = "stamp", !.todo = registered,
                              !.seen = [s \in Server |-> row[s].lastSeen]]
  /\ UNCHANGED <<counters, tables, memory, push, deleting, agent, history>>

(* now := time.Now() and offlineAfter(), when the list is in. *)
WatchStamp ==
  /\ watch.step = "stamp"
  /\ watch' = [watch EXCEPT !.step = "check", !.now = clock]
  /\ UNCHANGED <<counters, tables, memory, push, deleting, agent, history>>

(* fault: offline one second early *)
DownEarly(s) == watch.now - watch.seen[s] >= OfflineAfter

Down(s) == watch.now - watch.seen[s] > OfflineAfter

(* One turn of the loop up to its Unlock. The order of the list (sort,     *)
(* name) is left open.                                                     *)
WatchCheck(s) ==
  /\ watch.step = "check" /\ watch.queue = {} /\ s \in watch.todo
  /\ IF watch.seen[s] = 0
     THEN /\ watch' = [watch EXCEPT !.todo = @ \ {s}]
          /\ UNCHANGED <<alerts, tally>>
     ELSE LET notices == SilenceNotices(alerts[s], Down(s)) IN
          /\ watch' = [watch EXCEPT !.todo = @ \ {s},
                                    !.queue = IF notices = {} THEN {} ELSE {s}]
          /\ alerts' = [alerts EXCEPT ![s] = SilenceJudged(@, Down(s))]
          /\ tally' = [tally EXCEPT ![s] = Counted(@, notices)]
  /\ UNCHANGED <<counters, tables, build, live, lastPersist, push, deleting, agent,
                 kept, overlapped, gaveUp>>

WatchFire(s) ==
  /\ s \in watch.queue
  /\ \E done \in WriteOutcome("event") :
       events' = IF done THEN Append(events, Recorded(s, Firing("offline"), watch.now))
                 ELSE events
  /\ watch' = [watch EXCEPT !.queue = {}]
  /\ UNCHANGED <<counters, registered, used, row, samples, settings, memory, push,
                 deleting, agent, history>>

WatchDone ==
  /\ watch.step = "check" /\ watch.todo = {} /\ watch.queue = {}
  /\ watch' = NoWatch
  /\ UNCHANGED <<counters, tables, memory, push, deleting, agent, history>>

-----------------------------------------------------------------------------
(* The operator *)

CreateServer(s) ==
  /\ s \notin used
  /\ registered' = registered \cup {s} /\ used' = used \cup {s}
  /\ UNCHANGED <<counters, row, samples, events, settings, memory, threads, agent,
                 history>>

(* handleSaveSettings, the switch; AlertEngine has the other keys. *)
SwitchAlerts ==
  /\ \E b \in Switches : settings' = [settings EXCEPT !.enabled = b]
  /\ UNCHANGED <<counters, registered, used, row, samples, events, memory, threads,
                 agent, history>>

(* handleAgentUpdate for one server, or for "all" those not known to be at *)
(* the hub's version.                                                      *)
RequestUpdate(targets) ==
  /\ Asks
  /\ row' = [s \in Server |-> IF s \in targets THEN [row[s] EXCEPT !.updateTo = build]
                              ELSE row[s]]
  /\ UNCHANGED <<counters, registered, used, samples, events, settings, memory,
                 threads, agent, history>>

RequestAgentUpdate ==
  \/ \E s \in registered : RequestUpdate({s})
  \/ RequestUpdate({s \in registered : row[s].agent # build})

(* handleDeleteServer, in its order: the samples, the row, the live cache, *)
(* the alert engine. What a push or a check puts back because it overlaps  *)
(* with the two statements is noted.                                       *)
DeleteSamples(s) ==
  /\ deleting.step = "idle" /\ s \in registered \cap Deletable
  /\ samples' = [samples EXCEPT ![s] = {}]
  /\ kept' = [kept EXCEPT ![s] = {}]
  /\ deleting' = [step |-> "row", of |-> {s}]
  /\ UNCHANGED <<counters, registered, used, row, events, settings, memory, push,
                 watch, agent, tally, overlapped, gaveUp>>

DeleteRow(s) ==
  /\ deleting.step = "row" /\ s \in deleting.of
  /\ registered' = registered \ {s}
  /\ row' = [row EXCEPT ![s] = NewRow]
  /\ overlapped' = IF s \in watch.todo \/ \E h \in Handler : Serving(s, h)
                   THEN overlapped \cup {s} ELSE overlapped
  /\ deleting' = [deleting EXCEPT !.step = "live"]
  /\ UNCHANGED <<counters, used, samples, events, settings, memory, push, watch,
                 agent, tally, kept, gaveUp>>

(* The second statement fails: a 500, and a server without its history. *)
DeleteFails(s) ==
  /\ "delete" \in Failing /\ deleting.step = "row" /\ s \in deleting.of
  /\ deleting' = NoDelete
  /\ UNCHANGED <<counters, tables, memory, push, watch, agent, history>>

(* fault: the handler forgets the live cache *)
KeepLive(s) ==
  /\ deleting.step = "live" /\ s \in deleting.of
  /\ deleting' = [deleting EXCEPT !.step = "forget"]
  /\ UNCHANGED <<counters, tables, memory, push, watch, agent, history>>

RemoveLive(s) ==
  /\ deleting.step = "live" /\ s \in deleting.of
  /\ live' = [live EXCEPT ![s] = 0]
  /\ deleting' = [deleting EXCEPT !.step = "forget"]
  /\ UNCHANGED <<counters, tables, build, lastPersist, alerts, push, watch, agent,
                 history>>

Forget(s) ==
  /\ deleting.step = "forget" /\ s \in deleting.of
  /\ alerts' = [alerts EXCEPT ![s] = Fresh]
  /\ tally' = [tally EXCEPT ![s] = NoTally]
  /\ deleting' = NoDelete
  /\ UNCHANGED <<counters, tables, build, live, lastPersist, push, watch, agent,
                 kept, overlapped, gaveUp>>

-----------------------------------------------------------------------------
(* Time, and the hub process *)

Tick ==
  /\ clock < MaxClock /\ clock' = clock + 1
  /\ UNCHANGED <<restarts, tables, memory, threads, agent, history>>

(* The process stops in whatever it was doing and starts again, perhaps as *)
(* a newer build: what is not in the database is gone.                     *)
Restart ==
  /\ restarts < MaxRestarts /\ restarts' = restarts + 1
  /\ build' \in IF Upgrades THEN build..MaxVersion ELSE {build}
  /\ live' = [s \in Server |-> 0]
  /\ lastPersist' = [s \in Server |-> 0]
  /\ alerts' = [s \in Server |-> Fresh]
  /\ push' = [s \in Server |-> [h \in Handler |-> Idle]]
  /\ watch' = NoWatch
  /\ deleting' = NoDelete
  /\ agent' = [s \in Server |-> [agent[s] EXCEPT !.waiting = NoHandler]]
  /\ tally' = [s \in Server |-> NoTally]
  /\ kept' = [s \in Server |-> {}]
  /\ UNCHANGED <<clock, tables, overlapped, gaveUp>>

-----------------------------------------------------------------------------
PushNext(s, h) ==
  \/ Arrive(s, h) \/ PutLive(s, h) \/ Refuse(s, h) \/ Touch(s, h) \/ Persist(s, h)
  \/ Insert(s, h) \/ Consult(s, h) \/ Judge(s, h) \/ Fire(s, h) \/ Reply(s, h)

OperatorNext(s) ==
  \/ CreateServer(s) \/ DeleteSamples(s) \/ DeleteRow(s) \/ DeleteFails(s)
  \/ RemoveLive(s) \/ Forget(s)

Next ==
  \/ \E s \in Server :
       \/ \E h \in Handler : PushNext(s, h)
       \/ GiveUp(s) \/ AgentUpdates(s) \/ WatchCheck(s) \/ WatchFire(s)
       \/ OperatorNext(s)
  \/ WatchStart \/ WatchList \/ WatchStamp \/ WatchDone
  \/ SwitchAlerts \/ RequestAgentUpdate
  \/ Tick \/ Restart

Spec == Init /\ [][Next]_vars

-----------------------------------------------------------------------------
(* Properties *)

(* "at most one history row per SampleEvery seconds per server"            *)
(* (ingest.go:75), for the rows one run of the hub writes: however its     *)
(* pushes overlap, any two are SampleEvery apart.                          *)
SamplesSpaced ==
  \A s \in Server : \A a, b \in kept[s] : a < b => b - a >= SampleEvery

(* last_seen moves back only for a server whose agent gave up on a push    *)
(* that the hub was still serving when it took the next one.               *)
LastSeenAdvances ==
  [][\A s \in registered \cap registered' :
       row'[s].lastSeen < row[s].lastSeen => s \in gaveUp]_vars

(* When an offline alert goes up, the server is past offlineAfter at that  *)
(* very moment, unless a push touched its row (or a delete removed it)     *)
(* after checkOffline had read the list.                                   *)
AlarmIsCurrent ==
  [][\A s \in registered :
       /\ ~alerts[s].offline /\ alerts'[s].offline
       /\ s \notin watch.touched
       => clock - row[s].lastSeen > OfflineAfter]_vars

(* The i-th row of the events table is about alert k of s, and of this run *)
(* of the hub.                                                             *)
Tells(i, s, k) ==
  events[i].server = s /\ events[i].kind = k /\ events[i].boot = restarts

(* What the first n rows say of that alert: that it is up.                 *)
SaidUp(s, k, n) ==
  \E i \in 1..n : /\ Tells(i, s, k) /\ events[i].state = "firing"
                  /\ \A j \in (i + 1)..n : ~Tells(j, s, k)

(* The events of a usage alert alternate in the table, firing first, for   *)
(* every server whose agent waited for its answers: fire runs after the    *)
(* engine's unlock, yet before the answer.                                 *)
UsageEventsAlternate ==
  \A s \in registered \ gaveUp, k \in Usage :
    \/ "event" \in Failing
    \/ \A i \in 1..Len(events) :
         Tells(i, s, k) => (events[i].state = "firing" <=> ~SaidUp(s, k, i - 1))

(* A deleted server leaves nothing in the hub: no history, no live entry,  *)
(* no alert state; unless a push or a check that knew it was under way     *)
(* when its row went, or added a row between the delete's two statements.  *)
DeletedLeavesNothing ==
  \A s \in used \ (registered \cup overlapped \cup deleting.of) :
    samples[s] = {} /\ live[s] = 0 /\ alerts[s] = Fresh

(* A push of server s that asks for an older version is in its last step,  *)
(* and its agent reports that version: Reply is about to clear.            *)
AnswersOlder(s, h) ==
  /\ push[s][h].step = "reply" /\ push[s][h].asked \notin {0, build}
  /\ push[s][h].version = push[s][h].asked

(* A request to update stays until the agent runs the version asked for,   *)
(* whatever pushes, upgrades of the hub and repeated requests there were.  *)
(* One exception: asked for again by a newer build, while a push is served *)
(* that reports what the older request asked for, the new request is lost  *)
(* (ClearAgentUpdate goes by the copy of the row and clears what is there, *)
(* ingest.go:60-66).                                                       *)
RequestOutlivesPushes ==
  [][\A s \in registered \cap registered' :
       row[s].updateTo # 0 /\ row'[s].updateTo = 0
       => \/ agent[s].version = row[s].updateTo
          \/ row[s].updateTo = build /\ \E h \in Handler : AnswersOlder(s, h)]_vars

(* The pushes, checks, deletes and restarts together implement the promise *)
(* about transitions.                                                      *)
Toggle == INSTANCE AlertToggle WITH Server <- Server, Kind <- Kind, tally <- tally
OnlyTransitionsAnnounced == Toggle!Spec
==============================================================================
