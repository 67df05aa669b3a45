-------------------------------- MODULE Stream --------------------------------
(***************************************************************************)
(* How a dashboard gets to see a server: pushes into the live cache        *)
(* (live.go) and the servers table, the payload assembled from both        *)
(* (dashboard, api.go), the broadcaster and its subscribers (events.go,    *)
(* hub.go, handleStream), and what one open tab makes of the payloads of   *)
(* its stream and of the polling it falls back to (app.js). One server,    *)
(* one tab; a connection outlives the tab's interest in it until the hub   *)
(* notices.                                                                *)
(*                                                                         *)
(* A payload is assembled in three steps, each at a moment of its own: the *)
(* time is taken, the rows are listed, the live cache is read.             *)
(***************************************************************************)
EXTENDS Integers, Sequences, SequencesExt

CONSTANTS
  Conn,          \* connections to /api/stream, with the goroutine serving each
  Poll,          \* requests of /api/dashboard that may be out at once
  Loop,          \* broadcastLoop
  None,          \* no connection
  Window,        \* liveWindow and FLEET_WINDOW, 90 points each
  Capacity,      \* payloads a subscriber's channel holds, 4
  OfflineAfter,  \* seconds of silence that make a server offline
  Known,         \* has the server been pushing when we come in?
  MaxEvents      \* bound: seconds, pushes, deletes and faults, all told

ASSUME StreamAssumption ==
  /\ Loop \notin Conn \cup Poll /\ Conn \cap Poll = {} /\ None \notin Conn
  /\ Window \in Nat /\ Capacity \in Nat \ {0} /\ OfflineAfter \in Nat
  /\ Known \in BOOLEAN /\ MaxEvents \in Nat

Builder == Conn \cup Poll \cup {Loop}

Clock == 1..(MaxEvents + 1)

(* A snapshot is the second it arrived in, 0 is none.                      *)
Snapshot == 0..(MaxEvents + 1)

(* A point of a sparkline: the time it is drawn at and what it shows.      *)
Point == [t : Clock, of : Snapshot]

Payload == [t : 0..(MaxEvents + 1), listed : BOOLEAN, online : BOOLEAN, status : Snapshot,
            live : Seq(Point)]
Blank == [t |-> 0, listed |-> FALSE, online |-> FALSE, status |-> 0, live |-> <<>>]

Step == {"idle", "list", "get", "done", "subscribe"}
Build == [step : Step, payload : Payload]
Idle == [step |-> "idle", payload |-> Blank]

VARIABLES
  clock, events,
  row,        \* the server's row: is it there, last_seen
  live,       \* its entry in the live cache: newest snapshot, rolling window
  found,      \* pushes between GetServerByToken and live.Put
  touching,   \* pushes between live.Put and TouchServer: their times
  build,      \* the payload each goroutine is assembling
  subs, queue,\* the event hub: who is subscribed, what their channels hold
  conn, mute, \* the tab's connection; does a proxy hold back what comes on it?
  quiet,      \* no payload for three ticks
  page        \* what the tab shows: the last payload, the server's series

counters == <<clock, events>>
server == <<row, live, found, touching>>
stream == <<subs, queue>>
tab == <<conn, mute, quiet, page>>
vars == <<counters, server, build, stream, tab>>

TypeOK ==
  /\ clock \in Clock /\ events \in 0..MaxEvents
  /\ row \in [there : BOOLEAN, lastSeen : Snapshot]
  /\ live \in [snap : Snapshot, points : Seq(Point)]
  /\ found \in 0..MaxEvents /\ touching \subseteq Clock
  /\ build \in [Builder -> Build]
  /\ subs \subseteq Conn
  /\ queue \in [Conn -> Seq(Payload)]
  /\ \A c \in Conn : Len(queue[c]) <= Capacity /\ (queue[c] # <<>> => c \in subs)
  /\ conn \in Conn \cup {None} /\ mute \in BOOLEAN /\ quiet \in BOOLEAN
  /\ page \in [shown : Payload, known : BOOLEAN, series : Seq(Point)]

NoEntry == [snap |-> 0, points |-> <<>>]

Trimmed(points) ==
  IF Len(points) > Window THEN SubSeq(points, Len(points) - Window + 1, Len(points))
  ELSE points

(* The entry a snapshot that arrives now makes of one.                     *)
Entry(entry) == [snap |-> clock,
                 points |-> Trimmed(Append(entry.points, [t |-> clock, of |-> clock]))]

Init ==
  /\ clock = 1 /\ events = 0
  /\ row = [there |-> TRUE, lastSeen |-> IF Known THEN 1 ELSE 0]
  /\ live = IF Known THEN Entry(NoEntry) ELSE NoEntry
  /\ found = 0 /\ touching = {}
  /\ build = [b \in Builder |-> Idle]
  /\ subs = {} /\ queue = [c \in Conn |-> <<>>]
  /\ conn = None /\ mute = FALSE /\ quiet = TRUE
  /\ page = [shown |-> Blank, known |-> FALSE, series |-> <<>>]

Happens == events < MaxEvents /\ events' = events + 1

Tick == /\ Happens /\ clock' = clock + 1
        /\ UNCHANGED <<server, build, stream, tab>>

-----------------------------------------------------------------------------
(* Pushes and the delete *)

(* fault: last_seen is the time the request came in *)
FindAndTouch == /\ row.there /\ Happens
                /\ found' = found + 1 /\ touching' = touching \cup {clock}
                /\ UNCHANGED <<clock, row, live, build, stream, tab>>

Find == /\ row.there /\ Happens
        /\ found' = found + 1
        /\ UNCHANGED <<clock, row, live, touching, build, stream, tab>>

(* The time is taken once the body is in; only the cache's mutex lies      *)
(* between it and Put.                                                     *)
Put ==
  /\ found > 0 /\ found' = found - 1
  /\ live' = Entry(live)
  /\ touching' = touching \cup {clock}
  /\ UNCHANGED <<counters, row, build, stream, tab>>

(* Two pushes of the same second do the same to the row.                   *)
Touch(at) ==
  /\ at \in touching
  /\ row' = [row EXCEPT !.lastSeen = IF row.there THEN at ELSE @]
  /\ touching' \in {touching, touching \ {at}}
  /\ UNCHANGED <<counters, live, found, build, stream, tab>>

DeleteRow == /\ row.there /\ Happens
             /\ row' = [there |-> FALSE, lastSeen |-> 0]
             /\ UNCHANGED <<clock, live, found, touching, build, stream, tab>>

(* handleDeleteServer asks for no row: a delete of one that is gone comes  *)
(* here too.                                                               *)
RemoveLive == /\ ~row.there /\ live' = NoEntry
              /\ UNCHANGED <<counters, row, found, touching, build, stream, tab>>

-----------------------------------------------------------------------------
(* Assembling a payload *)

Started == [step |-> "list", payload |-> [Blank EXCEPT !.t = clock]]

IsOnline(t) == row.lastSeen > 0 /\ t - row.lastSeen <= OfflineAfter

List(b) ==
  LET p == build[b].payload
  IN  /\ build[b].step = "list"
      /\ build' = [build EXCEPT ![b] =
           IF row.there
           THEN [step |-> "get",
                 payload |-> [p EXCEPT !.listed = TRUE, !.online = IsOnline(p.t)]]
           ELSE [step |-> "done", payload |-> p]]
  /\ UNCHANGED <<counters, server, stream, tab>>

(* A dashboard that cannot list the servers is sent without any.           *)
ListFails(b) ==
  /\ build[b].step = "list" /\ Happens
  /\ build' = [build EXCEPT ![b].step = "done"]
  /\ UNCHANGED <<clock, server, stream, tab>>

(* broadcastLoop leaves the rolling window out.                            *)
Get(b) ==
  /\ build[b].step = "get"
  /\ build' = [build EXCEPT ![b] = [step |-> "done",
       payload |-> [@.payload EXCEPT !.status = live.snap,
                                     !.live = IF b = Loop THEN <<>> ELSE live.points]]]
  /\ UNCHANGED <<counters, server, stream, tab>>

-----------------------------------------------------------------------------
(* What the tab makes of a payload *)

(* trackSeries: the rolling window is taken for a server the tab has no    *)
(* series of, every payload of a server that is online adds a point.       *)
TrackSeries(p, s) ==
  LET base == IF s.known THEN s.series ELSE p.live
      drawn == \/ p.status = 0
               \/ ~p.online
               \/ base # <<>> /\ Last(base).t = p.t
  IN  IF ~p.listed THEN <<>>
      ELSE IF drawn THEN base
      ELSE Trimmed(Append(base, [t |-> p.t, of |-> p.status]))

ApplyPayload(p) ==
  /\ page' = [shown |-> p, known |-> p.listed, series |-> TrackSeries(p, page)]
  /\ quiet' = FALSE

(* What is written on a connection reaches the tab if it is still its own. *)
Write(c, p) ==
  /\ IF conn = c /\ ~mute THEN ApplyPayload(p) ELSE UNCHANGED <<quiet, page>>
  /\ UNCHANGED <<conn, mute>>

-----------------------------------------------------------------------------
(* The stream *)

(* The tab opens a connection; what a buffering proxy lets through is      *)
(* nothing.                                                                *)
Connect(c) ==
  /\ conn = None /\ c \notin subs /\ build[c] = Idle
  /\ conn' = c /\ mute' \in BOOLEAN
  /\ build' = [build EXCEPT ![c] = Started]
  /\ UNCHANGED <<counters, server, stream, quiet, page>>

WriteFirst(c) ==
  /\ build[c].step = "done"
  /\ Write(c, build[c].payload)
  /\ build' = [build EXCEPT ![c] = [Idle EXCEPT !.step = "subscribe"]]
  /\ UNCHANGED <<counters, server, subs, queue>>

Subscribe(c) ==
  /\ build[c].step = "subscribe"
  /\ build' = [build EXCEPT ![c] = Idle]
  /\ subs' = subs \cup {c}
  /\ UNCHANGED <<counters, server, queue, tab>>

Deliver(c) ==
  /\ queue[c] # <<>>
  /\ Write(c, Head(queue[c]))
  /\ queue' = [queue EXCEPT ![c] = Tail(@)]
  /\ UNCHANGED <<counters, server, build, subs>>

(* The connection is gone, and only the tab knows.                         *)
Drop ==
  /\ conn # None /\ Happens
  /\ conn' = None /\ mute' = FALSE
  /\ UNCHANGED <<clock, server, build, stream, quiet, page>>

(* The request's context is done.                                          *)
Unsubscribe(c) ==
  /\ c \in subs /\ conn # c
  /\ subs' = subs \ {c}
  /\ queue' = [queue EXCEPT ![c] = <<>>]
  /\ UNCHANGED <<counters, server, build, tab>>

LoopTick ==
  /\ build[Loop] = Idle /\ subs # {}
  /\ build' = [build EXCEPT ![Loop] = Started]
  /\ UNCHANGED <<counters, server, stream, tab>>

(* fault: wait for room in every channel *)
BroadcastToAll ==
  /\ build[Loop].step = "done" /\ \A c \in subs : Len(queue[c]) < Capacity
  /\ queue' = [c \in Conn |-> IF c \in subs THEN Append(queue[c], build[Loop].payload)
                              ELSE queue[c]]
  /\ build' = [build EXCEPT ![Loop] = Idle]
  /\ UNCHANGED <<counters, server, subs, tab>>

(* fault: keep what a slow reader has not taken yet, however much it is *)
BroadcastUnbounded ==
  /\ build[Loop].step = "done"
  /\ queue' = [c \in Conn |-> IF c \in subs THEN Append(queue[c], build[Loop].payload)
                              ELSE queue[c]]
  /\ build' = [build EXCEPT ![Loop] = Idle]
  /\ UNCHANGED <<counters, server, subs, tab>>

(* "Slow readers are skipped rather than blocking the broadcaster."        *)
Broadcast ==
  /\ build[Loop].step = "done"
  /\ queue' = [c \in Conn |-> IF c \in subs /\ Len(queue[c]) < Capacity
                              THEN Append(queue[c], build[Loop].payload) ELSE queue[c]]
  /\ build' = [build EXCEPT ![Loop] = Idle]
  /\ UNCHANGED <<counters, server, subs, tab>>

-----------------------------------------------------------------------------
(* Polling *)

(* Nothing has come for three ticks; nothing waits to be written.          *)
GoQuiet ==
  /\ ~quiet /\ quiet' = TRUE
  /\ \A c \in Conn : conn = c /\ ~mute => queue[c] = <<>> /\ build[c].step # "done"
  /\ UNCHANGED <<counters, server, build, stream, conn, mute, page>>

(* fault: poll only when the stream is known to be down *)
AskWithoutStream(q) ==
  /\ quiet /\ conn = None /\ build[q] = Idle
  /\ build' = [build EXCEPT ![q] = Started]
  /\ UNCHANGED <<counters, server, stream, tab>>

Ask(q) ==
  /\ quiet /\ build[q] = Idle
  /\ build' = [build EXCEPT ![q] = Started]
  /\ UNCHANGED <<counters, server, stream, tab>>

Answer(q) ==
  /\ build[q].step = "done"
  /\ ApplyPayload(build[q].payload)
  /\ build' = [build EXCEPT ![q] = Idle]
  /\ UNCHANGED <<counters, server, stream, conn, mute>>

AskFails(q) ==
  /\ build[q] # Idle /\ Happens
  /\ build' = [build EXCEPT ![q] = Idle]
  /\ UNCHANGED <<clock, server, stream, tab>>

(* The hub's memory, its goroutines and its connections go.                *)
Restart ==
  /\ Happens
  /\ live' = NoEntry /\ found' = 0 /\ touching' = {}
  /\ build' = [b \in Builder |-> Idle]
  /\ subs' = {} /\ queue' = [c \in Conn |-> <<>>]
  /\ conn' = None /\ mute' = FALSE
  /\ UNCHANGED <<clock, row, quiet, page>>

-----------------------------------------------------------------------------
Next ==
  \/ Tick \/ Find \/ Put \/ (\E at \in Clock : Touch(at)) \/ DeleteRow \/ RemoveLive
  \/ \E b \in Builder : List(b) \/ ListFails(b) \/ Get(b)
  \/ \E c \in Conn : Connect(c) \/ WriteFirst(c) \/ Subscribe(c) \/ Deliver(c) \/ Unsubscribe(c)
  \/ Drop \/ LoopTick \/ Broadcast
  \/ GoQuiet \/ (\E q \in Poll : Ask(q) \/ Answer(q) \/ AskFails(q))
  \/ Restart

(* The hub's goroutines run, its ticker ticks, what is written to a peer   *)
(* that reads gets there, and the page's timers run. A peer that does not  *)
(* read blocks the goroutine serving it for as long as it likes (the       *)
(* server has no write timeout), and nobody has to connect, to notice a    *)
(* lost connection or to push.                                             *)
Serve(c) == \/ List(c) \/ Get(c) \/ Subscribe(c)
            \/ conn = c /\ (WriteFirst(c) \/ Deliver(c))
Fairness ==
  /\ \A c \in Conn : WF_vars(Serve(c))
  /\ WF_vars(LoopTick \/ List(Loop) \/ Get(Loop) \/ Broadcast)
  /\ \A q \in Poll : WF_vars(Ask(q) \/ List(q) \/ Get(q) \/ Answer(q))
  /\ WF_vars(GoQuiet)

Spec == Init /\ [][Next]_vars /\ Fairness

-----------------------------------------------------------------------------
(* Properties *)

(* A point drawn for a server that is online shows a snapshot no older     *)
(* than the silence that would make it offline, although rows and cache    *)
(* are written and read at different moments: handleAgentPush puts the     *)
(* snapshot in the cache before it touches the row (ingest.go:48-52), and  *)
(* dashboard lists the rows before it reads the cache (api.go:76-84).      *)
PointsAreFresh ==
  \A i \in 1..Len(page.series) :
    page.series[i].t - page.series[i].of <= OfflineAfter

(* What a dashboard assembled now would show.                              *)
IsCurrent(p) ==
  /\ p.listed = row.there
  /\ row.there => p.online = IsOnline(clock) /\ p.status = live.snap

(* Once nothing changes any more every tab shows the state of the server,  *)
(* whatever was lost, skipped, late or held back before: by its stream or, *)
(* when that is quiet, by polling (app.js:189-212).                        *)
PageCatchesUp == <>[]IsCurrent(page.shown)

(* A connection that is read carries the state of the server in the end,   *)
(* even beside others that are not read: slow readers are skipped, not     *)
(* waited for (events.go:5-6).                                             *)
OpenStreamsFollow ==
  \A c \in Conn :
    <>[](conn = c /\ c \in subs) => []<>(queue[c] # <<>> /\ IsCurrent(Head(queue[c])))
=============================================================================
