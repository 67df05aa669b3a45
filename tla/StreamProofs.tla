---------------------------- MODULE StreamProofs ----------------------------
(***************************************************************************)
(* Proofs about Stream: whatever the number of connections, polls and      *)
(* pushes, the sizes of window and channel, and the faults, no sparkline   *)
(* shows a snapshot older than the silence that makes a server offline.    *)
(***************************************************************************)
EXTENDS Stream, SequenceTheorems, TLAPS

USE StreamAssumption

-----------------------------------------------------------------------------
(* Sequences of points *)

(* Trimming keeps some of the points.                                      *)
LEMMA TrimmedSome ==
  ASSUME NEW s \in Seq(Point)
  PROVE  /\ Trimmed(s) \in Seq(Point)
         /\ \A i \in 1..Len(Trimmed(s)) : \E j \in 1..Len(s) : Trimmed(s)[i] = s[j]
<1>1. CASE Len(s) <= Window
  BY <1>1 DEF Trimmed
<1>2. CASE Len(s) > Window
  <2> DEFINE m == Len(s) - Window + 1
             n == Len(s)
  <2>1. m \in Int /\ n \in Int /\ m \in 1..(n + 1)
    BY <1>2
  <2>2. \A i \in m..n : s[i] \in Point
    BY <2>1, ElementOfSeq
  <2> HIDE DEF m, n
  <2>3. /\ SubSeq(s, m, n) \in Seq(Point)
        /\ Len(SubSeq(s, m, n)) = IF m <= n THEN n - m + 1 ELSE 0
        /\ \A i \in 1..(n - m + 1) : SubSeq(s, m, n)[i] = s[m + i - 1]
    BY <2>1, <2>2, SubSeqProperties
  <2>4. Trimmed(s) = SubSeq(s, m, n)
    BY <1>2 DEF Trimmed, m, n
  <2>5. \A i \in 1..Len(Trimmed(s)) : m + i - 1 \in 1..n /\ Trimmed(s)[i] = s[m + i - 1]
    BY <2>1, <2>3, <2>4
  <2> QED BY <2>3, <2>4, <2>5 DEF n
<1> QED BY <1>1, <1>2

(* A point more, and trimmed: the points are the old ones and the new one. *)
LEMMA ExtendedSome ==
  ASSUME NEW s \in Seq(Point), NEW x \in Point
  PROVE  /\ Trimmed(Append(s, x)) \in Seq(Point)
         /\ \A i \in 1..Len(Trimmed(Append(s, x))) :
              \/ Trimmed(Append(s, x))[i] = x
              \/ \E j \in 1..Len(s) : Trimmed(Append(s, x))[i] = s[j]
<1>1. /\ Append(s, x) \in Seq(Point) /\ Len(Append(s, x)) = Len(s) + 1
      /\ \A i \in 1..Len(s) : Append(s, x)[i] = s[i]
      /\ Append(s, x)[Len(s) + 1] = x
  BY AppendProperties
<1>2. \A j \in 1..Len(Append(s, x)) :
        Append(s, x)[j] = x \/ \E k \in 1..Len(s) : Append(s, x)[j] = s[k]
  BY <1>1
<1> DEFINE t == Append(s, x)
<1>3. t \in Seq(Point)
  BY <1>1
<1> HIDE DEF t
<1>4. /\ Trimmed(t) \in Seq(Point)
      /\ \A i \in 1..Len(Trimmed(t)) : \E j \in 1..Len(t) : Trimmed(t)[i] = t[j]
  BY <1>3, TrimmedSome
<1>5. \A j \in 1..Len(t) : t[j] = x \/ \E k \in 1..Len(s) : t[j] = s[k]
  BY <1>2 DEF t
<1>6. \A i \in 1..Len(Trimmed(t)) :
        Trimmed(t)[i] = x \/ \E k \in 1..Len(s) : Trimmed(t)[i] = s[k]
  BY <1>4, <1>5
<1> QED BY <1>4, <1>6 DEF t

-----------------------------------------------------------------------------
(* Types *)

(* Only a payload that was stamped lists a server.                         *)
Dated(p) == p.listed => p.t >= 1

(* The types, with what bounds the counters (every second and every push   *)
(* took an event) and dates the points that will be drawn.                 *)
CountersOK ==
  /\ clock \in Clock /\ events \in 0..MaxEvents /\ clock <= events + 1
  /\ found \in 0..MaxEvents /\ found <= events

EntryOK == live \in [snap : Snapshot, points : Seq(Point)]

RowOK == row \in [there : BOOLEAN, lastSeen : Snapshot] /\ touching \subseteq Clock

BuildOK ==
  /\ build \in [Builder -> Build]
  /\ \A b \in Builder : /\ Dated(build[b].payload)
                        /\ build[b].step \in {"list", "get"} => build[b].payload.t >= 1

QueueOK ==
  /\ subs \subseteq Conn /\ queue \in [Conn -> Seq(Payload)]
  /\ \A c \in Conn : /\ Len(queue[c]) <= Capacity
                     /\ queue[c] # <<>> => c \in subs
                     /\ \A i \in 1..Len(queue[c]) : Dated(queue[c][i])

TabOK ==
  /\ conn \in Conn \cup {None} /\ mute \in BOOLEAN /\ quiet \in BOOLEAN
  /\ page \in [shown : Payload, known : BOOLEAN, series : Seq(Point)]

TypeInv == CountersOK /\ EntryOK /\ RowOK /\ BuildOK /\ QueueOK /\ TabOK

LEMMA TypesFollow == TypeInv => TypeOK
BY DEF TypeInv, CountersOK, EntryOK, RowOK, BuildOK, QueueOK, TabOK, TypeOK

LEMMA Unchanged ==
  /\ CountersOK /\ UNCHANGED <<clock, events, found>> => CountersOK'
  /\ EntryOK /\ UNCHANGED live => EntryOK'
  /\ RowOK /\ UNCHANGED <<row, touching>> => RowOK'
  /\ BuildOK /\ UNCHANGED build => BuildOK'
  /\ QueueOK /\ UNCHANGED <<subs, queue>> => QueueOK'
  /\ TabOK /\ UNCHANGED <<conn, mute, quiet, page>> => TabOK'
BY DEF CountersOK, EntryOK, RowOK, BuildOK, QueueOK, TabOK

LEMMA BlankType == Blank \in Payload /\ Idle \in Build /\ Dated(Blank)
<1>1. <<>> \in Seq(Point)
  BY EmptySeq
<1>2. 0 \in 0..(MaxEvents + 1)
  OBVIOUS
<1> QED BY <1>1, <1>2 DEF Blank, Payload, Idle, Build, Step, Snapshot, Dated

LEMMA StartedType ==
  ASSUME clock \in Clock
  PROVE  /\ Started \in Build /\ Started.step = "list"
         /\ Started.payload.t = clock /\ Started.payload.t >= 1 /\ Started.payload.status = 0
         /\ ~Started.payload.listed /\ ~Started.payload.online
         /\ Started.payload.live = <<>> /\ Dated(Started.payload)
<1>1. clock \in 0..(MaxEvents + 1)
  BY DEF Clock
<1>2. clock >= 1
  BY DEF Clock
<1> QED BY <1>1, <1>2, BlankType DEF Started, Blank, Payload, Build, Step, Dated

LEMMA EntryType ==
  ASSUME clock \in Clock, NEW e \in [snap : Snapshot, points : Seq(Point)]
  PROVE  Entry(e) \in [snap : Snapshot, points : Seq(Point)]
<1>1. [t |-> clock, of |-> clock] \in Point /\ clock \in Snapshot
  BY DEF Clock, Point, Snapshot
<1> QED BY <1>1, ExtendedSome DEF Entry

(* The page's series are sequences of points.                              *)
LEMMA SeriesType ==
  ASSUME NEW p \in Payload, Dated(p),
         NEW s \in [shown : Payload, known : BOOLEAN, series : Seq(Point)]
  PROVE  TrackSeries(p, s) \in Seq(Point)
<1> DEFINE base == IF s.known THEN s.series ELSE p.live
<1>1. base \in Seq(Point) /\ <<>> \in Seq(Point)
  BY EmptySeq DEF Payload
<1>2. p.listed => [t |-> p.t, of |-> p.status] \in Point
  BY DEF Payload, Point, Clock, Dated
<1> QED BY <1>1, <1>2, ExtendedSome DEF TrackSeries

LEMMA AppliedType ==
  ASSUME NEW p \in Payload, Dated(p), TabOK, ApplyPayload(p)
  PROVE  /\ page' \in [shown : Payload, known : BOOLEAN, series : Seq(Point)]
         /\ quiet' \in BOOLEAN
<1>1. p.listed \in BOOLEAN
  BY DEF Payload
<1> QED BY <1>1, SeriesType DEF ApplyPayload, TabOK

LEMMA WrittenType ==
  ASSUME NEW p \in Payload, Dated(p), NEW c \in Conn, TabOK, Write(c, p)
  PROVE  TabOK'
BY AppliedType DEF Write, TabOK

LEMMA InitType == Init => TypeInv
<1> SUFFICES ASSUME Init PROVE TypeInv
  OBVIOUS
<1>1. 1 \in Clock /\ 0 \in Snapshot /\ 1 \in Snapshot
  BY DEF Clock, Snapshot
<1>2. NoEntry \in [snap : Snapshot, points : Seq(Point)]
  BY <1>1, EmptySeq DEF NoEntry
<1>3. live \in [snap : Snapshot, points : Seq(Point)]
  BY <1>1, <1>2, EntryType DEF Init
<1>4. <<>> \in Seq(Payload) /\ <<>> \in Seq(Point) /\ Len(<<>>) = 0
  BY EmptySeq
<1>5. CountersOK /\ EntryOK /\ RowOK
  BY <1>1, <1>3 DEF Init, CountersOK, EntryOK, RowOK
<1>6. BuildOK
  BY BlankType DEF Init, BuildOK, Idle
<1>7. QueueOK
  <2>1. queue \in [Conn -> Seq(Payload)] /\ \A c \in Conn : queue[c] = <<>>
    BY <1>4 DEF Init
  <2>2. \A c \in Conn : Len(queue[c]) = 0
    BY <1>4, <2>1
  <2> QED BY <2>1, <2>2 DEF Init, QueueOK
<1>8. TabOK
  BY <1>4, BlankType DEF Init, TabOK
<1> QED BY <1>5, <1>6, <1>7, <1>8 DEF TypeInv

(* What is left of a channel's payloads, and one more.                     *)
LEMMA QueueTail ==
  ASSUME NEW s \in Seq(Payload), s # <<>>
  PROVE  /\ Head(s) \in Payload /\ Head(s) = s[1] /\ 1 \in 1..Len(s)
         /\ Tail(s) \in Seq(Payload) /\ Len(Tail(s)) = Len(s) - 1
         /\ \A i \in 1..Len(Tail(s)) : i + 1 \in 1..Len(s) /\ Tail(s)[i] = s[i + 1]
<1>1. Len(s) \in Nat \ {0}
  BY EmptySeq
<1> QED BY <1>1, HeadTailProperties

LEMMA QueueAppend ==
  ASSUME NEW s \in Seq(Payload), NEW p \in Payload
  PROVE  /\ Append(s, p) \in Seq(Payload) /\ Len(Append(s, p)) = Len(s) + 1
         /\ \A i \in 1..Len(Append(s, p)) :
              Append(s, p)[i] = p \/ (i \in 1..Len(s) /\ Append(s, p)[i] = s[i])
<1>1. /\ Append(s, p) \in Seq(Payload) /\ Len(Append(s, p)) = Len(s) + 1
      /\ \A i \in 1..Len(s) : Append(s, p)[i] = s[i]
      /\ Append(s, p)[Len(s) + 1] = p
  BY AppendProperties
<1> QED BY <1>1

(* A goroutine's next build, and only that, changes.                       *)
LEMMA BuildStep ==
  ASSUME BuildOK, NEW b \in Builder, NEW x \in Build, Dated(x.payload),
         x.step \in {"list", "get"} => x.payload.t >= 1,
         build' = [build EXCEPT ![b] = x]
  PROVE  BuildOK'
BY DEF BuildOK

LEMMA EventStep ==
  ASSUME CountersOK, Happens
  PROVE  /\ UNCHANGED <<clock, found>> => CountersOK'
         /\ clock' \in {clock, clock + 1} /\ found' = found => CountersOK'
         /\ clock' = clock /\ found' = found + 1 => CountersOK'
BY DEF CountersOK, Happens, Clock

LEMMA EnvironmentType ==
  ASSUME TypeInv,
         Tick \/ Find \/ Put \/ (\E at \in Clock : Touch(at)) \/ DeleteRow \/ RemoveLive
  PROVE  TypeInv'
<1> USE DEF server, stream, tab, counters
<1>1. CASE Tick
  BY <1>1, EventStep, Unchanged DEF Tick, TypeInv
<1>2. CASE Find
  BY <1>2, EventStep, Unchanged DEF Find, TypeInv
<1>3. CASE Put
  <2>1. EntryOK'
    BY <1>3, EntryType DEF Put, TypeInv, EntryOK, CountersOK
  <2>2. CountersOK' /\ RowOK'
    BY <1>3 DEF Put, TypeInv, CountersOK, RowOK
  <2> QED BY <1>3, <2>1, <2>2, Unchanged DEF Put, TypeInv
<1>4. ASSUME NEW at \in Clock, Touch(at) PROVE TypeInv'
  <2>1. at \in Snapshot
    BY DEF Clock, Snapshot
  <2>2. RowOK'
    BY <1>4, <2>1 DEF Touch, TypeInv, RowOK
  <2> QED BY <1>4, <2>2, Unchanged DEF Touch, TypeInv
<1>5. CASE DeleteRow
  <2>1. RowOK'
    BY <1>5 DEF DeleteRow, Snapshot, RowOK, TypeInv
  <2> QED BY <1>5, <2>1, EventStep, Unchanged DEF DeleteRow, TypeInv
<1>6. CASE RemoveLive
  <2>1. EntryOK'
    BY <1>6, EmptySeq DEF RemoveLive, NoEntry, Snapshot, EntryOK
  <2> QED BY <1>6, <2>1, Unchanged DEF RemoveLive, TypeInv
<1> QED BY <1>1, <1>2, <1>3, <1>4, <1>5, <1>6

LEMMA AssemblyType ==
  ASSUME TypeInv, NEW b \in Builder, List(b) \/ ListFails(b) \/ Get(b)
  PROVE  TypeInv'
<1> USE DEF server, stream, tab, counters
<1> DEFINE p == build[b].payload
<1>1. /\ p \in Payload /\ build[b] \in Build /\ Dated(p)
      /\ build[b].step \in {"list", "get"} => p.t >= 1
  BY DEF TypeInv, BuildOK, Build
<1>2. CASE List(b)
  <2> DEFINE x == IF row.there
                  THEN [step |-> "get",
                        payload |-> [p EXCEPT !.listed = TRUE, !.online = IsOnline(p.t)]]
                  ELSE [step |-> "done", payload |-> p]
  <2>1. IsOnline(p.t) \in BOOLEAN
    BY DEF IsOnline
  <2>2. x \in Build /\ Dated(x.payload) /\ (x.step \in {"list", "get"} => x.payload.t >= 1)
    BY <1>1, <1>2, <2>1 DEF List, Build, Payload, Step, Dated
  <2>3. build' = [build EXCEPT ![b] = x]
    BY <1>2 DEF List
  <2>4. BuildOK'
    BY <2>2, <2>3, BuildStep DEF TypeInv
  <2> QED BY <1>2, <2>4, Unchanged DEF List, TypeInv
<1>3. CASE ListFails(b)
  <2> DEFINE x == [build[b] EXCEPT !.step = "done"]
  <2>1. x \in Build /\ Dated(x.payload) /\ x.step = "done"
    BY <1>1 DEF Build, Step
  <2>2. build' = [build EXCEPT ![b] = x]
    BY <1>3 DEF ListFails
  <2>3. BuildOK'
    BY <2>1, <2>2, BuildStep DEF TypeInv
  <2> QED BY <1>3, <2>3, EventStep, Unchanged DEF ListFails, TypeInv
<1>4. CASE Get(b)
  <2> DEFINE x == [step |-> "done",
                   payload |-> [p EXCEPT !.status = live.snap,
                                         !.live = IF b = Loop THEN <<>> ELSE live.points]]
  <2>1. live.snap \in Snapshot /\ live.points \in Seq(Point) /\ <<>> \in Seq(Point)
    BY EmptySeq DEF TypeInv, EntryOK
  <2>2. x \in Build /\ Dated(x.payload) /\ x.step = "done"
    BY <1>1, <2>1 DEF Build, Payload, Step, Dated
  <2>3. build' = [build EXCEPT ![b] = x]
    BY <1>4 DEF Get
  <2>4. BuildOK'
    BY <2>2, <2>3, BuildStep DEF TypeInv
  <2> QED BY <1>4, <2>4, Unchanged DEF Get, TypeInv
<1> QED BY <1>2, <1>3, <1>4

LEMMA ConnectionType ==
  ASSUME TypeInv, NEW c \in Conn,
         Connect(c) \/ WriteFirst(c) \/ Subscribe(c) \/ Deliver(c) \/ Unsubscribe(c)
  PROVE  TypeInv'
<1> USE DEF server, stream, tab, counters
<1>1. c \in Builder /\ build[c] \in Build /\ queue[c] \in Seq(Payload) /\ clock \in Clock
  BY DEF Builder, TypeInv, BuildOK, QueueOK, CountersOK
<1>2. CASE Connect(c)
  <2>1. BuildOK'
    BY <1>1, <1>2, StartedType, BuildStep DEF Connect, TypeInv
  <2>2. TabOK'
    BY <1>2 DEF Connect, TypeInv, TabOK
  <2> QED BY <1>2, <2>1, <2>2, Unchanged DEF Connect, TypeInv
<1>3. CASE WriteFirst(c)
  <2>1. build[c].payload \in Payload /\ Dated(build[c].payload)
    BY <1>1 DEF Build, TypeInv, BuildOK
  <2>2. TabOK'
    BY <1>3, <2>1, WrittenType DEF WriteFirst, TypeInv
  <2>3. [Idle EXCEPT !.step = "subscribe"] \in Build /\ Dated([Idle EXCEPT !.step = "subscribe"].payload)
    BY BlankType DEF Idle, Build, Step
  <2>4. [Idle EXCEPT !.step = "subscribe"].step = "subscribe"
    BY DEF Idle
  <2>5. BuildOK'
    BY <1>1, <1>3, <2>3, <2>4, BuildStep DEF WriteFirst, TypeInv
  <2> QED BY <1>3, <2>2, <2>5, Unchanged DEF WriteFirst, TypeInv
<1>4. CASE Subscribe(c)
  <2>1. BuildOK'
    BY <1>1, <1>4, BlankType, BuildStep DEF Subscribe, TypeInv, Idle
  <2>2. QueueOK'
    BY <1>4 DEF Subscribe, TypeInv, QueueOK
  <2> QED BY <1>4, <2>1, <2>2, Unchanged DEF Subscribe, TypeInv
<1>5. CASE Deliver(c)
  <2>1. /\ Head(queue[c]) \in Payload /\ Head(queue[c]) = queue[c][1] /\ 1 \in 1..Len(queue[c])
        /\ Tail(queue[c]) \in Seq(Payload) /\ Len(Tail(queue[c])) = Len(queue[c]) - 1
        /\ \A i \in 1..Len(Tail(queue[c])) :
             i + 1 \in 1..Len(queue[c]) /\ Tail(queue[c])[i] = queue[c][i + 1]
    BY <1>1, <1>5, QueueTail DEF Deliver
  <2>2. TabOK'
    BY <1>5, <2>1, WrittenType DEF Deliver, TypeInv, QueueOK
  <2>3. c \in subs /\ Len(Tail(queue[c])) <= Capacity
    BY <1>1, <1>5, <2>1 DEF Deliver, TypeInv, QueueOK
  <2>4. QueueOK'
    BY <1>5, <2>1, <2>3 DEF Deliver, TypeInv, QueueOK
  <2> QED BY <1>5, <2>2, <2>4, Unchanged DEF Deliver, TypeInv
<1>6. CASE Unsubscribe(c)
  <2>1. <<>> \in Seq(Payload) /\ Len(<<>>) = 0
    BY EmptySeq
  <2>2. QueueOK'
    BY <1>6, <2>1 DEF Unsubscribe, TypeInv, QueueOK
  <2> QED BY <1>6, <2>2, Unchanged DEF Unsubscribe, TypeInv
<1> QED BY <1>2, <1>3, <1>4, <1>5, <1>6

LEMMA LoopType ==
  ASSUME TypeInv, LoopTick \/ Broadcast \/ Drop \/ GoQuiet \/ Restart
  PROVE  TypeInv'
<1> USE DEF server, stream, tab, counters
<1>1. Loop \in Builder /\ build[Loop] \in Build /\ clock \in Clock
  BY DEF Builder, TypeInv, BuildOK, CountersOK
<1>2. <<>> \in Seq(Payload) /\ <<>> \in Seq(Point) /\ Len(<<>>) = 0
  BY EmptySeq
<1>3. CASE LoopTick
  <2>1. BuildOK'
    BY <1>1, <1>3, StartedType, BuildStep DEF LoopTick, TypeInv
  <2> QED BY <1>3, <2>1, Unchanged DEF LoopTick, TypeInv
<1>4. CASE Broadcast
  <2>1. BuildOK'
    BY <1>1, <1>4, BlankType, BuildStep DEF Broadcast, TypeInv, Idle
  <2> DEFINE p == build[Loop].payload
  <2>2. p \in Payload /\ Dated(p)
    BY <1>1 DEF Build, TypeInv, BuildOK
  <2>3. ASSUME NEW c \in Conn
        PROVE  /\ queue'[c] \in Seq(Payload) /\ Len(queue'[c]) <= Capacity
               /\ queue'[c] # <<>> => c \in subs
               /\ \A i \in 1..Len(queue'[c]) : Dated(queue'[c][i])
    <3> DEFINE s == queue[c]
    <3>1. /\ s \in Seq(Payload) /\ Len(s) <= Capacity /\ (s # <<>> => c \in subs)
          /\ \A i \in 1..Len(s) : Dated(s[i])
      BY DEF TypeInv, QueueOK
    <3>2. queue'[c] = IF c \in subs /\ Len(s) < Capacity THEN Append(s, p) ELSE s
      BY <1>4 DEF Broadcast
    <3> HIDE DEF s, p
    <3>3. /\ Append(s, p) \in Seq(Payload) /\ Len(Append(s, p)) = Len(s) + 1
          /\ \A i \in 1..Len(Append(s, p)) :
               Append(s, p)[i] = p \/ (i \in 1..Len(s) /\ Append(s, p)[i] = s[i])
      BY <2>2, <3>1, QueueAppend
    <3>4. Len(s) \in Nat
      BY <3>1
    <3>5. \A i \in 1..Len(Append(s, p)) : Dated(Append(s, p)[i])
      BY <2>2, <3>1, <3>3
    <3> QED BY <3>1, <3>2, <3>3, <3>4, <3>5
  <2>4. subs' = subs /\ queue' \in [Conn -> Seq(Payload)]
    BY <1>4, <2>3 DEF Broadcast
  <2>5. QueueOK'
    BY <2>3, <2>4 DEF TypeInv, QueueOK
  <2> QED BY <1>4, <2>1, <2>5, Unchanged DEF Broadcast, TypeInv
<1>5. CASE Drop
  <2>1. TabOK'
    BY <1>5 DEF Drop, TypeInv, TabOK
  <2> QED BY <1>5, <2>1, EventStep, Unchanged DEF Drop, TypeInv
<1>6. CASE GoQuiet
  <2>1. TabOK'
    BY <1>6 DEF GoQuiet, TypeInv, TabOK
  <2> QED BY <1>6, <2>1, Unchanged DEF GoQuiet, TypeInv
<1>7. CASE Restart
  <2>1. CountersOK'
    <3>1. clock' = clock /\ found' = 0 /\ events' = events + 1 /\ events < MaxEvents
      BY <1>7 DEF Restart, Happens
    <3> QED BY <1>1, <3>1 DEF TypeInv, CountersOK, Clock
  <2>2. EntryOK' /\ RowOK'
    BY <1>2, <1>7 DEF Restart, NoEntry, Snapshot, TypeInv, EntryOK, RowOK
  <2>3. BuildOK'
    BY <1>7, BlankType DEF Restart, BuildOK, Idle
  <2>4. queue' \in [Conn -> Seq(Payload)] /\ \A c \in Conn : queue'[c] = <<>>
    BY <1>2, <1>7 DEF Restart
  <2>5. \A c \in Conn : Len(queue'[c]) = 0
    BY <1>2, <2>4
  <2>6. QueueOK'
    BY <1>7, <2>4, <2>5 DEF Restart, QueueOK
  <2>7. TabOK'
    BY <1>7 DEF Restart, TypeInv, TabOK
  <2> QED BY <2>1, <2>2, <2>3, <2>6, <2>7 DEF TypeInv
<1> QED BY <1>3, <1>4, <1>5, <1>6, <1>7

LEMMA PollType ==
  ASSUME TypeInv, NEW q \in Poll, Ask(q) \/ Answer(q) \/ AskFails(q)
  PROVE  TypeInv'
<1> USE DEF server, stream, tab, counters
<1>1. q \in Builder /\ build[q] \in Build /\ clock \in Clock
  BY DEF Builder, TypeInv, BuildOK, CountersOK
<1>2. CASE Ask(q)
  <2>1. BuildOK'
    BY <1>1, <1>2, StartedType, BuildStep DEF Ask, TypeInv
  <2> QED BY <1>2, <2>1, Unchanged DEF Ask, TypeInv
<1>3. CASE Answer(q)
  <2>1. build[q].payload \in Payload /\ Dated(build[q].payload)
    BY <1>1 DEF Build, TypeInv, BuildOK
  <2>2. TabOK'
    BY <1>3, <2>1, AppliedType DEF Answer, TypeInv, TabOK
  <2>3. BuildOK'
    BY <1>1, <1>3, BlankType, BuildStep DEF Answer, TypeInv, Idle
  <2> QED BY <1>3, <2>2, <2>3, Unchanged DEF Answer, TypeInv
<1>4. CASE AskFails(q)
  <2>1. BuildOK'
    BY <1>1, <1>4, BlankType, BuildStep DEF AskFails, TypeInv, Idle
  <2> QED BY <1>4, <2>1, EventStep, Unchanged DEF AskFails, TypeInv
<1> QED BY <1>2, <1>3, <1>4

LEMMA TypeStep == TypeInv /\ [Next]_vars => TypeInv'
<1> SUFFICES ASSUME TypeInv, [Next]_vars PROVE TypeInv'
  OBVIOUS
<1>1. CASE UNCHANGED vars
  BY <1>1, Unchanged DEF vars, counters, server, stream, tab, TypeInv
<1> QED BY <1>1, EnvironmentType, AssemblyType, ConnectionType, LoopType, PollType DEF Next

(* Everything in the hub and in the tab keeps its type: counters, rows,    *)
(* payloads under way and, as one of the types, the capacity of a channel. *)
THEOREM TypeCorrect == Spec => []TypeOK
<1>1. Spec => []TypeInv
  BY InitType, TypeStep, PTL DEF Spec
<1> QED BY <1>1, TypesFollow, PTL

-----------------------------------------------------------------------------
(* Freshness *)

Fresh(points) == \A i \in 1..Len(points) : points[i].t - points[i].of <= OfflineAfter

(* A payload that draws no stale point.                                    *)
Sound(p) ==
  /\ p.online /\ p.status # 0 => p.t - p.status <= OfflineAfter
  /\ Fresh(p.live)

(* No row has seen a push that the cache, if it has any, has not.          *)
CacheInv ==
  /\ row.lastSeen <= clock /\ live.snap <= clock /\ \A at \in touching : at <= clock
  /\ live.snap # 0 => row.lastSeen <= live.snap /\ \A at \in touching : at <= live.snap
  /\ \A i \in 1..Len(live.points) : live.points[i].t = live.points[i].of

(* Between its two reads a payload is judged by what the second will find. *)
BuildInv ==
  \A b \in Builder :
    LET p == build[b].payload
    IN  /\ p.t <= clock /\ Sound(p)
        /\ build[b].step \in {"list", "get"} => p.status = 0
        /\ build[b].step = "get" /\ p.online /\ live.snap # 0 => p.t - live.snap <= OfflineAfter

QueueInv == \A c \in Conn : \A i \in 1..Len(queue[c]) : Sound(queue[c][i])

FreshInv == CacheInv /\ BuildInv /\ QueueInv /\ PointsAreFresh

LEMMA SameInv ==
  /\ CacheInv /\ UNCHANGED <<clock, row, live, touching>> => CacheInv'
  /\ BuildInv /\ UNCHANGED <<clock, build, live>> => BuildInv'
  /\ QueueInv /\ UNCHANGED queue => QueueInv'
  /\ PointsAreFresh /\ UNCHANGED page => PointsAreFresh'
<1>1. CacheInv /\ UNCHANGED <<clock, row, live, touching>> => CacheInv'
  BY DEF CacheInv
<1>2. BuildInv /\ UNCHANGED <<clock, build, live>> => BuildInv'
  BY DEF BuildInv, Sound, Fresh
<1>3. QueueInv /\ UNCHANGED queue => QueueInv'
  BY DEF QueueInv, Sound, Fresh
<1>4. PointsAreFresh /\ UNCHANGED page => PointsAreFresh'
  BY DEF PointsAreFresh
<1> QED BY <1>1, <1>2, <1>3, <1>4

LEMMA BlankSound == Sound(Blank) /\ Fresh(<<>>)
<1>1. Len(<<>>) = 0
  BY EmptySeq
<1> QED BY <1>1 DEF Sound, Fresh, Blank

(* A builder's next payload.                                               *)
LEMMA BuildFresh ==
  ASSUME TypeInv, BuildInv, UNCHANGED <<clock, live>>, NEW b \in Builder, NEW x \in Build,
         build' = [build EXCEPT ![b] = x],
         x.payload.t <= clock, Sound(x.payload),
         x.step \in {"list", "get"} => x.payload.status = 0,
         x.step = "get" /\ x.payload.online /\ live.snap # 0
           => x.payload.t - live.snap <= OfflineAfter
  PROVE  BuildInv'
<1> SUFFICES ASSUME NEW a \in Builder
             PROVE  /\ build'[a].payload.t <= clock' /\ Sound(build'[a].payload)
                    /\ build'[a].step \in {"list", "get"} => build'[a].payload.status = 0
                    /\ build'[a].step = "get" /\ build'[a].payload.online /\ live'.snap # 0
                         => build'[a].payload.t - live'.snap <= OfflineAfter
  BY DEF BuildInv, Sound, Fresh
<1>1. CASE a = b
  BY <1>1 DEF TypeInv, BuildOK
<1>2. CASE a # b
  BY <1>2 DEF TypeInv, BuildOK, BuildInv
<1> QED BY <1>1, <1>2

LEMMA StartedFresh ==
  ASSUME clock \in Clock
  PROVE  Sound(Started.payload) /\ Started.payload.t <= clock
<1>1. clock \in Nat /\ Len(<<>>) = 0
  BY EmptySeq DEF Clock
<1> QED BY <1>1, StartedType DEF Sound, Fresh

(* Sound(p) speaks of p alone: it holds of the same payload in the next    *)
(* state.                                                                  *)
LEMMA SoundQueues ==
  (\A c \in Conn : \A i \in 1..Len(queue'[c]) : Sound(queue'[c][i])) => QueueInv'
BY DEF QueueInv, Sound, Fresh

(* Drawing a sound payload adds no stale point to a series.                *)
LEMMA DrawnFresh ==
  ASSUME TypeInv, PointsAreFresh, NEW p \in Payload, Dated(p), Sound(p), ApplyPayload(p)
  PROVE  PointsAreFresh'
<1> DEFINE base == IF page.known THEN page.series ELSE p.live
           x == [t |-> p.t, of |-> p.status]
<1>1. base \in Seq(Point) /\ Fresh(base) /\ Fresh(<<>>)
  BY BlankSound DEF TypeInv, TabOK, PointsAreFresh, Fresh, Sound, Payload
<1>2. page'.series = TrackSeries(p, page)
  BY DEF ApplyPayload
<1>3. CASE TrackSeries(p, page) \in {<<>>, base}
  BY <1>1, <1>2, <1>3 DEF PointsAreFresh, Fresh
<1>4. CASE TrackSeries(p, page) \notin {<<>>, base}
  <2>1. p.listed /\ p.status # 0 /\ p.online /\ TrackSeries(p, page) = Trimmed(Append(base, x))
    BY <1>4 DEF TrackSeries
  <2>2. x \in Point
    BY <2>1 DEF Payload, Point, Clock, Dated
  <2>3. x.t - x.of <= OfflineAfter
    BY <2>1 DEF Sound
  <2> HIDE DEF base, x
  <2>4. \A i \in 1..Len(Trimmed(Append(base, x))) :
          \/ Trimmed(Append(base, x))[i] = x
          \/ \E j \in 1..Len(base) : Trimmed(Append(base, x))[i] = base[j]
    BY <1>1, <2>2, ExtendedSome
  <2>5. Fresh(Trimmed(Append(base, x)))
    BY <1>1, <2>3, <2>4 DEF Fresh
  <2> QED BY <1>2, <2>1, <2>5 DEF PointsAreFresh, Fresh
<1> QED BY <1>3, <1>4

LEMMA WrittenFresh ==
  ASSUME TypeInv, PointsAreFresh, NEW p \in Payload, Dated(p), Sound(p),
         NEW c \in Conn, Write(c, p)
  PROVE  PointsAreFresh'
<1>1. CASE ApplyPayload(p)
  BY <1>1, DrawnFresh
<1>2. CASE UNCHANGED page
  BY <1>2, SameInv
<1> QED BY <1>1, <1>2 DEF Write

LEMMA InitFresh == Init => FreshInv
<1> SUFFICES ASSUME Init PROVE FreshInv
  OBVIOUS
<1>1. Len(<<>>) = 0 /\ <<>> \in Seq(Point)
  BY EmptySeq
<1>2. CacheInv
  <2>1. CASE Known
    <3> DEFINE x == [t |-> clock, of |-> clock]
    <3>1. clock = 1 /\ x \in Point /\ x.t = x.of
      BY DEF Init, Point, Clock, Snapshot
    <3>2. live.snap = 1 /\ live.points = Trimmed(Append(<<>>, x))
      BY <2>1, <3>1 DEF Init, Entry, NoEntry
    <3> HIDE DEF x
    <3>3. \A i \in 1..Len(live.points) : live.points[i] = x
      <4>1. <<>> \in Seq(Point)
        BY <1>1
      <4>2. \A i \in 1..Len(Trimmed(Append(<<>>, x))) :
              \/ Trimmed(Append(<<>>, x))[i] = x
              \/ \E j \in 1..Len(<<>>) : Trimmed(Append(<<>>, x))[i] = <<>>[j]
        BY <3>1, <4>1, ExtendedSome
      <4>3. ~\E j \in 1..Len(<<>>) : TRUE
        BY <1>1
      <4> QED BY <3>2, <4>2, <4>3
    <3> QED BY <2>1, <3>1, <3>2, <3>3 DEF Init, CacheInv
  <2>2. CASE ~Known
    BY <1>1, <2>2 DEF Init, CacheInv, NoEntry
  <2> QED BY <2>1, <2>2
<1>3. BuildInv
  <2>1. clock = 1 /\ \A b \in Builder : build[b] = Idle
    BY DEF Init
  <2>2. Idle.step = "idle" /\ Idle.payload.t = 0 /\ Sound(Idle.payload)
    BY BlankSound DEF Idle, Blank
  <2> QED BY <2>1, <2>2 DEF BuildInv, Sound, Fresh
<1>4. QueueInv /\ PointsAreFresh
  BY <1>1 DEF Init, QueueInv, PointsAreFresh
<1> QED BY <1>2, <1>3, <1>4 DEF FreshInv

LEMMA ClockBounds == TypeInv => clock \in Nat /\ clock >= 1 /\ live.snap \in Nat /\ row.lastSeen \in Nat
BY DEF TypeInv, CountersOK, EntryOK, RowOK, Clock, Snapshot

(* What the environment does keeps the cache ahead of the rows, and does   *)
(* no payload any harm: a newer snapshot is fresher, and none is none.     *)
LEMMA EnvironmentFresh ==
  ASSUME TypeInv, FreshInv,
         Tick \/ Find \/ Put \/ (\E at \in Clock : Touch(at)) \/ DeleteRow \/ RemoveLive
  PROVE  FreshInv'
<1> USE DEF server, stream, tab, counters
<1>1. QueueInv' /\ PointsAreFresh'
  BY SameInv DEF FreshInv, Tick, Find, Put, Touch, DeleteRow, RemoveLive
<1>2. CASE Tick
  <2>1. clock' = clock + 1
    BY <1>2 DEF Tick
  <2>2. \A at \in touching : at \in Nat
    BY DEF TypeInv, RowOK, Clock
  <2>3. CacheInv'
    BY <1>2, <2>1, <2>2, ClockBounds DEF Tick, FreshInv, CacheInv
  <2>4. \A b \in Builder : build[b].payload.t \in Nat
    BY DEF TypeInv, BuildOK, Build, Payload
  <2>5. BuildInv'
    BY <1>2, <2>1, <2>4, ClockBounds DEF Tick, FreshInv, BuildInv, Sound, Fresh
  <2> QED BY <1>1, <2>3, <2>5 DEF FreshInv
<1>3. CASE Find
  BY <1>1, <1>3, SameInv DEF Find, Happens, FreshInv
<1>4. CASE Put
  <2> DEFINE x == [t |-> clock, of |-> clock]
  <2>1. live'.snap = clock /\ live'.points = Trimmed(Append(live.points, x))
    BY <1>4 DEF Put, Entry
  <2>2. x \in Point /\ x.t = x.of /\ live.points \in Seq(Point)
    BY DEF TypeInv, CountersOK, EntryOK, Clock, Point, Snapshot
  <2> HIDE DEF x
  <2>3. \A i \in 1..Len(live'.points) : live'.points[i].t = live'.points[i].of
    <3> DEFINE s == live.points
               u == Trimmed(Append(s, x))
    <3>1. \A i \in 1..Len(s) : s[i].t = s[i].of
      BY DEF FreshInv, CacheInv
    <3>2. s \in Seq(Point)
      BY <2>2
    <3> HIDE DEF s
    <3>3. \A i \in 1..Len(u) : u[i] = x \/ \E j \in 1..Len(s) : u[i] = s[j]
      BY <2>2, <3>2, ExtendedSome
    <3>4. live'.points = u
      BY <2>1 DEF s
    <3> HIDE DEF u
    <3>5. \A i \in 1..Len(u) : u[i].t = u[i].of
      BY <2>2, <3>1, <3>3
    <3> QED BY <3>4, <3>5
  <2>4. CacheInv'
    BY <1>4, <2>1, <2>3, ClockBounds DEF Put, FreshInv, CacheInv
  <2>5. \A b \in Builder : build[b].payload.t \in Nat
    BY DEF TypeInv, BuildOK, Build, Payload
  <2>6. BuildInv'
    BY <1>4, <2>1, <2>5, ClockBounds DEF Put, FreshInv, BuildInv, Sound, Fresh
  <2> QED BY <1>1, <2>4, <2>6 DEF FreshInv
<1>5. ASSUME NEW at \in Clock, Touch(at) PROVE FreshInv'
  <2>1. CacheInv'
    BY <1>5, ClockBounds DEF Touch, FreshInv, CacheInv
  <2> QED BY <1>1, <1>5, <2>1, SameInv DEF Touch, FreshInv
<1>6. CASE DeleteRow
  <2>1. CacheInv'
    BY <1>6, ClockBounds DEF DeleteRow, FreshInv, CacheInv
  <2> QED BY <1>1, <1>6, <2>1, SameInv DEF DeleteRow, FreshInv
<1>7. CASE RemoveLive
  <2>1. live'.snap = 0 /\ live'.points = <<>> /\ Len(<<>>) = 0
    BY <1>7, EmptySeq DEF RemoveLive, NoEntry
  <2>2. CacheInv'
    BY <1>7, <2>1, ClockBounds DEF RemoveLive, FreshInv, CacheInv
  <2>3. BuildInv'
    BY <1>7, <2>1 DEF RemoveLive, FreshInv, BuildInv, Sound, Fresh
  <2> QED BY <1>1, <2>2, <2>3 DEF FreshInv
<1> QED BY <1>2, <1>3, <1>4, <1>5, <1>6, <1>7

(* A payload that has been listed was judged by a row the cache is ahead   *)
(* of; one that has been filled shows what the cache held.                 *)
LEMMA AssemblyFresh ==
  ASSUME TypeInv, FreshInv, NEW b \in Builder, List(b) \/ ListFails(b) \/ Get(b)
  PROVE  FreshInv'
<1> USE DEF server, stream, tab, counters
<1>1. CacheInv' /\ QueueInv' /\ PointsAreFresh'
  BY SameInv DEF FreshInv, List, ListFails, Get, Happens
<1> DEFINE p == build[b].payload
<1>2. /\ p \in Payload /\ build[b] \in Build /\ p.t \in Nat /\ p.t <= clock /\ Sound(p)
      /\ build[b].step \in {"list", "get"} => p.status = 0
      /\ build[b].step = "get" /\ p.online /\ live.snap # 0 => p.t - live.snap <= OfflineAfter
  BY DEF TypeInv, BuildOK, Build, Payload, FreshInv, BuildInv
<1>3. clock \in Nat /\ live.snap \in Nat /\ row.lastSeen \in Nat
  BY ClockBounds
<1>4. CASE List(b)
  <2> DEFINE x == IF row.there
                  THEN [step |-> "get",
                        payload |-> [p EXCEPT !.listed = TRUE, !.online = IsOnline(p.t)]]
                  ELSE [step |-> "done", payload |-> p]
  <2>1. /\ build' = [build EXCEPT ![b] = x] /\ p.status = 0 /\ UNCHANGED <<clock, live>>
    BY <1>2, <1>4 DEF List
  <2>2. IsOnline(p.t) \in BOOLEAN
    BY DEF IsOnline
  <2>3. x \in Build /\ x.payload.t = p.t /\ x.payload.status = 0 /\ x.payload.live = p.live
    BY <1>2, <2>1, <2>2 DEF Build, Payload, Step
  <2>4. Sound(x.payload)
    BY <1>2, <2>3 DEF Sound
  <2>5. ASSUME x.step = "get", x.payload.online, live.snap # 0
        PROVE  x.payload.t - live.snap <= OfflineAfter
    <3>1. row.lastSeen > 0 /\ p.t - row.lastSeen <= OfflineAfter
      BY <1>2, <2>5 DEF IsOnline, Payload
    <3>2. row.lastSeen <= live.snap
      BY <2>5 DEF FreshInv, CacheInv
    <3> QED BY <1>2, <1>3, <2>3, <3>1, <3>2
  <2> HIDE DEF x
  <2>6. BuildInv'
    BY <1>2, <2>1, <2>3, <2>4, <2>5, BuildFresh DEF FreshInv
  <2> QED BY <1>1, <2>6 DEF FreshInv
<1>5. CASE ListFails(b)
  <2> DEFINE x == [build[b] EXCEPT !.step = "done"]
  <2>1. x \in Build /\ x.payload = p /\ x.step = "done"
    BY <1>2 DEF Build, Step
  <2>2. build' = [build EXCEPT ![b] = x] /\ UNCHANGED <<clock, live>>
    BY <1>5 DEF ListFails
  <2> HIDE DEF x
  <2>3. BuildInv'
    BY <1>2, <2>1, <2>2, BuildFresh DEF FreshInv
  <2> QED BY <1>1, <2>3 DEF FreshInv
<1>6. CASE Get(b)
  <2> DEFINE x == [step |-> "done",
                   payload |-> [p EXCEPT !.status = live.snap,
                                         !.live = IF b = Loop THEN <<>> ELSE live.points]]
  <2>1. build[b].step = "get" /\ build' = [build EXCEPT ![b] = x] /\ UNCHANGED <<clock, live>>
    BY <1>6 DEF Get
  <2>2. live.snap \in Snapshot /\ live.points \in Seq(Point) /\ <<>> \in Seq(Point)
    BY EmptySeq DEF TypeInv, EntryOK
  <2>3. /\ x \in Build /\ x.step = "done" /\ x.payload.t = p.t /\ x.payload.status = live.snap
        /\ x.payload.online = p.online /\ x.payload.live \in {<<>>, live.points}
    BY <1>2, <2>2 DEF Build, Payload, Step
  <2>4. Fresh(live.points)
    <3>1. \A i \in 1..Len(live.points) :
            live.points[i] \in Point /\ live.points[i].t = live.points[i].of
      BY <2>2, ElementOfSeq DEF FreshInv, CacheInv
    <3> QED BY <3>1 DEF Fresh, Point, Snapshot
  <2>5. Sound(x.payload)
    BY <1>2, <2>1, <2>3, <2>4, BlankSound DEF Sound
  <2> HIDE DEF x
  <2>6. BuildInv'
    BY <1>2, <2>1, <2>3, <2>5, BuildFresh DEF FreshInv
  <2> QED BY <1>1, <2>6 DEF FreshInv
<1> QED BY <1>4, <1>5, <1>6

(* What is written on a connection is a payload that was assembled.        *)
LEMMA ConnectionFresh ==
  ASSUME TypeInv, FreshInv, NEW c \in Conn,
         Connect(c) \/ WriteFirst(c) \/ Subscribe(c) \/ Deliver(c) \/ Unsubscribe(c)
  PROVE  FreshInv'
<1> USE DEF server, stream, tab, counters
<1>1. /\ c \in Builder /\ build[c] \in Build /\ queue[c] \in Seq(Payload) /\ clock \in Clock
      /\ build[c].payload \in Payload /\ Dated(build[c].payload) /\ Sound(build[c].payload)
  BY DEF Builder, TypeInv, BuildOK, QueueOK, CountersOK, Build, FreshInv, BuildInv
<1>2. CacheInv'
  BY SameInv DEF FreshInv, Connect, WriteFirst, Subscribe, Deliver, Unsubscribe
<1>3. Idle \in Build /\ Idle.step = "idle" /\ Idle.payload = Blank
  BY BlankType DEF Idle
<1>4. Blank.t <= clock /\ Sound(Blank)
  BY <1>1, BlankSound DEF Blank, Clock
<1>5. CASE Connect(c)
  <2>1. BuildInv'
    BY <1>1, <1>5, StartedFresh, BuildFresh, StartedType DEF Connect, FreshInv
  <2> QED BY <1>2, <1>5, <2>1, SameInv DEF Connect, FreshInv
<1>6. CASE WriteFirst(c)
  <2> DEFINE x == [Idle EXCEPT !.step = "subscribe"]
  <2>1. x \in Build /\ x.step = "subscribe" /\ x.payload = Blank
    BY <1>3 DEF Idle, Build, Step
  <2>2. build' = [build EXCEPT ![c] = x] /\ UNCHANGED <<clock, live>>
    BY <1>6 DEF WriteFirst
  <2> HIDE DEF x
  <2>3. BuildInv'
    BY <1>1, <1>4, <2>1, <2>2, BuildFresh DEF FreshInv
  <2>4. PointsAreFresh'
    BY <1>1, <1>6, WrittenFresh DEF WriteFirst, FreshInv
  <2> QED BY <1>2, <1>6, <2>3, <2>4, SameInv DEF WriteFirst, FreshInv
<1>7. CASE Subscribe(c)
  <2>1. BuildInv'
    BY <1>1, <1>3, <1>4, <1>7, BuildFresh DEF Subscribe, FreshInv
  <2> QED BY <1>2, <1>7, <2>1, SameInv DEF Subscribe, FreshInv
<1>8. CASE Deliver(c)
  <2>1. /\ Head(queue[c]) \in Payload /\ Head(queue[c]) = queue[c][1] /\ 1 \in 1..Len(queue[c])
        /\ \A i \in 1..Len(Tail(queue[c])) :
             i + 1 \in 1..Len(queue[c]) /\ Tail(queue[c])[i] = queue[c][i + 1]
    BY <1>1, <1>8, QueueTail DEF Deliver
  <2>2. Dated(Head(queue[c])) /\ Sound(Head(queue[c]))
    BY <2>1 DEF TypeInv, QueueOK, FreshInv, QueueInv
  <2>3. PointsAreFresh'
    BY <1>8, <2>1, <2>2, WrittenFresh DEF Deliver, FreshInv
  <2>4. \A i \in 1..Len(Tail(queue[c])) : Sound(Tail(queue[c])[i])
    BY <2>1 DEF FreshInv, QueueInv
  <2>5. QueueInv'
    <3>1. \A d \in Conn : queue'[d] = IF d = c THEN Tail(queue[c]) ELSE queue[d]
      BY <1>8 DEF Deliver, TypeInv, QueueOK
    <3> QED BY <2>4, <3>1, SoundQueues DEF FreshInv, QueueInv
  <2> QED BY <1>2, <1>8, <2>3, <2>5, SameInv DEF Deliver, FreshInv
<1>9. CASE Unsubscribe(c)
  <2>1. \A d \in Conn : queue'[d] = IF d = c THEN <<>> ELSE queue[d]
    BY <1>9 DEF Unsubscribe, TypeInv, QueueOK
  <2>2. Len(<<>>) = 0
    BY EmptySeq
  <2>3. QueueInv'
    BY <2>1, <2>2, SoundQueues DEF FreshInv, QueueInv
  <2> QED BY <1>2, <1>9, <2>3, SameInv DEF Unsubscribe, FreshInv
<1> QED BY <1>5, <1>6, <1>7, <1>8, <1>9

(* The broadcaster's payloads are assembled like any other.                *)
LEMMA LoopFresh ==
  ASSUME TypeInv, FreshInv, LoopTick \/ Broadcast \/ Drop \/ GoQuiet \/ Restart
  PROVE  FreshInv'
<1> USE DEF server, stream, tab, counters
<1>1. /\ Loop \in Builder /\ build[Loop] \in Build /\ clock \in Clock
      /\ build[Loop].payload \in Payload /\ Sound(build[Loop].payload)
  BY DEF Builder, TypeInv, BuildOK, CountersOK, Build, FreshInv, BuildInv
<1>2. Idle \in Build /\ Idle.step = "idle" /\ Idle.payload = Blank
  BY BlankType DEF Idle
<1>3. Blank.t <= clock /\ Sound(Blank) /\ Len(<<>>) = 0
  BY <1>1, BlankSound, EmptySeq DEF Blank, Clock
<1>4. CASE LoopTick
  <2>1. BuildInv'
    BY <1>1, <1>4, StartedFresh, StartedType, BuildFresh DEF LoopTick, FreshInv
  <2> QED BY <1>4, <2>1, SameInv DEF LoopTick, FreshInv
<1>5. CASE Broadcast
  <2> DEFINE p == build[Loop].payload
  <2>1. BuildInv'
    BY <1>1, <1>2, <1>3, <1>5, BuildFresh DEF Broadcast, FreshInv
  <2>2. ASSUME NEW d \in Conn, NEW i \in 1..Len(queue'[d]) PROVE Sound(queue'[d][i])
    <3>1. queue'[d] \in {queue[d], Append(queue[d], p)} /\ queue[d] \in Seq(Payload)
      BY <1>5 DEF Broadcast, TypeInv, QueueOK
    <3>2. queue'[d][i] = p \/ (i \in 1..Len(queue[d]) /\ queue'[d][i] = queue[d][i])
      BY <1>1, <2>2, <3>1, QueueAppend
    <3> QED BY <1>1, <3>2 DEF FreshInv, QueueInv
  <2>3. QueueInv'
    BY <2>2, SoundQueues
  <2> QED BY <1>5, <2>1, <2>3, SameInv DEF Broadcast, FreshInv
<1>6. CASE Drop
  BY <1>6, SameInv DEF Drop, Happens, FreshInv
<1>7. CASE GoQuiet
  BY <1>7, SameInv DEF GoQuiet, FreshInv
<1>8. CASE Restart
  <2>1. clock' = clock /\ row' = row /\ live'.snap = 0 /\ live'.points = <<>> /\ touching' = {}
    BY <1>8 DEF Restart, NoEntry
  <2>2. CacheInv'
    BY <1>3, <2>1, ClockBounds DEF FreshInv, CacheInv
  <2>3. \A b \in Builder : build'[b] = Idle
    BY <1>8 DEF Restart
  <2>4. BuildInv'
    BY <1>2, <1>3, <2>1, <2>3 DEF BuildInv, Sound, Fresh
  <2>5. \A d \in Conn : queue'[d] = <<>>
    BY <1>8 DEF Restart
  <2>6. QueueInv'
    BY <1>3, <2>5 DEF QueueInv
  <2>7. PointsAreFresh'
    BY <1>8, SameInv DEF Restart, FreshInv
  <2> QED BY <2>2, <2>4, <2>6, <2>7 DEF FreshInv
<1> QED BY <1>4, <1>5, <1>6, <1>7, <1>8

LEMMA PollFresh ==
  ASSUME TypeInv, FreshInv, NEW q \in Poll, Ask(q) \/ Answer(q) \/ AskFails(q)
  PROVE  FreshInv'
<1> USE DEF server, stream, tab, counters
<1>1. /\ q \in Builder /\ build[q] \in Build /\ clock \in Clock
      /\ build[q].payload \in Payload /\ Dated(build[q].payload) /\ Sound(build[q].payload)
  BY DEF Builder, TypeInv, BuildOK, CountersOK, Build, FreshInv, BuildInv
<1>2. Idle \in Build /\ Idle.step = "idle" /\ Idle.payload = Blank
  BY BlankType DEF Idle
<1>3. Blank.t <= clock /\ Sound(Blank)
  BY <1>1, BlankSound DEF Blank, Clock
<1>4. CASE Ask(q)
  <2>1. BuildInv'
    BY <1>1, <1>4, StartedFresh, StartedType, BuildFresh DEF Ask, FreshInv
  <2> QED BY <1>4, <2>1, SameInv DEF Ask, FreshInv
<1>5. CASE Answer(q)
  <2>1. BuildInv'
    BY <1>1, <1>2, <1>3, <1>5, BuildFresh DEF Answer, FreshInv
  <2>2. PointsAreFresh'
    BY <1>1, <1>5, DrawnFresh DEF Answer, FreshInv
  <2> QED BY <1>5, <2>1, <2>2, SameInv DEF Answer, FreshInv
<1>6. CASE AskFails(q)
  <2>1. BuildInv'
    BY <1>1, <1>2, <1>3, <1>6, BuildFresh DEF AskFails, Happens, FreshInv
  <2> QED BY <1>6, <2>1, SameInv DEF AskFails, Happens, FreshInv
<1> QED BY <1>4, <1>5, <1>6

LEMMA FreshStep == TypeInv /\ FreshInv /\ [Next]_vars => FreshInv'
<1> SUFFICES ASSUME TypeInv, FreshInv, [Next]_vars PROVE FreshInv'
  OBVIOUS
<1>1. CASE UNCHANGED vars
  BY <1>1, SameInv DEF vars, counters, server, stream, tab, FreshInv
<1> QED BY <1>1, EnvironmentFresh, AssemblyFresh, ConnectionFresh, LoopFresh, PollFresh DEF Next

(* No sparkline shows a snapshot older than the silence that makes its     *)
(* server offline, however pushes, payloads, polls, restarts and deletes   *)
(* fall between each other: the snapshot is in the cache before the row    *)
(* says so, and the row is read before the cache.                          *)
THEOREM FreshPoints == Spec => []PointsAreFresh
<1> DEFINE Inv == TypeInv /\ FreshInv
<1>1. Init => Inv
  BY InitType, InitFresh
<1>2. Inv /\ [Next]_vars => Inv'
  BY TypeStep, FreshStep
<1>3. Inv => PointsAreFresh
  BY DEF FreshInv
<1> QED BY <1>1, <1>2, <1>3, PTL DEF Spec

=============================================================================
