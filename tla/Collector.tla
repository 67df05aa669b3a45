------------------------------ MODULE Collector ------------------------------
(***************************************************************************)
(* How the agent turns the cumulative counters of its host into what a     *)
(* snapshot says (internal/metrics): throughput over the interfaces that   *)
(* count, processor use smoothed over the ticks, and the address the host  *)
(* has outside, looked up now and then. Interfaces come and go, counters   *)
(* start again, probes fail, ticks are late.                               *)
(*                                                                         *)
(* One direction of the traffic and one family of addresses stand for      *)
(* both. A probe that is only copied into the snapshot (memory, disk,      *)
(* load, host, sockets) is left out: it depends on nothing that was read   *)
(* at an earlier tick. Percentages have three decimals.                    *)
(***************************************************************************)
EXTENDS Integers, FiniteSets

CONSTANTS
  Iface,       \* network interfaces
  Virtual,     \* those with a name isVirtualInterface knows
  Wrap,        \* where an interface's counter starts again from 0
  Burst,       \* bytes that may pass an interface at once
  Load,        \* what the processor's times may grow by: <<busy, idle>>
  Address,     \* outside addresses
  NoAddress,   \* ""
  TTL,         \* publicIPTTL
  MaxClock, MaxEvents   \* bounds: time, and what happens to the host

ASSUME CollectorAssumption ==
  /\ IsFiniteSet(Iface) /\ Virtual \subseteq Iface
  /\ Wrap \in Nat \ {0} /\ Burst \subseteq Nat
  /\ Load \subseteq Int \X Nat
  /\ NoAddress \notin Address /\ TTL \in Nat
  /\ MaxClock \in Nat \ {0} /\ MaxEvents \in Nat

VARIABLES
  clock, events,
  \* the host
  up, count,   \* the interfaces there are, and the counter of each
  times,       \* what the processor's times have grown by since they were read
  outside,     \* its outside address
  \* the collector; a time is 0 as long as it is zero
  lastSent, lastNetAt,
  hasLastCPU, emaCPU,
  publicIP, publicIPAt,
  \* the last snapshot, whose address is publicIP
  usage, io,   \* its Cpu; its NetIO, the seconds that is over, and the history then
  \* history
  moved,       \* bytes that passed the interfaces that count, since they were read
  lost,        \* has a counter started again since?
  asked,       \* when the address was last looked up, 0 if never
  held         \* when an address was last the host's, 0 if never

history == <<moved, lost>>
cpuVars == <<hasLastCPU, emaCPU, usage>>
netVars == <<lastSent, lastNetAt, io>>
ipVars == <<publicIP, publicIPAt>>
vars == <<clock, events, up, count, times, outside, cpuVars, netVars, ipVars, history, asked, held>>

Units == 1000
Percent == 0..(100 * Units)

(* isVirtualInterface                                                      *)
Counted == up \ Virtual

Still == <<0, 0>>

(* Readings keep their types: a percentage is one, a rate is a number.     *)
TypeOK ==
  /\ clock \in 1..MaxClock /\ events \in 0..MaxEvents
  /\ up \subseteq Iface /\ count \in [Iface -> 0..(Wrap - 1)]
  /\ times \in Int \X Nat /\ outside \in Address
  /\ lastSent \in Nat /\ lastNetAt \in 0..MaxClock
  /\ hasLastCPU \in BOOLEAN /\ emaCPU \in Percent /\ usage \in Percent
  /\ publicIP \in Address \cup {NoAddress} /\ publicIPAt \in 0..MaxClock
  /\ io \in [rate : Nat, secs : 0..MaxClock, moved : Nat, lost : BOOLEAN]
  /\ moved \in Nat /\ lost \in BOOLEAN /\ asked \in 0..MaxClock /\ held \in [Address -> 0..MaxClock]

NoIO == [rate |-> 0, secs |-> 0, moved |-> 0, lost |-> FALSE]

Init ==
  /\ clock = 1 /\ events = 0
  /\ up = Iface /\ count \in [Iface -> {0, Wrap - 1}]
  /\ times = Still /\ outside \in Address
  /\ lastSent = 0 /\ lastNetAt = 0 /\ io = NoIO
  /\ hasLastCPU = FALSE /\ emaCPU = 0 /\ usage = 0
  /\ publicIP = NoAddress /\ publicIPAt = 0
  /\ moved = 0 /\ lost = FALSE /\ asked = 0 /\ held = [a \in Address |-> 0]

-----------------------------------------------------------------------------
(* The host                                                                *)

Tick == /\ clock < MaxClock /\ clock' = clock + 1
        /\ UNCHANGED <<events, up, count, times, outside, cpuVars, netVars, ipVars, history, asked, held>>

Happens == /\ events < MaxEvents /\ events' = events + 1
           /\ UNCHANGED <<clock, cpuVars, netVars, ipVars, asked>>

Traffic(i, n) ==
  /\ i \in up /\ Happens
  /\ count' = [count EXCEPT ![i] = (@ + n) % Wrap]
  /\ moved' = IF i \in Counted THEN moved + n ELSE moved
  /\ lost' = (lost \/ (i \in Counted /\ count[i] + n >= Wrap))
  /\ UNCHANGED <<up, times, outside, held>>

(* An interface that comes has passed nothing yet.                         *)
Appear(i) ==
  /\ i \notin up /\ Happens
  /\ up' = up \cup {i} /\ count' = [count EXCEPT ![i] = 0]
  /\ UNCHANGED <<times, outside, history, held>>

Vanish(i) ==
  /\ i \in up /\ Happens
  /\ up' = up \ {i}
  /\ lost' = (lost \/ (i \in Counted /\ count[i] > 0))
  /\ UNCHANGED <<count, times, outside, moved, held>>

(* Time passes on the processor; the kernel may take back time it had      *)
(* booked as spent waiting for I/O.                                        *)
Run(l) ==
  /\ times = Still /\ Happens
  /\ times' = l
  /\ UNCHANGED <<up, count, outside, history, held>>

Move(a) ==
  /\ a # outside /\ Happens
  /\ outside' = a /\ held' = [held EXCEPT ![outside] = clock]
  /\ UNCHANGED <<up, count, times, history>>

-----------------------------------------------------------------------------
(* sampleCPU. The first reading only remembers the times.                  *)

Unclamped(pct) == pct
Clamp(pct) == IF pct < 0 THEN 0 ELSE IF pct > 100 * Units THEN 100 * Units ELSE pct

SmoothedWrongWay(pct) == IF emaCPU = 0 THEN pct ELSE (7 * pct + 3 * emaCPU) \div 10
Smoothed(pct) == IF emaCPU = 0 THEN pct ELSE (3 * pct + 7 * emaCPU) \div 10

ReadCPU ==
  LET total == times[1] + times[2] IN
  /\ hasLastCPU' = TRUE /\ times' = Still
  /\ emaCPU' = IF hasLastCPU /\ total > 0
               THEN Smoothed(Clamp((times[1] * 100 * Units) \div total))
               ELSE emaCPU
  /\ usage' = IF hasLastCPU THEN emaCPU' ELSE 0

NoCPU == usage' = emaCPU /\ UNCHANGED <<hasLastCPU, emaCPU, times>>

-----------------------------------------------------------------------------
(* sampleNetwork. Without the comparison, the difference of two uint64 is  *)
(* taken modulo Word.                                                      *)

Word == 65536

RateUnguarded(sent, secs) ==
  IF secs > 0 THEN ((sent - lastSent) % Word) \div secs ELSE 0
Rate(sent, secs) ==
  IF secs > 0 /\ sent >= lastSent THEN (sent - lastSent) \div secs ELSE 0

(* sent: the counters of these interfaces added up, that is, how many      *)
(* bytes they stand for.                                                   *)
Total(counters, ifaces) ==
  Cardinality({byte \in ifaces \X (1..Wrap) : byte[2] <= counters[byte[1]]})

ReadNetwork ==
  LET sent == Total(count, Counted)
      secs == IF lastNetAt = 0 THEN 0 ELSE clock - lastNetAt
  IN /\ io' = [rate |-> Rate(sent, secs), secs |-> secs, moved |-> moved, lost |-> lost]
     /\ lastSent' = sent /\ lastNetAt' = clock
     /\ moved' = 0 /\ lost' = FALSE

NoNetwork == io' = NoIO /\ UNCHANGED <<lastSent, lastNetAt, history>>

-----------------------------------------------------------------------------
(* refreshPublicIP. What fetchFirst returns is an address, or "" when none *)
(* of the sources answered with one.                                       *)

IsFresh == publicIPAt # 0 /\ clock - publicIPAt < TTL

(* fault: an address not found is asked for again at once *)
FoundOnly(ip) == publicIP' = ip /\ publicIPAt' = IF ip = NoAddress THEN publicIPAt ELSE clock
Found(ip) == publicIP' = ip /\ publicIPAt' = clock

RefreshPublicIP ==
  \/ IsFresh /\ UNCHANGED <<ipVars, asked>>
  \/ ~IsFresh /\ asked' = clock /\ \E ip \in {outside, NoAddress} : Found(ip)

(* One tick of the agent, under the collector's mutex.                     *)
Collect ==
  /\ ReadCPU \/ NoCPU
  /\ ReadNetwork \/ NoNetwork
  /\ RefreshPublicIP
  /\ UNCHANGED <<clock, events, up, count, outside, held>>

Next ==
  \/ Tick \/ Collect
  \/ \E i \in Iface : Appear(i) \/ Vanish(i) \/ \E n \in Burst : Traffic(i, n)
  \/ \E l \in Load : Run(l)
  \/ \E a \in Address : Move(a)

Spec == Init /\ [][Next]_vars

-----------------------------------------------------------------------------
(* A rate never claims more than passed since the reading before, whatever *)
(* interfaces went away and counters started again; and when none did, it  *)
(* is what passed, whatever probes failed between the two readings.        *)
RatesAreReal ==
  /\ io.rate * io.secs <= io.moved
  /\ io.secs > 0 /\ ~io.lost => io.rate = io.moved \div io.secs

(* "so a single busy tick does not spike the tile": the use of the         *)
(* processor that two snapshots show differs by at most 30 points, even if *)
(* the times of the processor run backwards, unless the average was 0,     *)
(* which is also what stands for an average that has no reading yet.       *)
TilesDoNotSpike ==
  [][emaCPU # 0 => /\ usage' - usage <= 30 * Units
                   /\ usage - usage' <= 30 * Units]_vars

(* The address in a snapshot was the host's within the last publicIPTTL,   *)
(* though no lookup, not even one that found nothing, is followed by       *)
(* another before that time is over.                                       *)
AddressIsRecent ==
  [][/\ asked' # asked => asked = 0 \/ clock - asked >= TTL
     /\ Collect /\ publicIP' \notin {NoAddress, outside} => clock - held[publicIP'] < TTL]_vars
=============================================================================
