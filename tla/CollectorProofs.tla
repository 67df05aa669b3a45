---------------------------- MODULE CollectorProofs ----------------------------
(***************************************************************************)
(* What holds of the agent's readings for every set of interfaces and      *)
(* addresses, every counter width, lookup interval and bound.              *)
(***************************************************************************)
EXTENDS Collector, FiniteSetTheorems, TLAPS

-----------------------------------------------------------------------------
(* Totals of counters *)

Bytes(counters, ifaces) ==
  {byte \in ifaces \X (1..Wrap) : byte[2] <= counters[byte[1]]}

LEMMA TotalType ==
  ASSUME NEW counters, NEW S \in SUBSET Iface
  PROVE  IsFiniteSet(Bytes(counters, S)) /\ Total(counters, S) \in Nat
<1>1. IsFiniteSet(S \X (1..Wrap))
  <2>1. IsFiniteSet(S)
    BY CollectorAssumption, FS_Subset
  <2>2. IsFiniteSet(1..Wrap)
    BY CollectorAssumption, FS_Interval
  <2> QED BY <2>1, <2>2, FS_Product
<1>2. Bytes(counters, S) \in SUBSET (S \X (1..Wrap))
  BY DEF Bytes
<1>3. IsFiniteSet(Bytes(counters, S))
  BY <1>1, <1>2, FS_Subset
<1> QED BY <1>3, FS_CardinalityType DEF Bytes, Total

(* A total goes by the counters of its own interfaces only.                *)
LEMMA TotalSame ==
  ASSUME NEW S, NEW c, NEW d, \A i \in S : c[i] = d[i]
  PROVE  Total(c, S) = Total(d, S)
<1>1. Bytes(c, S) = Bytes(d, S)
  BY DEF Bytes
<1> QED BY <1>1 DEF Bytes, Total

(* Each of them adds its own counter.                                      *)
LEMMA TotalSplit ==
  ASSUME NEW c \in [Iface -> 0..(Wrap - 1)], NEW S \in SUBSET Iface, NEW i \in S
  PROVE  Total(c, S) = Total(c, S \ {i}) + c[i]
<1> DEFINE own == {i} \X (1..c[i])
           rest == Bytes(c, S \ {i})
<1>1. Wrap \in Nat /\ c[i] \in Nat /\ c[i] <= Wrap
  BY CollectorAssumption
<1>2. Bytes(c, S) = rest \cup own /\ rest \cap own = {}
  <2>1. own \subseteq Bytes(c, S)
    BY <1>1 DEF Bytes
  <2>2. rest \subseteq Bytes(c, S) /\ rest \cap own = {}
    BY DEF Bytes
  <2>3. ASSUME NEW b \in Bytes(c, S) PROVE b \in rest \cup own
    <3>1. PICK j \in S, n \in 1..Wrap : b = <<j, n>> /\ n <= c[j]
      BY <2>3 DEF Bytes
    <3>2. CASE j = i
      BY <1>1, <3>1, <3>2
    <3>3. CASE j # i
      BY <3>1, <3>3 DEF Bytes
    <3> QED BY <3>2, <3>3
  <2> QED BY <2>1, <2>2, <2>3
<1>3. IsFiniteSet(own) /\ Cardinality(own) = c[i]
  <2>1. IsFiniteSet({i}) /\ Cardinality({i}) = 1
    BY FS_Singleton
  <2>2. IsFiniteSet(1..c[i]) /\ Cardinality(1..c[i]) = c[i]
    <3>1. PICK n \in Nat : n = c[i]
      BY <1>1
    <3>2. IsFiniteSet(1..n) /\ Cardinality(1..n) = IF 1 > n THEN 0 ELSE n - 1 + 1
      BY FS_Interval
    <3> QED BY <3>1, <3>2
  <2>3. IsFiniteSet(own) /\ Cardinality(own) = Cardinality({i}) * Cardinality(1..c[i])
    BY <2>1, <2>2, FS_Product
  <2> QED BY <1>1, <2>1, <2>2, <2>3
<1>4. IsFiniteSet(rest) /\ Cardinality(rest) \in Nat
  BY TotalType, FS_CardinalityType
<1>5. Cardinality(rest \cup own) = Cardinality(rest) + c[i]
  <2> HIDE DEF rest, own
  <2>1. Cardinality(rest \cup own) = Cardinality(rest) + Cardinality(own) - Cardinality(rest \cap own)
    BY <1>3, <1>4, FS_Union
  <2>2. Cardinality(rest \cap own) = 0
    BY <1>2, FS_EmptySet
  <2> QED BY <1>1, <1>3, <1>4, <2>1, <2>2
<1> QED BY <1>2, <1>5 DEF Bytes, Total

-----------------------------------------------------------------------------
(* Arithmetic of the readings *)

LEMMA Division ==
  ASSUME NEW x \in Nat, NEW d \in Nat, d > 0
  PROVE  x \div d \in Nat /\ (x \div d) * d <= x
<1>1. (x \div d) * d <= x
  OBVIOUS
<1>2. x \div d \in Nat
  OBVIOUS
<1> QED BY <1>1, <1>2

LEMMA Remainder ==
  ASSUME NEW x \in Nat, NEW d \in Nat, d > 0
  PROVE  x % d \in 0..(d - 1) /\ x % d <= x /\ (x < d => x % d = x)
<1>1. x % d \in 0..(d - 1)
  OBVIOUS
<1>2. x % d <= x
  OBVIOUS
<1>3. x < d => x % d = x
  OBVIOUS
<1> QED BY <1>1, <1>2, <1>3

LEMMA PercentRange ==
  /\ \A pct : pct \in Percent <=> pct \in Int /\ 0 <= pct /\ pct <= 100000
  /\ 100 * Units = 100000 /\ 30 * Units = 30000
<1>1. 100 * Units = 100000 /\ 30 * Units = 30000
  BY DEF Units
<1>2. PICK top \in Nat : top = 100 * Units
  BY <1>1
<1>3. \A pct : pct \in Percent <=> pct \in Int /\ 0 <= pct /\ pct <= top
  BY <1>2 DEF Percent
<1> QED BY <1>1, <1>2, <1>3

(* The average stays between the old one and the reading.                  *)
LEMMA Average ==
  ASSUME NEW pct \in Percent, NEW ema \in Percent, NEW next,
         next = (3 * pct + 7 * ema) \div 10
  PROVE  next \in Percent /\ next - ema <= 30 * Units /\ ema - next <= 30 * Units
<1>1. pct \in Int /\ 0 <= pct /\ pct <= 100000 /\ ema \in Int /\ 0 <= ema /\ ema <= 100000
  BY PercentRange
<1>2. PICK x \in Int : x = 3 * pct + 7 * ema
  BY <1>1
<1>3. next \in Int /\ 10 * next <= x /\ x < 10 * next + 10
  BY <1>2
<1>4. next >= 0 /\ next <= 100000 /\ next - ema <= 30000 /\ ema - next <= 30000
  BY <1>1, <1>2, <1>3
<1> QED BY <1>3, <1>4, PercentRange

LEMMA ClampedIsPercent == ASSUME NEW pct \in Int PROVE Clamp(pct) \in Percent
<1>1. CASE pct < 0
  BY <1>1, PercentRange DEF Clamp
<1>2. CASE pct > 100 * Units
  BY <1>2, PercentRange DEF Clamp
<1>3. CASE ~(pct < 0) /\ ~(pct > 100 * Units)
  BY <1>3, PercentRange DEF Clamp
<1> QED BY <1>1, <1>2, <1>3

-----------------------------------------------------------------------------
(* Types *)

USE DEF cpuVars, netVars, ipVars, history

(* What the readings remember is never from the future; without that, an   *)
(* interval between two of them would be no number of seconds.             *)
Typed == TypeOK /\ lastNetAt <= clock /\ publicIPAt <= clock

LEMMA Smooth ==
  ASSUME TypeOK, ReadCPU
  PROVE  /\ emaCPU' \in Percent /\ usage' \in Percent
         /\ hasLastCPU' = TRUE /\ times' \in Int \X Nat
         /\ hasLastCPU => usage' = emaCPU'
         /\ ~hasLastCPU => emaCPU' = emaCPU
         /\ emaCPU # 0 => emaCPU' - emaCPU <= 30 * Units /\ emaCPU - emaCPU' <= 30 * Units
<1> DEFINE total == times[1] + times[2]
           pct == Clamp((times[1] * 100 * Units) \div total)
<1>1. total \in Int /\ times[1] * 100 * Units \in Int /\ emaCPU \in Percent
  BY DEF TypeOK, Units
<1>2. 0 \in Percent /\ Percent \subseteq Int /\ 30 * Units = 30000
  BY PercentRange
<1>3. total > 0 => pct \in Percent
  <2>1. ASSUME NEW x \in Int, NEW d \in Int, d > 0 PROVE x \div d \in Int
    BY <2>1
  <2> HIDE DEF total
  <2> QED BY <1>1, <2>1, ClampedIsPercent
<1>4. \/ emaCPU' = emaCPU
      \/ hasLastCPU /\ total > 0 /\ emaCPU' = Smoothed(pct)
  BY DEF ReadCPU
<1> HIDE DEF total, pct
<1>5. ASSUME total > 0, emaCPU' = Smoothed(pct)
      PROVE  /\ emaCPU' \in Percent
             /\ emaCPU # 0 => emaCPU' - emaCPU <= 30 * Units /\ emaCPU - emaCPU' <= 30 * Units
  BY <1>1, <1>3, <1>5, Average DEF Smoothed
<1>6. /\ usage' = IF hasLastCPU THEN emaCPU' ELSE 0
      /\ hasLastCPU' = TRUE /\ times' = <<0, 0>>
  BY DEF ReadCPU, Still
<1> QED BY <1>1, <1>2, <1>4, <1>5, <1>6

(* What a reading of the network says, and what it leaves to be counted.   *)
LEMMA NetworkRead ==
  ASSUME Typed, ReadNetwork
  PROVE  LET sent == Total(count, Counted)
             secs == IF lastNetAt = 0 THEN 0 ELSE clock - lastNetAt IN
         /\ sent \in Nat /\ secs \in 0..MaxClock /\ Rate(sent, secs) \in Nat
         /\ io'.rate = Rate(sent, secs) /\ io'.secs = secs /\ io'.moved = moved
         /\ io'.lost = lost
         /\ io' \in [rate : Nat, secs : 0..MaxClock, moved : Nat, lost : BOOLEAN]
<1> DEFINE sent == Total(count, Counted)
           secs == IF lastNetAt = 0 THEN 0 ELSE clock - lastNetAt
<1>1. sent \in Nat
  BY TotalType DEF Typed, TypeOK, Counted
<1>2. secs \in 0..MaxClock
  BY CollectorAssumption DEF Typed, TypeOK
<1>3. io' = [rate |-> Rate(sent, secs), secs |-> secs, moved |-> moved, lost |-> lost]
  BY DEF ReadNetwork
<1> HIDE DEF sent, secs
<1>4. Rate(sent, secs) \in Nat
  BY <1>1, <1>2, Division DEF Rate, Typed, TypeOK
<1>5. moved \in Nat /\ lost \in BOOLEAN
  BY DEF Typed, TypeOK
<1> QED BY <1>1, <1>2, <1>3, <1>4, <1>5 DEF sent, secs

LEMMA StepTypes == Typed /\ [Next]_vars => Typed'
<1> SUFFICES ASSUME Typed, [Next]_vars PROVE Typed'
  OBVIOUS
<1>1. /\ TypeOK /\ lastNetAt <= clock /\ publicIPAt <= clock
      /\ clock \in Nat /\ clock \in 0..MaxClock
  BY CollectorAssumption DEF Typed, TypeOK
<1>2. CASE Tick
  BY <1>1, <1>2, CollectorAssumption DEF Tick, Typed, TypeOK
<1>3. ASSUME Happens PROVE events' \in 0..MaxEvents
  BY <1>1, <1>3, CollectorAssumption DEF Happens, TypeOK
<1>4. ASSUME NEW i \in Iface, NEW n \in Burst, Traffic(i, n) PROVE Typed'
  <2>1. count[i] + n \in Nat /\ n \in Nat /\ Wrap \in Nat /\ Wrap > 0
    BY <1>1, CollectorAssumption DEF TypeOK
  <2>2. (count[i] + n) % Wrap \in 0..(Wrap - 1)
    BY <2>1, Remainder
  <2>3. count' \in [Iface -> 0..(Wrap - 1)] /\ moved' \in Nat /\ lost' \in BOOLEAN
    BY <1>1, <1>4, <2>1, <2>2 DEF Traffic, TypeOK
  <2> QED BY <1>1, <1>3, <1>4, <2>3 DEF Traffic, Happens, Typed, TypeOK
<1>5. ASSUME NEW i \in Iface, Appear(i) PROVE Typed'
  BY <1>1, <1>3, <1>5, CollectorAssumption DEF Appear, Happens, Typed, TypeOK
<1>6. ASSUME NEW i \in Iface, Vanish(i) PROVE Typed'
  BY <1>1, <1>3, <1>6 DEF Vanish, Happens, Typed, TypeOK
<1>7. ASSUME NEW l \in Load, Run(l) PROVE Typed'
  <2>1. l \in Int \X Nat
    BY CollectorAssumption
  <2> QED BY <1>1, <1>3, <1>7, <2>1 DEF Run, Happens, Typed, TypeOK
<1>8. ASSUME NEW a \in Address, Move(a) PROVE Typed'
  BY <1>1, <1>3, <1>8 DEF Move, Happens, Typed, TypeOK
<1>9. CASE Collect
  <2>1. /\ emaCPU' \in Percent /\ usage' \in Percent /\ hasLastCPU' \in BOOLEAN
        /\ times' \in Int \X Nat
    BY <1>1, <1>9, Smooth DEF Collect, NoCPU, TypeOK
  <2>2. /\ lastSent' \in Nat /\ lastNetAt' \in 0..MaxClock /\ lastNetAt' <= clock
        /\ moved' \in Nat /\ lost' \in BOOLEAN
        /\ io' \in [rate : Nat, secs : 0..MaxClock, moved : Nat, lost : BOOLEAN]
    <3>1. CASE ReadNetwork
      <4>1. lastSent' \in Nat
        BY <1>1, <3>1, TotalType DEF ReadNetwork, TypeOK, Counted
      <4>2. lastNetAt' = clock /\ moved' = 0 /\ lost' = FALSE
        BY <3>1 DEF ReadNetwork
      <4>3. io' \in [rate : Nat, secs : 0..MaxClock, moved : Nat, lost : BOOLEAN]
        BY <3>1, NetworkRead
      <4>4. lost' \in BOOLEAN
        BY <4>2
      <4>5. moved' \in Nat /\ lastNetAt' \in 0..MaxClock /\ lastNetAt' <= clock
        BY <1>1, <4>2
      <4> QED BY <4>1, <4>3, <4>4, <4>5
    <3>2. CASE NoNetwork
      BY <1>1, <3>2, CollectorAssumption DEF NoNetwork, NoIO, TypeOK
    <3> QED BY <1>9, <3>1, <3>2 DEF Collect
  <2>3. /\ publicIP' \in Address \cup {NoAddress} /\ publicIPAt' \in 0..MaxClock
        /\ publicIPAt' <= clock /\ asked' \in 0..MaxClock
    BY <1>1, <1>9 DEF Collect, RefreshPublicIP, Found, TypeOK
  <2> QED BY <1>1, <1>9, <2>1, <2>2, <2>3 DEF Collect, Typed, TypeOK
<1>10. CASE UNCHANGED vars
  BY <1>1, <1>10 DEF vars, Typed, TypeOK
<1> QED BY <1>2, <1>4, <1>5, <1>6, <1>7, <1>8, <1>9, <1>10 DEF Next

LEMMA TypedHolds == Spec => []Typed
<1>1. ASSUME Init PROVE Typed
  <2>1. MaxClock \in Nat /\ MaxClock > 0 /\ MaxEvents \in Nat /\ Wrap \in Nat /\ Wrap > 0
    BY CollectorAssumption
  <2>2. count \in [Iface -> 0..(Wrap - 1)]
    BY <1>1, <2>1 DEF Init
  <2>3. 0 \in Percent /\ times = <<0, 0>>
    BY <1>1, PercentRange DEF Init, Still
  <2>4. io \in [rate : Nat, secs : 0..MaxClock, moved : Nat, lost : BOOLEAN]
    BY <1>1, <2>1 DEF Init, NoIO
  <2>5. hasLastCPU \in BOOLEAN /\ lost \in BOOLEAN
    BY <1>1 DEF Init
  <2> QED BY <1>1, <2>1, <2>2, <2>3, <2>4, <2>5 DEF Init, Typed, TypeOK
<1> QED BY <1>1, StepTypes, PTL DEF Spec

(* A usage is a percentage, a rate and a time since the last reading are   *)
(* never negative, however the counters and the clock of the host move.    *)
THEOREM TypeCorrect == Spec => []TypeOK
BY TypedHolds, PTL DEF Typed

-----------------------------------------------------------------------------
(* Rates *)

(* RatesAreReal says nothing of the readings to come: what the counters    *)
(* show over the last reading is at most what passed since, and exactly    *)
(* that if no counter started again and none went away.                    *)
NetInv ==
  /\ lastNetAt # 0 =>
       /\ Total(count, Counted) <= lastSent + moved
       /\ ~lost => Total(count, Counted) = lastSent + moved
  /\ RatesAreReal

(* What the host does to the total.                                        *)
LEMMA TotalMoves ==
  ASSUME Typed, NEW i \in Iface,
         \/ Appear(i) \/ Vanish(i) \/ \E n \in Burst : Traffic(i, n)
  PROVE  LET old == Total(count, Counted) + moved'
             new == Total(count, Counted)' + moved IN
         /\ new <= old
         /\ ~lost' => new = old /\ ~lost
<1>1. /\ count \in [Iface -> 0..(Wrap - 1)] /\ count' \in [Iface -> 0..(Wrap - 1)]
      /\ Counted \in SUBSET Iface /\ Counted' \in SUBSET Iface
      /\ moved \in Nat /\ lost \in BOOLEAN
  <2>1. Typed'
    BY StepTypes DEF Next
  <2> QED BY <2>1 DEF Typed, TypeOK, Counted
<1>2. Total(count, Counted)' = Total(count', Counted')
  BY DEF Total
<1>3. Total(count, Counted) \in Nat /\ Total(count', Counted') \in Nat
  BY <1>1, TotalType
<1>4. Counted = up \ Virtual /\ Counted' = up' \ Virtual
  BY DEF Counted
<1> DEFINE others == Counted \ {i}
<1>5. i \in Counted => /\ Total(count, Counted) = Total(count, others) + count[i]
                      /\ Total(count, others) \in Nat /\ count[i] \in Nat
  BY <1>1, TotalSplit, TotalType
<1>6. i \in Counted' => /\ Total(count', Counted') = Total(count', Counted' \ {i}) + count'[i]
                       /\ count'[i] \in Nat
  BY <1>1, TotalSplit
<1>7. (\A j \in Iface \ {i} : count'[j] = count[j])
        => /\ Total(count', others) = Total(count, others)
           /\ i \notin Counted => Total(count', Counted) = Total(count, Counted)
  BY <1>1, TotalSame
<1>8. CASE Appear(i)
  <2>1. /\ count' = [count EXCEPT ![i] = 0] /\ Counted' \ {i} = Counted
        /\ i \notin Counted /\ moved' = moved /\ lost' = lost
    BY <1>4, <1>8 DEF Appear
  <2>2. count'[i] = 0 /\ \A j \in Iface \ {i} : count'[j] = count[j]
    BY <1>1, <2>1
  <2>3. Total(count', Counted') = Total(count, Counted)
    <3>1. CASE i \in Counted'
      <4>1. Total(count', Counted' \ {i}) = Total(count', Counted)
        BY <2>1
      <4>2. Total(count', Counted) = Total(count, Counted)
        BY <1>7, <2>1, <2>2
      <4> QED BY <1>3, <1>6, <2>2, <3>1, <4>1, <4>2
    <3>2. CASE i \notin Counted'
      <4>1. Counted' = Counted
        BY <2>1, <3>2
      <4> QED BY <1>7, <2>1, <2>2, <4>1
    <3> QED BY <3>1, <3>2
  <2> QED BY <1>1, <1>2, <1>3, <2>1, <2>3
<1>9. CASE Vanish(i)
  <2>1. /\ count' = count /\ Counted' = others /\ moved' = moved
        /\ lost' = (lost \/ (i \in Counted /\ count[i] > 0))
    BY <1>4, <1>9 DEF Vanish
  <2>2. CASE i \in Counted
    <3>1. Total(count', Counted') = Total(count, others)
      BY <2>1
    <3> HIDE DEF others
    <3>2. ~lost' => ~(count[i] > 0) /\ ~lost
      BY <2>1, <2>2
    <3>3. ~(count[i] > 0) => count[i] = 0
      BY <1>5, <2>2
    <3> QED BY <1>1, <1>2, <1>5, <2>1, <2>2, <3>1, <3>2, <3>3
  <2>3. CASE i \notin Counted
    <3>1. Counted' = Counted
      BY <2>1, <2>3
    <3>2. Total(count', Counted') = Total(count, Counted)
      BY <2>1, <3>1
    <3>3. lost' = lost
      BY <1>1, <2>1, <2>3
    <3> QED BY <1>1, <1>2, <1>3, <2>1, <3>2, <3>3
  <2> QED BY <2>2, <2>3
<1>10. ASSUME NEW n \in Burst, Traffic(i, n)
       PROVE  /\ Total(count', Counted') + moved <= Total(count, Counted) + moved'
              /\ ~lost' => Total(count', Counted') + moved = Total(count, Counted) + moved' /\ ~lost
  <2>1. /\ count' = [count EXCEPT ![i] = (count[i] + n) % Wrap] /\ Counted' = Counted
        /\ moved' = IF i \in Counted THEN moved + n ELSE moved
        /\ lost' = (lost \/ (i \in Counted /\ count[i] + n >= Wrap))
    BY <1>4, <1>10 DEF Traffic
  <2>2. n \in Nat /\ Wrap \in Nat /\ Wrap > 0 /\ count[i] \in Nat
    BY <1>1, CollectorAssumption
  <2>3. /\ count'[i] \in Nat /\ count'[i] <= count[i] + n
        /\ count[i] + n < Wrap => count'[i] = count[i] + n
    <3>1. PICK x \in Nat : x = count[i] + n
      BY <2>2
    <3>2. count'[i] = x % Wrap
      BY <1>1, <2>1, <3>1
    <3> QED BY <1>1, <2>2, <3>1, <3>2, Remainder
  <2>4. \A j \in Iface \ {i} : count'[j] = count[j]
    BY <1>1, <2>1
  <2>5. CASE i \in Counted
    <3>1. /\ Total(count', Counted') = Total(count, others) + count'[i]
          /\ Total(count, Counted) = Total(count, others) + count[i]
          /\ Total(count, others) \in Nat
      BY <1>5, <1>6, <1>7, <2>1, <2>4, <2>5
    <3>2. CASE count[i] + n < Wrap
      BY <1>1, <2>1, <2>2, <2>3, <2>5, <3>1, <3>2
    <3>3. CASE ~(count[i] + n < Wrap)
      <4>1. lost' = TRUE /\ moved' = moved + n
        <5>1. count[i] + n >= Wrap
          BY <2>2, <3>3
        <5> QED BY <2>1, <2>5, <5>1
      <4> HIDE DEF others
      <4> QED BY <1>1, <2>2, <2>3, <3>1, <4>1
    <3> QED BY <3>2, <3>3
  <2>6. CASE i \notin Counted
    BY <1>1, <1>3, <1>7, <2>1, <2>4, <2>6
  <2> QED BY <2>5, <2>6
<1> QED BY <1>2, <1>8, <1>9, <1>10

(* A reading tells what the interval says, and starts the next one.        *)
LEMMA NetRead ==
  ASSUME Typed, NetInv, ReadNetwork, UNCHANGED <<count, up>>
  PROVE  NetInv'
<1> DEFINE sent == Total(count, Counted)
           secs == IF lastNetAt = 0 THEN 0 ELSE clock - lastNetAt
<1>1. /\ sent \in Nat /\ secs \in 0..MaxClock /\ Rate(sent, secs) \in Nat
      /\ io'.rate = Rate(sent, secs) /\ io'.secs = secs /\ io'.moved = moved
      /\ io'.lost = lost
  BY NetworkRead
<1>2. /\ lastSent \in Nat /\ moved \in Nat /\ lost \in BOOLEAN
      /\ secs > 0 => lastNetAt # 0
  BY DEF Typed, TypeOK
<1>3. /\ secs > 0 => sent <= lastSent + moved
      /\ secs > 0 /\ ~lost => sent = lastSent + moved
  <2> HIDE DEF sent, secs
  <2>1. lastNetAt # 0 => sent <= lastSent + moved /\ (~lost => sent = lastSent + moved)
    BY DEF NetInv, sent
  <2> QED BY <1>2, <2>1
<1>4. Total(count, Counted)' = lastSent' + moved'
  <2>1. lastSent' = sent /\ moved' = 0 /\ Total(count, Counted)' = sent
    BY DEF ReadNetwork, Total, Counted
  <2> HIDE DEF sent
  <2> QED BY <1>1, <2>1
<1> HIDE DEF sent, secs
<1>5. Rate(sent, secs) * secs <= moved
  <2>1. CASE secs > 0 /\ sent >= lastSent
    <3>1. PICK x \in Nat : x = sent - lastSent
      BY <1>1, <1>2, <2>1
    <3>2. PICK d \in Nat : d = secs /\ d > 0
      BY <1>1, <2>1
    <3>3. Rate(sent, secs) = x \div d
      BY <2>1, <3>1, <3>2 DEF Rate
    <3>4. (x \div d) * d <= x
      BY <3>2, Division
    <3>5. x <= moved
      BY <1>1, <1>2, <1>3, <2>1, <3>1
    <3>6. x \div d \in Nat
      BY <3>2, Division
    <3>7. PICK y \in Int : y = (x \div d) * d
      BY <3>2, <3>6
    <3>8. y <= moved
      BY <1>2, <3>4, <3>5, <3>7
    <3> QED BY <3>2, <3>3, <3>7, <3>8
  <2>2. CASE ~(secs > 0 /\ sent >= lastSent)
    <3>1. Rate(sent, secs) = 0
      BY <2>2 DEF Rate
    <3> QED BY <1>1, <1>2, <3>1
  <2> QED BY <2>1, <2>2
<1>6. secs > 0 /\ ~lost => Rate(sent, secs) = moved \div secs
  BY <1>1, <1>2, <1>3 DEF Rate
<1>7. RatesAreReal'
  BY <1>1, <1>5, <1>6 DEF RatesAreReal
<1>8. Total(count, Counted)' \in Nat
  <2>1. Total(count, Counted)' = sent
    BY DEF Total, Counted, sent
  <2> QED BY <1>1, <2>1
<1> QED BY <1>4, <1>7, <1>8 DEF NetInv

LEMMA NetStep == Typed /\ NetInv /\ [Next]_vars => NetInv'
<1> SUFFICES ASSUME Typed, NetInv, [Next]_vars PROVE NetInv'
  OBVIOUS
<1>1. /\ Total(count, Counted) \in Nat /\ lastSent \in Nat /\ moved \in Nat
      /\ Total(count, Counted)' \in Nat /\ moved' \in Nat
  <2>1. Typed'
    BY StepTypes
  <2>2. Total(count', Counted') \in Nat
    BY <2>1, TotalType DEF Typed, TypeOK, Counted
  <2>3. Total(count, Counted) \in Nat
    BY TotalType DEF Typed, TypeOK, Counted
  <2>4. Total(count, Counted)' = Total(count', Counted')
    BY DEF Total
  <2> QED BY <2>1, <2>2, <2>3, <2>4 DEF Typed, TypeOK
<1>2. CASE \E i \in Iface : Appear(i) \/ Vanish(i) \/ \E n \in Burst : Traffic(i, n)
  <2>1. UNCHANGED <<lastSent, lastNetAt, io>>
    BY <1>2 DEF Appear, Vanish, Traffic, Happens
  <2>2. PICK old \in Nat, new \in Nat :
          old = Total(count, Counted) /\ new = Total(count, Counted)'
    BY <1>1
  <2>3. new + moved <= old + moved'
    BY <1>2, <2>2, TotalMoves
  <2>4. ~lost' => new + moved = old + moved' /\ ~lost
    BY <1>2, <2>2, TotalMoves
  <2>5. lastNetAt # 0 => old <= lastSent + moved /\ (~lost => old = lastSent + moved)
    BY <2>2 DEF NetInv
  <2>6. ASSUME lastNetAt # 0 PROVE new <= lastSent + moved'
    <3>1. old <= lastSent + moved
      BY <2>5, <2>6
    <3> QED BY <1>1, <2>2, <2>3, <3>1
  <2>7. ASSUME lastNetAt # 0, ~lost' PROVE new = lastSent + moved'
    <3>1. old = lastSent + moved /\ new + moved = old + moved'
      BY <2>4, <2>5, <2>7
    <3> QED BY <1>1, <2>2, <3>1
  <2>8. RatesAreReal'
    BY <2>1 DEF NetInv, RatesAreReal
  <2> QED BY <2>1, <2>2, <2>6, <2>7, <2>8 DEF NetInv
<1>3. CASE Collect
  <2>1. UNCHANGED <<count, up>>
    BY <1>3 DEF Collect
  <2>2. CASE ReadNetwork
    BY <2>1, <2>2, NetRead
  <2>3. CASE NoNetwork
    <3>1. /\ UNCHANGED <<lastSent, lastNetAt, moved, lost>>
          /\ Total(count, Counted)' = Total(count, Counted)
      BY <2>1, <2>3 DEF NoNetwork, Total, Counted
    <3>2. io'.rate = 0 /\ io'.secs = 0 /\ io'.moved = 0
      BY <2>3 DEF NoNetwork, NoIO
    <3>3. RatesAreReal'
      BY <3>2 DEF RatesAreReal
    <3> QED BY <3>1, <3>3 DEF NetInv
  <2> QED BY <1>3, <2>2, <2>3 DEF Collect
<1>4. CASE Tick \/ (\E l \in Load : Run(l)) \/ (\E a \in Address : Move(a)) \/ UNCHANGED vars
  <2>1. UNCHANGED <<count, up, lastSent, lastNetAt, moved, lost, io>>
    BY <1>4 DEF Tick, Run, Move, Happens, vars
  <2>2. Total(count, Counted)' = Total(count, Counted)
    BY <2>1 DEF Total, Counted
  <2>3. RatesAreReal'
    BY <2>1 DEF NetInv, RatesAreReal
  <2> QED BY <2>1, <2>2, <2>3 DEF NetInv
<1> QED BY <1>2, <1>3, <1>4 DEF Next

(* For any number of interfaces and any counter width, whatever comes,     *)
(* goes and starts again: no rate claims bytes that did not pass, and if   *)
(* nothing was lost each is what passed.                                   *)
THEOREM RatesHold == Spec => []RatesAreReal
<1>1. Init => NetInv
  BY DEF Init, NetInv, RatesAreReal, NoIO
<1>2. NetInv => RatesAreReal
  BY DEF NetInv
<1> QED BY <1>1, <1>2, NetStep, TypedHolds, PTL DEF Spec

-----------------------------------------------------------------------------
(* Usage *)

(* An average is only ever shown as it is.                                 *)
ShownInv == emaCPU # 0 => hasLastCPU /\ usage = emaCPU

LEMMA ShownStep ==
  ASSUME Typed, ShownInv, [Next]_vars
  PROVE  /\ ShownInv'
         /\ emaCPU # 0 => usage' - usage <= 30 * Units /\ usage - usage' <= 30 * Units
<1>1. emaCPU \in Int /\ usage \in Int /\ 30 * Units = 30000
  BY PercentRange DEF Typed, TypeOK
<1>2. CASE Collect /\ ReadCPU
  BY <1>1, <1>2, Smooth DEF Typed, ShownInv
<1>3. CASE Collect /\ NoCPU
  <2>1. emaCPU' = emaCPU /\ usage' = emaCPU /\ hasLastCPU' = hasLastCPU
    BY <1>3 DEF NoCPU
  <2>2. ShownInv'
    BY <2>1 DEF ShownInv
  <2>3. emaCPU # 0 => usage' = usage
    BY <2>1 DEF ShownInv
  <2> QED BY <1>1, <2>2, <2>3
<1>4. CASE ~Collect
  <2>1. UNCHANGED <<emaCPU, usage, hasLastCPU>>
    BY <1>4 DEF Next, Tick, Appear, Vanish, Traffic, Run, Move, Happens, vars
  <2>2. ShownInv'
    BY <2>1 DEF ShownInv
  <2> QED BY <1>1, <2>1, <2>2
<1> QED BY <1>2, <1>3, <1>4 DEF Collect

(* Whatever the host reports of its processor's times.                     *)
THEOREM TilesHold == Spec => TilesDoNotSpike
<1> DEFINE Claim == emaCPU # 0 => /\ usage' - usage <= 30 * Units
                                 /\ usage - usage' <= 30 * Units
<1>1. Init => ShownInv
  BY DEF Init, ShownInv
<1>2. Typed /\ ShownInv /\ [Next]_vars => ShownInv' /\ [Claim]_vars
  BY ShownStep
<1> QED BY <1>1, <1>2, TypedHolds, PTL DEF Spec, TilesDoNotSpike

-----------------------------------------------------------------------------
(* The outside address *)

(* An address that is shown and no longer the host's was so when it was    *)
(* looked up, or later.                                                    *)
LookupInv ==
  /\ publicIPAt = asked
  /\ publicIP \notin {NoAddress, outside} => held[publicIP] >= publicIPAt

LEMMA LookupStep == Typed /\ LookupInv /\ [Next]_vars => LookupInv'
<1> SUFFICES ASSUME Typed, LookupInv, [Next]_vars PROVE LookupInv'
  OBVIOUS
<1>1. /\ publicIPAt \in Nat /\ clock \in Nat /\ publicIPAt <= clock
      /\ held \in [Address -> 0..MaxClock] /\ outside \in Address
      /\ publicIP \in Address \cup {NoAddress}
  BY CollectorAssumption DEF Typed, TypeOK
<1>2. CASE Collect
  BY <1>1, <1>2 DEF Collect, RefreshPublicIP, Found, LookupInv
<1>3. ASSUME NEW a \in Address, Move(a) PROVE LookupInv'
  <2>1. UNCHANGED <<publicIP, publicIPAt, asked>> /\ held' = [held EXCEPT ![outside] = clock]
    BY <1>3 DEF Move, Happens
  <2>2. held'[outside] = clock /\ \A b \in Address \ {outside} : held'[b] = held[b]
    BY <1>1, <2>1
  <2> QED BY <1>1, <2>1, <2>2 DEF LookupInv
<1>4. CASE ~Collect /\ \A a \in Address : ~Move(a)
  <2>1. UNCHANGED <<publicIP, publicIPAt, asked, held, outside>>
    BY <1>4 DEF Next, Tick, Appear, Vanish, Traffic, Run, Happens, vars
  <2> QED BY <2>1 DEF LookupInv
<1> QED BY <1>2, <1>3, <1>4

(* For every TTL and any number of moves of the host.                      *)
THEOREM AddressHolds == Spec => AddressIsRecent
<1> DEFINE Claim ==
      /\ asked' # asked => asked = 0 \/ clock - asked >= TTL
      /\ Collect /\ publicIP' \notin {NoAddress, outside} => clock - held[publicIP'] < TTL
<1>1. Init => LookupInv
  BY DEF Init, LookupInv
<1>2. Typed /\ LookupInv /\ [Next]_vars => [Claim]_vars
  <2> SUFFICES ASSUME Typed, LookupInv, [Next]_vars PROVE Claim
    OBVIOUS
  <2>1. /\ asked \in Nat /\ clock \in Nat /\ TTL \in Nat
        /\ held \in [Address -> 0..MaxClock] /\ publicIP \in Address \cup {NoAddress}
    BY CollectorAssumption DEF Typed, TypeOK
  <2>2. ASSUME asked' # asked PROVE asked = 0 \/ clock - asked >= TTL
    <3>1. ~IsFresh
      BY <2>2 DEF Next, Tick, Appear, Vanish, Traffic, Run, Move, Happens, Collect,
         RefreshPublicIP, vars
    <3> QED BY <2>1, <3>1 DEF IsFresh, LookupInv
  <2>3. ASSUME Collect, publicIP' \notin {NoAddress, outside}
        PROVE  clock - held[publicIP'] < TTL
    <3>1. publicIP' = publicIP /\ IsFresh
      BY <2>3 DEF Collect, RefreshPublicIP, Found
    <3>2. held[publicIP] \in Int /\ held[publicIP] >= asked /\ clock - asked < TTL
      BY <2>1, <2>3, <3>1 DEF IsFresh, LookupInv
    <3> QED BY <2>1, <3>1, <3>2
  <2> QED BY <2>2, <2>3
<1> QED BY <1>1, <1>2, LookupStep, TypedHolds, PTL DEF Spec, AddressIsRecent
==============================================================================
