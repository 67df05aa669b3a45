--------------------------- MODULE SelfUpdateProofs ---------------------------
(***************************************************************************)
(* Proofs about SelfUpdate: what gets installed and how often, for any     *)
(* versions, releases, requests and faults, whether the unit may write or  *)
(* not.                                                                    *)
(***************************************************************************)
EXTENDS SelfUpdate, TLAPS

USE SelfUpdateAssumption

Busy == update.step \in {"open", "copy", "check", "link", "install"}

(* What is about to be installed is what was asked for; an agent that runs *)
(* is its installed binary until it has put another in its place.          *)
Intact ==
  /\ installed \in Version
  /\ update.step \in {"link", "install"} => staged = update.want
  /\ proc # None /\ update.step # "exit" => proc = installed

(* Installs still to come: of the update under way, and of a request that  *)
(* neither it nor the installed binary answers.                            *)
Owed ==
  IF Busy THEN IF updateTo = update.want THEN 1 ELSE 2
  ELSE IF updateTo \in {None, installed} THEN 0 ELSE 1

Inv == TypeOK /\ Intact /\ installs + Owed <= requests

LEMMA InitInv == Init => Inv
<1> SUFFICES ASSUME Init PROVE Inv
  OBVIOUS
<1>1. update = Idle /\ Idle \in Update
  BY DEF Init, Idle, Update, Step, File
<1>2. TypeOK
  <2>1. installed \in File \ {None} /\ staged \in File /\ old \in File
    BY DEF Init, File
  <2>2. update.step = "idle" /\ recent \in BOOLEAN
    BY DEF Init, Idle
  <2>3. releases \in 0..MaxReleases /\ requests \in 0..MaxRequests /\ faults \in 0..MaxFaults
    BY DEF Init
  <2> QED BY <1>1, <2>1, <2>2, <2>3 DEF Init, TypeOK
<1>3. Intact /\ Owed = 0
  BY DEF Init, Intact, Owed, Busy, Idle
<1> QED BY <1>2, <1>3 DEF Init, Inv

(* The sums below, on numbers alone.                                       *)
LEMMA Sums ==
  ASSUME NEW i \in Nat, NEW q \in Nat, NEW a \in 0..2, NEW b \in 0..2, i + b <= q
  PROVE  /\ a <= b => i + a <= q
         /\ a <= b + 1 => i + a <= q + 1
         /\ a + 1 <= b => (i + 1) + a <= q
OBVIOUS

LEMMA Counted ==
  ASSUME Inv
  PROVE  installs \in Nat /\ requests \in Nat /\ Owed \in 0..2 /\ installs + Owed <= requests
BY DEF Inv, TypeOK, Owed

(* An update that stops leaves the binary alone and owes no more than      *)
(* before.                                                                 *)
LEMMA Stops ==
  ASSUME Inv, Busy, update' = Idle, staged' = None, proc' \in {proc, None},
         UNCHANGED <<hub, updateTo, installed, releases, requests, installs>>,
         old' \in File, recent' \in BOOLEAN, faults' \in 0..MaxFaults
  PROVE  Inv'
<1>1. TypeOK'
  BY DEF Inv, TypeOK, hub, Idle, Update, Step, File
<1>2. Intact'
  BY DEF Inv, Intact, Idle, Busy
<1>3. Owed \in 1..2 /\ Owed' \in 0..1
  BY DEF Owed, Busy, Idle
<1>4. installs' = installs /\ requests' = requests /\ Owed' \in 0..2 /\ Owed' <= Owed
  BY <1>3
<1>5. installs' + Owed' <= requests'
  BY <1>4, Counted, Sums
<1> QED BY <1>1, <1>2, <1>5 DEF Inv

(* An update that goes on to a step before the install owes the same.      *)
LEMMA GoesOn ==
  ASSUME Inv, Busy, NEW s \in {"copy", "check", "link", "install"}, NEW o \in File,
         update' = [update EXCEPT !.step = s, !.opened = o],
         s \in {"link", "install"} => staged' = update.want,
         UNCHANGED <<hub, updateTo, proc, installed, recent, releases, requests, installs>>,
         staged' \in File, old' \in File, faults' \in 0..MaxFaults
  PROVE  Inv'
<1>1. /\ update' \in Update /\ update'.step = s /\ update'.want = update.want
      /\ update.want \in Version /\ proc # None
  BY DEF Inv, TypeOK, Update, Step, Busy
<1>2. TypeOK'
  BY <1>1 DEF Inv, TypeOK, hub
<1>3. Intact'
  BY <1>1 DEF Inv, Intact, Busy
<1>4. Owed' = Owed
  BY <1>1 DEF Owed, Busy
<1> QED BY <1>2, <1>3, <1>4 DEF Inv

LEMMA Faulty == ASSUME TypeOK, Fault PROVE faults' \in 0..MaxFaults
BY DEF TypeOK, Fault

LEMMA NextInv == Inv /\ [Next]_vars => Inv'
<1> SUFFICES ASSUME Inv, [Next]_vars PROVE Inv'
  OBVIOUS
<1>1. CASE BuildHub \/ BuildAgents \/ AgentsBuilt \/ RestartHub
  <2>1. TypeOK'
    BY <1>1 DEF Inv, TypeOK, BuildHub, BuildAgents, AgentsBuilt, RestartHub, files
  <2>2. Intact' /\ Owed' = Owed /\ UNCHANGED <<installs, requests>>
    BY <1>1 DEF Inv, Intact, Owed, Busy, BuildHub, BuildAgents, AgentsBuilt, RestartHub, files
  <2> QED BY <2>1, <2>2 DEF Inv
<1>2. CASE ReleaseAbandoned
  <2>1. TypeOK'
    BY <1>2, Faulty DEF Inv, TypeOK, ReleaseAbandoned, files
  <2>2. Intact' /\ Owed' = Owed /\ UNCHANGED <<installs, requests>>
    BY <1>2 DEF Inv, Intact, Owed, Busy, ReleaseAbandoned, files
  <2> QED BY <2>1, <2>2 DEF Inv
<1>3. CASE RequestAgentUpdate
  <2>1. TypeOK'
    BY <1>3 DEF Inv, TypeOK, RequestAgentUpdate, hub, files
  <2>2. Intact'
    BY <1>3 DEF Inv, Intact, RequestAgentUpdate, files
  <2>3. Owed' <= Owed + 1 /\ Owed \in 0..2 /\ Owed' \in 0..2
    BY <1>3 DEF Owed, Busy, RequestAgentUpdate, files
  <2>5. installs' = installs /\ requests' = requests + 1
    BY <1>3 DEF RequestAgentUpdate
  <2>4. installs' + Owed' <= requests'
    BY <2>3, <2>5, Counted, Sums
  <2> QED BY <2>1, <2>2, <2>4 DEF Inv
<1>4. CASE Push
  <2>1. /\ proc # None /\ update.step = "idle" /\ proc = installed /\ proc \in Version
        /\ UNCHANGED <<hub, proc, files, releases, requests, installs>>
    BY <1>4 DEF Push, Waits, Inv, Intact, TypeOK
  <2>2. updateTo' \in Version \cup {None} /\ faults' \in 0..MaxFaults
    BY <1>4, Faulty DEF Push, Inv, TypeOK
  <2>3. updateTo' = IF updateTo = proc THEN None ELSE updateTo
    BY <1>4 DEF Push
  <2>4. CASE update' = Begin(updateTo) /\ recent' = TRUE /\ updateTo \notin {None, proc}
    <3>1. update'.step = "open" /\ update'.want = updateTo /\ update' \in Update /\ updateTo \in Version
      BY <2>4 DEF Begin, Update, Step, File, Inv, TypeOK
    <3>2. TypeOK'
      BY <2>1, <2>2, <2>4, <3>1 DEF Inv, TypeOK, hub, files
    <3>3. Intact'
      BY <2>1, <3>1 DEF Inv, Intact, files
    <3>4. Owed = 1 /\ Owed' = 1
      BY <2>1, <2>3, <2>4, <3>1 DEF Owed, Busy, files
    <3> QED BY <2>1, <3>2, <3>3, <3>4 DEF Inv
  <2>5. CASE UNCHANGED <<update, recent>>
    <3>1. TypeOK'
      BY <2>1, <2>2, <2>5 DEF Inv, TypeOK, hub, files
    <3>2. Intact'
      BY <2>1, <2>5 DEF Inv, Intact, files
    <3>3. Owed' = Owed
      BY <2>1, <2>3, <2>5 DEF Owed, Busy, files
    <3> QED BY <2>1, <3>1, <3>2, <3>3 DEF Inv
  <2> QED BY <1>4, <2>4, <2>5 DEF Push
<1>5. CASE Cool
  <2>1. TypeOK'
    BY <1>5 DEF Inv, TypeOK, Cool, hub, files
  <2>2. Intact' /\ Owed' = Owed /\ UNCHANGED <<installs, requests>>
    BY <1>5 DEF Inv, Intact, Owed, Busy, Cool, files
  <2> QED BY <2>1, <2>2 DEF Inv
<1>6. ASSUME Busy, GivesUp, UNCHANGED Elsewhere, faults' \in 0..MaxFaults PROVE Inv'
  BY <1>6, Stops DEF GivesUp, Elsewhere, Inv, TypeOK
<1>7. CASE Open
  <2>1. Busy /\ UNCHANGED Elsewhere
    BY <1>7 DEF Open, Busy
  <2>2. CASE Writable /\ update' = [update EXCEPT !.step = "copy", !.opened = published]
             /\ staged' = Partial /\ UNCHANGED <<installed, old, faults>>
    BY <2>1, <2>2, GoesOn DEF Elsewhere, Inv, TypeOK, File
  <2> QED BY <1>6, <1>7, <2>1, <2>2, Faulty DEF Open, Inv, TypeOK
<1>8. ASSUME Busy, NEW s \in {"check", "link", "install"}, Goes(s), UNCHANGED Elsewhere,
             s \in {"link", "install"} => staged' = update.want,
             installed' = installed, staged' \in File, old' \in File, faults' \in 0..MaxFaults
      PROVE  Inv'
  <2>1. update' = [update EXCEPT !.step = s, !.opened = update.opened] /\ update.opened \in File
    BY <1>8 DEF Goes, Inv, TypeOK, Update
  <2> QED BY <1>8, <2>1, GoesOn DEF Elsewhere
<1>9. CASE Copy
  <2>1. Busy /\ UNCHANGED Elsewhere
    BY <1>9 DEF Copy, Busy
  <2>2. CASE /\ staged' \in IF published = update.opened THEN {published}
                            ELSE {update.opened, Partial}
             /\ Goes("check") /\ UNCHANGED <<installed, old, faults>>
    <3>1. staged' \in File
      BY <2>2 DEF Inv, TypeOK, File, Update
    <3> QED BY <1>8, <2>1, <2>2, <3>1 DEF Inv, TypeOK
  <2> QED BY <1>6, <1>9, <2>1, <2>2, Faulty DEF Copy, Inv
<1>10. CASE Check
  <2>1. Busy /\ UNCHANGED Elsewhere
    BY <1>10 DEF Check, Busy
  <2>2. CASE staged = update.want /\ Goes("link") /\ UNCHANGED <<files, faults>>
    BY <1>8, <2>1, <2>2 DEF files, Inv, TypeOK
  <2> QED BY <1>6, <1>10, <2>1, <2>2, Faulty DEF Check, Inv, TypeOK
<1>11. CASE Link
  <2>1. Busy /\ staged = update.want /\ Goes("install") /\ UNCHANGED <<installed, staged, Elsewhere>>
    BY <1>11 DEF Link, Busy, Inv, Intact
  <2>2. old' \in File /\ faults' \in 0..MaxFaults
    BY <1>11, Faulty DEF Link, Inv, TypeOK, File
  <2> QED BY <1>8, <2>1, <2>2 DEF Inv, TypeOK
<1>12. CASE Install
  <2>1. Busy /\ UNCHANGED <<hub, updateTo, proc, recent, releases, requests>>
    BY <1>12 DEF Install, Busy
  <2>2. CASE /\ installed' = staged /\ staged' = None /\ installs' = installs + 1
             /\ Goes("exit") /\ UNCHANGED <<old, faults>>
    <3>1. /\ installed' = update.want /\ update.want \in Version /\ proc # None
          /\ update' \in Update /\ update'.step = "exit" /\ update'.want = update.want
      BY <1>12, <2>2 DEF Install, Goes, Inv, Intact, TypeOK, Update, Step
    <3>2. TypeOK'
      BY <2>1, <2>2, <3>1 DEF Inv, TypeOK, hub, File
    <3>3. Intact'
      BY <3>1 DEF Intact
    <3>4. Owed' + 1 <= Owed /\ Owed \in 1..2 /\ Owed' \in 0..1
      BY <2>1, <2>2, <3>1 DEF Owed, Busy
    <3>5. installs' = installs + 1 /\ requests' = requests /\ Owed' \in 0..2
      BY <2>1, <2>2, <3>4
    <3>6. installs' + Owed' <= requests'
      BY <3>4, <3>5, Counted, Sums
    <3> QED BY <3>2, <3>3, <3>6 DEF Inv
  <2> QED BY <1>6, <1>12, <2>1, <2>2, Faulty DEF Install, Elsewhere, Inv
<1>13. ASSUME Down, UNCHANGED <<hub, updateTo, files, releases, requests, installs>>,
              faults' \in 0..MaxFaults
       PROVE  Inv'
  <2>1. TypeOK'
    BY <1>13 DEF Down, Inv, TypeOK, hub, files, Idle, Update, Step, File
  <2>2. Intact'
    BY <1>13 DEF Down, Inv, Intact, Idle, files
  <2>3. Owed' <= Owed /\ Owed \in 0..2 /\ Owed' \in 0..1
    BY <1>13 DEF Owed, Busy, Down, Idle, files
  <2>5. installs' = installs /\ requests' = requests /\ Owed' \in 0..2
    BY <1>13, <2>3
  <2>4. installs' + Owed' <= requests'
    BY <2>3, <2>5, Counted, Sums
  <2> QED BY <2>1, <2>2, <2>4 DEF Inv
<1>14. CASE Exit
  BY <1>13, <1>14 DEF Exit, Inv, TypeOK
<1>15. CASE Kill
  BY <1>13, <1>15, Faulty DEF Kill, Inv
<1>16. CASE Start
  <2>1. TypeOK'
    BY <1>16 DEF Start, Inv, TypeOK, hub, files
  <2>2. Intact' /\ Owed' = Owed /\ UNCHANGED <<installs, requests>>
    BY <1>16 DEF Start, Inv, Intact, Owed, Busy, files
  <2> QED BY <2>1, <2>2 DEF Inv
<1>17. CASE UNCHANGED vars
  BY <1>17 DEF vars, hub, files, Inv, TypeOK, Intact, Owed, Busy
<1> QED
  BY <1>1, <1>2, <1>3, <1>4, <1>5, <1>7, <1>9, <1>10, <1>11, <1>12, <1>14, <1>15, <1>16, <1>17
     DEF Next, SelfUpdateSteps

LEMMA InvHolds == Spec => []Inv
BY InitInv, NextInv, PTL DEF Spec

(* The hub's versions, the agent's files and its update keep their types.  *)
THEOREM TypeCorrect == Spec => []TypeOK
<1>1. Inv => TypeOK
  BY DEF Inv
<1> QED BY <1>1, InvHolds, PTL

(* Whatever is published, downloaded or killed, the installed binary runs  *)
(* (selfupdate.go:46-50, 62).                                              *)
THEOREM BinaryRuns == Spec => []InstalledRuns
<1>1. Inv => InstalledRuns
  BY DEF Inv, Intact, InstalledRuns
<1> QED BY <1>1, InvHolds, PTL

(* No hub has its agents restart in a loop (main.go:143-158).              *)
THEOREM NoRestartLoop == Spec => []OneRestartPerRequest
<1>1. Inv => OneRestartPerRequest
  BY DEF Inv, TypeOK, Owed, OneRestartPerRequest
<1> QED BY <1>1, InvHolds, PTL

(* What is installed was asked for (selfupdate.go:48-50).                  *)
THEOREM InstallsAreAsked == Spec => OnlyAskedInstalled
<1>1. Inv /\ [Next]_vars =>
        [installs' # installs \/ installed' # installed => installed' = update.want]_vars
  BY DEF Inv, Intact, Next, SelfUpdateSteps, BuildHub, BuildAgents, AgentsBuilt, ReleaseAbandoned,
     RestartHub, RequestAgentUpdate, Push, Cool, Open, Copy, Check, Link, Install, Exit, Kill,
     Start, GivesUp, Elsewhere, files, vars
<1> QED BY <1>1, InvHolds, PTL DEF Spec, OnlyAskedInstalled
=============================================================================
