---------------------------- MODULE RestoreProofs ----------------------------
(***************************************************************************)
(* Proofs about Restore: what a restore leaves behind, for any number of   *)
(* requests, uploads, failures and crashes.                                *)
(***************************************************************************)
EXTENDS Restore, TLAPS

USE RestoreAssumption, NoFileAssumption

Copying == {"head", "tail"}
Moving == {"drop", "aside", "install", "putback", "finish"}

(* A handle is held by a request that copies, on a file that is there.     *)
Handles ==
  \A r \in Request : req[r].at \in Name =>
     req[r].step \in Copying /\ disk[req[r].at] # NoFile

(* The names move only after Close; a process that is gone serves nobody.  *)
Closed ==
  /\ open => \A r \in Request : req[r].at # "db" /\ req[r].step \notin Moving
  /\ open => \A r \in Request : req[r].at # "replaced"
  /\ ~up => ~open /\ ~exiting /\ \A r \in Request : req[r] = Idle

BaseInv == TypeOK /\ Handles /\ Closed

-----------------------------------------------------------------------------
(* System calls *)

(* Every database and every file the operator has is made of sources.      *)
LEMMA Files ==
  /\ \A x \in Source : Whole(x) \in Content
  /\ Idle \in Req
  /\ "original" \in Source /\ "fresh" \in Source /\ "nothing" \in Source
BY DEF Whole, Content, Source, Idle, Req, Step, Told, Name

(* Removing a file takes the handles on it with it.                        *)
LEMMA RemoveTypes ==
  ASSUME TypeOK, Handles, NEW r \in Request, NEW p \in Req, NEW n \in Name,
         p.at = "nowhere", Remove(r, p, n)
  PROVE  /\ disk' \in [Name -> Content \cup {NoFile}]
         /\ req' \in [Request -> Req]
         /\ Handles'
         /\ \A q \in Request \ {r} : req'[q].step = req[q].step /\ req'[q].at \in {req[q].at, "nowhere"}
         /\ req'[r] = p
         /\ \A m \in Name \ {n} : disk'[m] = disk[m]
<1>1. disk' \in [Name -> Content \cup {NoFile}] /\ \A m \in Name \ {n} : disk'[m] = disk[m]
  BY DEF TypeOK, Remove
<1>2. \A q \in Request : Unlinked(req[q], n) \in Req
  BY DEF TypeOK, Unlinked, Req
<1>3. req' \in [Request -> Req] /\ req'[r] = p
  BY <1>2 DEF Remove
<1>4. ASSUME NEW q \in Request \ {r}
      PROVE  /\ req'[q].step = req[q].step
             /\ req'[q].at = IF req[q].at = n THEN "nowhere" ELSE req[q].at
  BY <1>4 DEF Remove, Unlinked, TypeOK, Req
<1>5. Handles'
  BY <1>1, <1>3, <1>4 DEF Handles, Name
<1> QED BY <1>1, <1>3, <1>4, <1>5

(* A rename takes the handles along, and cuts off those on what it covers. *)
LEMMA RenameTypes ==
  ASSUME TypeOK, Handles, NEW r \in Request, NEW p \in Req, NEW from \in Name, NEW to \in Name,
         p.at = "nowhere", from # to, disk[from] # NoFile, Rename(r, p, from, to)
  PROVE  /\ disk' \in [Name -> Content \cup {NoFile}]
         /\ req' \in [Request -> Req]
         /\ Handles'
         /\ \A q \in Request \ {r} : req'[q].step = req[q].step
         /\ req'[r] = p
         /\ disk'[from] = NoFile /\ disk'[to] = disk[from]
         /\ \A m \in Name \ {from, to} : disk'[m] = disk[m]
<1>1. /\ disk' \in [Name -> Content \cup {NoFile}]
      /\ disk'[from] = NoFile /\ disk'[to] = disk[from]
      /\ \A m \in Name \ {from, to} : disk'[m] = disk[m]
  BY DEF TypeOK, Rename
<1>2. \A q \in Request : Renamed(req[q], from, to) \in Req
  BY DEF TypeOK, Renamed, Req
<1>3. req' \in [Request -> Req] /\ req'[r] = p
  BY <1>2 DEF Rename
<1>4. ASSUME NEW q \in Request \ {r}
      PROVE  /\ req'[q].step = req[q].step
             /\ req'[q].at = IF req[q].at = to THEN "nowhere"
                             ELSE IF req[q].at = from THEN to ELSE req[q].at
  BY <1>4 DEF Rename, Renamed, TypeOK, Req
<1>5. Handles'
  BY <1>1, <1>3, <1>4 DEF Handles, Name
<1> QED BY <1>1, <1>3, <1>4, <1>5

(* Writing changes the content of one file and makes none.                 *)
LEMMA WrittenTypes ==
  ASSUME TypeOK, Handles, NEW r \in Request, NEW part \in {"head", "tail"},
         disk' = Written(req[r], part)
  PROVE  /\ disk' \in [Name -> Content \cup {NoFile}]
         /\ \A n \in Name : disk'[n] = NoFile <=> disk[n] = NoFile
         /\ \A n \in Name : n # req[r].at => disk'[n] = disk[n]
         /\ req[r].at \in Name =>
              disk'[req[r].at] = [disk[req[r].at] EXCEPT ![part] = req[r].upload]
<1>1. req[r].upload \in Source
  BY DEF TypeOK, Req
<1>2. CASE req[r].at \notin Name
  BY <1>2 DEF Written, TypeOK
<1>3. CASE req[r].at \in Name
  <2>1. disk[req[r].at] \in Content
    BY <1>3 DEF Handles, TypeOK
  <2>2. [disk[req[r].at] EXCEPT ![part] = req[r].upload] \in Content
    BY <1>1, <2>1 DEF Content
  <2> QED BY <1>3, <2>1, <2>2, NoFileAssumption DEF Written, TypeOK
<1> QED BY <1>2, <1>3
(* A request that does not copy moves on with no handle.                   *)
LEMMA Moves ==
  ASSUME TypeOK, Handles, NEW r \in Request, NEW s \in Step
  PROVE  /\ Goes(r, s) \in Req /\ Goes(r, s).step = s /\ Goes(r, s).at = req[r].at
         /\ Goes(r, s).upload = req[r].upload
         /\ req[r].step \notin Copying => req[r].at = "nowhere"
 BY Files DEF TypeOK, Handles, Goes, Req

(* A request that has been answered is idle.                               *)
LEMMA Answered ==
  ASSUME NEW t \in Told
  PROVE  /\ Answers(t) \in Req /\ Answers(t).step = "idle"
         /\ Answers(t).at = "nowhere" /\ Answers(t).told = t
BY Files DEF Answers, Idle, Req, Step, Told

-----------------------------------------------------------------------------
(* Types, handles and the closed store *)

LEMMA InitBase == Init => BaseInv
<1> SUFFICES ASSUME Init PROVE BaseInv
  OBVIOUS
<1>1. disk \in [Name -> Content \cup {NoFile}] /\ disk["db"] # NoFile
  BY Files DEF Init, Name
<1>2. restores \in 0..MaxRestores /\ crashes \in 0..MaxCrashes
  BY DEF Init
<1>3. TypeOK
  BY <1>1, <1>2, Files DEF Init, TypeOK
<1>4. Handles /\ Closed
  BY DEF Init, Handles, Closed, Idle, Moving, Name
<1> QED BY <1>3, <1>4 DEF BaseInv

LEMMA NextBase == BaseInv /\ [Next]_vars => BaseInv'
<1> SUFFICES ASSUME BaseInv, [Next]_vars PROVE BaseInv'
  OBVIOUS
<1> USE DEF BaseInv
<1>1. ASSUME NEW r \in Request, Accept(r) PROVE BaseInv'
  <2>1. \A u \in Upload : [Idle EXCEPT !.step = "stage", !.upload = u] \in Req
    BY Files DEF Idle, Req, Step, Source
  <2>2. PICK u \in Upload : req' = [req EXCEPT ![r] = [Idle EXCEPT !.step = "stage", !.upload = u]]
    BY <1>1 DEF Accept, Keep
  <2>3. restores' \in 0..MaxRestores
    BY <1>1 DEF Accept, TypeOK
  <2>8. req' \in [Request -> Req]
    BY <2>1, <2>2 DEF TypeOK
  <2>7. overlapped' \in BOOLEAN
    BY <1>1, Zenon DEF Accept
  <2>6. TypeOK'
    BY <1>1, <2>3, <2>7, <2>8 DEF Accept, TypeOK, process, Name
  <2>4. Handles'
    BY <1>1, <2>2 DEF Accept, Handles, Idle, Name, TypeOK
  <2>5. Closed'
    BY <1>1, <2>2 DEF Accept, Closed, Idle, Moving, TypeOK, process
  <2> QED BY <2>4, <2>5, <2>6
<1>2. ASSUME NEW r \in Request, Stage(r) PROVE BaseInv'
  <2> DEFINE p == [req[r] EXCEPT !.step = "head", !.at = "incoming"]
  <2>1. p \in Req
    BY DEF TypeOK, Req, Step, Name
  <2>7. req' = [req EXCEPT ![r] = p]
    BY <1>2 DEF Stage, Keep
  <2>8. up
    BY <1>2 DEF Stage, Closed, Idle
  <2>2. disk' = [disk EXCEPT !["incoming"] = Whole("nothing")]
    BY <1>2 DEF Stage
  <2>3. TypeOK'
    BY <1>2, <2>1, <2>7, <2>2, Files DEF Stage, TypeOK, process, counters, history, Name
  <2>4. Handles'
    BY <2>1, <2>7, <2>2, Files DEF Handles, TypeOK, Name, Copying
  <2>5. Closed'
    BY <1>2, <2>7, <2>8 DEF Stage, Closed, TypeOK, process, Moving
  <2> QED BY <2>3, <2>4, <2>5
<1>3. ASSUME NEW r \in Request, CopyHead(r) PROVE BaseInv'
  <2>1. req' = [req EXCEPT ![r] = Goes(r, "tail")] /\ Goes(r, "tail") \in Req
    BY <1>3, Moves DEF CopyHead, Keep, Step
  <2>2. /\ disk' \in [Name -> Content \cup {NoFile}]
        /\ \A n \in Name : disk'[n] = NoFile <=> disk[n] = NoFile
    BY <1>3, WrittenTypes DEF CopyHead
  <2>3. TypeOK'
    BY <1>3, <2>1, <2>2 DEF CopyHead, TypeOK, process, counters, history, Name
  <2>4. Handles'
    BY <2>1, <2>2, Moves DEF Handles, TypeOK, Copying, Step
  <2>5. Closed'
    BY <1>3, <2>1, Moves DEF CopyHead, Closed, TypeOK, process, Moving, Step, Idle
  <2> QED BY <2>3, <2>4, <2>5
<1>4. ASSUME NEW r \in Request, CopyTail(r) PROVE BaseInv'
  <2> DEFINE p == [req[r] EXCEPT !.step = "inspect", !.at = "nowhere"]
  <2>1. p \in Req
    BY DEF TypeOK, Req, Step
  <2>7. req' = [req EXCEPT ![r] = p]
    BY <1>4 DEF CopyTail, Keep
  <2>8. up
    BY <1>4 DEF CopyTail, Closed, Idle
  <2>2. /\ disk' \in [Name -> Content \cup {NoFile}]
        /\ \A n \in Name : disk'[n] = NoFile <=> disk[n] = NoFile
    BY <1>4, WrittenTypes DEF CopyTail
  <2>3. TypeOK'
    BY <1>4, <2>1, <2>7, <2>2 DEF CopyTail, TypeOK, process, counters, history, Name
  <2>4. Handles'
    BY <2>1, <2>7, <2>2 DEF Handles, TypeOK, Name
  <2>5. Closed'
    BY <1>4, <2>7, <2>8 DEF CopyTail, Closed, TypeOK, process, Moving
  <2> QED BY <2>3, <2>4, <2>5
<1>5. ASSUME NEW r \in Request, NEW t \in Told, Remove(r, Answers(t), "incoming"),
             req[r].step # "idle", UNCHANGED <<up, open, counters, history>>,
             exiting' \in BOOLEAN
      PROVE BaseInv'
  <2>1. up
    BY <1>5 DEF Closed, Idle
  <2>2. /\ disk' \in [Name -> Content \cup {NoFile}] /\ req' \in [Request -> Req] /\ Handles'
        /\ \A q \in Request \ {r} :
             req'[q].step = req[q].step /\ req'[q].at \in {req[q].at, "nowhere"}
        /\ req'[r] = Answers(t) /\ disk'["db"] = disk["db"]
    BY <1>5, Answered, RemoveTypes DEF Name
  <2>3. TypeOK'
    BY <1>5, <2>2 DEF TypeOK, counters, history
  <2>4. Closed'
    BY <1>5, <2>1, <2>2, Answered DEF Closed, Moving
  <2> QED BY <2>2, <2>3, <2>4
<1>6. ASSUME NEW r \in Request, CopyFails(r) PROVE BaseInv'
  BY <1>5, <1>6 DEF CopyFails, process, Told, TypeOK
<1>7. ASSUME NEW r \in Request, Inspect(r) PROVE BaseInv'
  <2>1. CASE Passes(disk["incoming"])
    <3>1. req' = [req EXCEPT ![r] = Goes(r, "close")] /\ Goes(r, "close") \in Req /\ UNCHANGED disk
      BY <1>7, <2>1, Moves DEF Inspect, Keep, Step
    <3>2. TypeOK'
      BY <1>7, <3>1 DEF Inspect, TypeOK, process, counters, history
    <3>3. Handles'
      BY <1>7, <3>1, Moves DEF Inspect, Handles, TypeOK, Copying, Step, Name
    <3>4. Closed'
      BY <1>7, <3>1, Moves DEF Inspect, Closed, TypeOK, process, Moving, Step, Idle
    <3> QED BY <3>2, <3>3, <3>4
  <2>2. CASE ~Passes(disk["incoming"])
    BY <1>5, <1>7, <2>2 DEF Inspect, process, Told, TypeOK
  <2> QED BY <2>1, <2>2
<1>8. ASSUME NEW r \in Request, CloseStore(r) PROVE BaseInv'
  <2>1. req' = [req EXCEPT ![r] = Goes(r, "drop")] /\ Goes(r, "drop") \in Req /\ up
    BY <1>8, Moves DEF CloseStore, Keep, Step, Closed, Idle
  <2>2. TypeOK'
    BY <1>8, <2>1 DEF CloseStore, TypeOK, process, counters, history
  <2>3. Handles'
    BY <1>8, <2>1, Moves DEF CloseStore, Handles, TypeOK, Copying, Step, Name
  <2>4. Closed'
    BY <1>8, <2>1 DEF CloseStore, Closed
  <2> QED BY <2>2, <2>3, <2>4
<1>9. ASSUME NEW r \in Request, req[r].step \in Moving PROVE up /\ ~open
  BY <1>9 DEF Closed, Moving, Idle, TypeOK
<1>10. ASSUME NEW r \in Request, req[r].step \in Moving, NEW s \in Step, s \notin Copying,
              Keep(r, Goes(r, s)), UNCHANGED <<disk, process, counters, history>>
       PROVE  BaseInv'
  <2>1. req' = [req EXCEPT ![r] = Goes(r, s)] /\ Goes(r, s) \in Req
    BY <1>10, Moves DEF Keep
  <2>2. TypeOK'
    BY <1>10, <2>1 DEF TypeOK, process, counters, history
  <2>3. Handles'
    BY <1>10, <2>1, Moves DEF Handles, TypeOK, Copying, Moving, Name
  <2>4. Closed'
    BY <1>9, <1>10 DEF Closed, process
  <2> QED BY <2>2, <2>3, <2>4
<1>11. ASSUME NEW r \in Request, DropReplaced(r) PROVE BaseInv'
  <2>1. /\ Goes(r, "aside") \in Req /\ Goes(r, "aside").at = "nowhere"
        /\ Remove(r, Goes(r, "aside"), "replaced") /\ up /\ ~open
    BY <1>9, <1>11, Moves DEF DropReplaced, Step, Copying, Moving
  <2>2. disk' \in [Name -> Content \cup {NoFile}] /\ req' \in [Request -> Req] /\ Handles'
    BY <2>1, RemoveTypes DEF Name
  <2>3. TypeOK'
    BY <1>11, <2>1, <2>2 DEF DropReplaced, TypeOK, process, counters, history
  <2>4. Closed'
    BY <1>11, <2>1 DEF DropReplaced, Closed, process
  <2> QED BY <2>2, <2>3, <2>4
<1>12. ASSUME NEW r \in Request, NEW p \in Req, NEW from \in Name, NEW to \in Name, from # to,
              p.at = "nowhere", disk[from] # NoFile, Rename(r, p, from, to),
              req[r].step \in Moving, UNCHANGED <<up, open, counters, history>>,
              exiting' \in BOOLEAN
       PROVE  BaseInv'
  <2>1. disk' \in [Name -> Content \cup {NoFile}] /\ req' \in [Request -> Req] /\ Handles'
    BY <1>12, RenameTypes
  <2>2. TypeOK'
    BY <1>9, <1>12, <2>1 DEF TypeOK, counters, history
  <2>3. Closed'
    BY <1>9, <1>12 DEF Closed
  <2> QED BY <2>1, <2>2, <2>3
<1>13. ASSUME NEW r \in Request, SetAside(r) PROVE BaseInv'
  <2>1. req[r].step = "aside" /\ req[r].step \in Moving /\ Goes(r, "install") \in Req
        /\ Goes(r, "install").at = "nowhere"
    BY <1>13, Moves DEF SetAside, Step, Moving, Copying
  <2>2. CASE /\ disk["db"] # NoFile /\ Rename(r, Goes(r, "install"), "db", "replaced")
             /\ UNCHANGED exiting
    BY <1>12, <1>13, <2>1, <2>2 DEF SetAside, Name, TypeOK
  <2>3. CASE Remove(r, Answers("unchanged"), "incoming") /\ exiting' = TRUE
    BY <1>5, <1>13, <2>1, <2>3 DEF SetAside, Told
  <2> QED BY <1>13, <2>2, <2>3 DEF SetAside
<1>14. ASSUME NEW r \in Request, Install(r) PROVE BaseInv'
  <2>1. req[r].step = "install" /\ req[r].step \in Moving /\ Goes(r, "finish") \in Req
        /\ Goes(r, "finish").at = "nowhere"
    BY <1>14, Moves DEF Install, Step, Moving, Copying
  <2>2. CASE disk["incoming"] # NoFile /\ Rename(r, Goes(r, "finish"), "incoming", "db")
    BY <1>12, <1>14, <2>1, <2>2 DEF Install, Name, TypeOK, process
  <2>3. CASE Keep(r, Goes(r, "putback")) /\ UNCHANGED disk
    BY <1>10, <1>14, <2>1, <2>3 DEF Install, Step, Copying
  <2> QED BY <1>14, <2>2, <2>3 DEF Install
<1>15. ASSUME NEW r \in Request, NEW t \in Told, Keep(r, Answers(t)), req[r].step \in Moving,
              UNCHANGED <<disk, up, open, counters, served, before, overlapped>>,
              exiting' \in BOOLEAN, stranded' \in BOOLEAN
       PROVE  BaseInv'
  <2>1. req' = [req EXCEPT ![r] = Answers(t)] /\ Answers(t) \in Req
    BY <1>15, Answered DEF Keep
  <2>2. TypeOK'
    BY <1>15, <2>1 DEF TypeOK, counters
  <2>3. Handles'
    BY <1>15, <2>1, Answered DEF Handles, TypeOK, Name
  <2>4. Closed'
    BY <1>9, <1>15 DEF Closed
  <2> QED BY <2>2, <2>3, <2>4
<1>16. ASSUME NEW r \in Request, PutBack(r) PROVE BaseInv'
  <2>1. req[r].step \in Moving /\ Answers("put back") \in Req /\ Answers("put back").at = "nowhere"
        /\ "put back" \in Told
    BY <1>16, Answered DEF PutBack, Moving, Told
  <2>2. CASE disk["replaced"] # NoFile /\ Rename(r, Answers("put back"), "replaced", "db")
             /\ UNCHANGED stranded
    BY <1>12, <1>16, <2>1, <2>2 DEF PutBack, Name, history
  <2>3. CASE Keep(r, Answers("put back")) /\ stranded' = TRUE /\ UNCHANGED disk
    BY <1>15, <1>16, <2>1, <2>3 DEF PutBack
  <2> QED BY <1>16, <2>2, <2>3 DEF PutBack
<1>17. ASSUME NEW r \in Request, Finish(r) PROVE BaseInv'
  <2>1. req[r].step \in Moving /\ "restored" \in Told
    BY <1>17 DEF Finish, Moving, Told
  <2> QED BY <1>15, <1>17, <2>1 DEF Finish, history, TypeOK
<1>18. ASSUME Down, restores' = restores, crashes' \in 0..MaxCrashes, stranded' \in BOOLEAN
       PROVE  BaseInv'
  <2>1. TypeOK'
    BY <1>18, Files DEF Down, TypeOK
  <2>2. Handles' /\ Closed'
    BY <1>18 DEF Down, Handles, Closed, Idle, Name
  <2> QED BY <2>1, <2>2
<1>19. CASE Exit
  BY <1>18, <1>19 DEF Exit, counters, TypeOK
<1>20. CASE Crash
  <2>1. stranded' \in BOOLEAN
    BY <1>20, Zenon DEF Crash
  <2> QED BY <1>18, <1>20, <2>1 DEF Crash, TypeOK
<1>21. CASE Start
  <2>1. PICK c \in Content : /\ disk' = [disk EXCEPT !["db"] = c] /\ served' = c
    BY <1>21, Files DEF Start, TypeOK, Name
  <2>4. stranded' \in BOOLEAN /\ up' \in BOOLEAN /\ open' \in BOOLEAN
    BY <1>21, Zenon DEF Start
  <2>2. TypeOK'
    BY <1>21, <2>1, <2>4 DEF Start, TypeOK, counters, Name
  <2>3. Handles' /\ Closed'
    BY <1>21 DEF Start, Handles, Closed, Idle, Name, Moving
  <2> QED BY <2>2, <2>3
<1>22. CASE UNCHANGED vars
  BY <1>22 DEF vars, process, counters, history, TypeOK, Handles, Closed
<1> QED
  BY <1>1, <1>2, <1>3, <1>4, <1>6, <1>7, <1>8, <1>11, <1>13, <1>14, <1>16, <1>17, <1>19, <1>20,
     <1>21, <1>22 DEF Next, Serve

(* The files, the handles and the requests keep their types, and a hub     *)
(* that holds the database open has a file under it.                       *)
THEOREM TypeCorrect == Spec => []TypeOK
BY InitBase, NextBase, PTL DEF Spec, BaseInv

(* However many restores run at once, none touches the file the store has  *)
(* open: the names move only after Close (backup.go:100-107).              *)
THEOREM LiveFileSafe == Spec => []LiveFileUntouched
<1>1. BaseInv => LiveFileUntouched
  BY DEF BaseInv, Closed, LiveFileUntouched, Moving
<1> QED BY <1>1, InitBase, NextBase, PTL DEF Spec

-----------------------------------------------------------------------------
(* What one restore at a time leaves behind *)

Checked == {Whole("original"), Whole("fresh")} \cup {Whole(u) : u \in Good}

(* The staged file is the upload once it has been copied, and one that may *)
(* be installed once it has been inspected.                                *)
Staged(p) ==
  /\ p.step \in Copying => p.at = "incoming"
  /\ p.step = "tail" => disk["incoming"].head = p.upload
  /\ p.step \in {"inspect", "close", "drop", "aside", "install"} => disk["incoming"] = Whole(p.upload)
  /\ p.step \in {"close", "drop", "aside", "install", "finish"} => p.upload \in Good

(* Where the database that was served is, as the request goes on.          *)
Whereabouts(p) ==
  /\ p.step # "idle" => before = served
  /\ p.step \in {"stage", "head", "tail", "inspect", "close", "drop", "aside"} => disk["db"] = served
  /\ p.step \in {"install", "putback"} => disk["db"] = NoFile /\ disk["replaced"] = served
  /\ p.step = "finish" => disk["db"] = Whole(p.upload) /\ disk["replaced"] = served

Busy(r) == req[r].step # "idle"

(* There is a database, or it has been set aside by the request that is    *)
(* about to put one in its place, or one that failed to.                   *)
Between(p) == p.step \in {"install", "putback"}
Found == disk["db"] = NoFile => stranded \/ \E r \in Request : Between(req[r])

LoneInv == ~overlapped =>
  /\ \A q, r \in Request : Busy(q) /\ Busy(r) => q = r
  /\ \A r \in Request : Staged(req[r]) /\ Whereabouts(req[r])
  /\ open => disk["db"] = served
  /\ served \in {disk["db"], disk["replaced"]}
  /\ served \in Checked /\ disk["db"] \in Checked \cup {NoFile}
  /\ exiting \/ stranded => ~open /\ \A r \in Request : ~Busy(r)
  /\ Found

(* What follows once the requests but one are known to be idle: the parts  *)
(* of the invariant that speak of the one that moved, and of the files.    *)
LEMMA LoneFrom ==
  ASSUME BaseInv, NEW r \in Request,
         \A q \in Request \ {r} : req'[q].step = "idle",
         Staged(req[r])', Whereabouts(req[r])',
         (open => disk["db"] = served)',
         (served \in {disk["db"], disk["replaced"]})',
         (served \in Checked /\ disk["db"] \in Checked \cup {NoFile})',
         exiting' \/ stranded' => ~open' /\ req'[r].step = "idle",
         disk'["db"] = NoFile => stranded' \/ Between(req'[r])
  PROVE  LoneInv'
<1>1. \A q \in Request \ {r} : Staged(req[q])' /\ Whereabouts(req[q])'
  BY DEF Staged, Whereabouts, Copying
<1>2. Found'
  BY DEF Found
<1> QED BY <1>1, <1>2 DEF LoneInv, Busy

LEMMA InitLone == Init => LoneInv
BY Files DEF Init, LoneInv, Busy, Idle, Staged, Whereabouts, Copying, Checked, Name, Found

LEMMA NextLone == BaseInv /\ BaseInv' /\ LoneInv /\ [Next]_vars => LoneInv'
<1> SUFFICES ASSUME BaseInv, BaseInv', LoneInv, [Next]_vars, ~overlapped' PROVE LoneInv'
  BY DEF LoneInv
<1> USE DEF BaseInv
<1>1. ~overlapped
  BY DEF Next, Accept, Serve, Stage, CopyHead, CopyTail, CopyFails, Inspect, CloseStore,
     DropReplaced, SetAside, Install, PutBack, Finish, Exit, Crash, Start, Down, history, vars
<1>0. /\ \A q, r \in Request : Busy(q) /\ Busy(r) => q = r
      /\ \A r \in Request : Staged(req[r]) /\ Whereabouts(req[r])
      /\ open => disk["db"] = served
      /\ served \in {disk["db"], disk["replaced"]}
      /\ served \in Checked /\ disk["db"] \in Checked \cup {NoFile}
      /\ exiting \/ stranded => ~open /\ \A r \in Request : ~Busy(r)
      /\ Found
      /\ served # NoFile
  BY <1>1 DEF LoneInv, TypeOK
<1>2. ASSUME NEW r \in Request, Accept(r) PROVE LoneInv'
  <2>1. \A q \in Request : req[q].step = "idle"
    BY <1>2 DEF Accept
  <2>2. PICK u \in Upload : req' = [req EXCEPT ![r] = [Idle EXCEPT !.step = "stage", !.upload = u]]
    BY <1>2 DEF Accept, Keep
  <2>3. /\ req'[r].step = "stage"
        /\ \A q \in Request \ {r} : req'[q].step = "idle"
    BY <2>1, <2>2 DEF Idle, TypeOK
  <2>4. Staged(req[r])' /\ Whereabouts(req[r])'
    BY <1>0, <1>2, <2>3 DEF Accept, Staged, Whereabouts, Copying
  <2>5. disk'["db"] # NoFile /\ ~stranded'
    BY <1>0, <1>2 DEF Accept
  <2> QED BY <1>0, <1>2, <2>3, <2>4, <2>5, LoneFrom DEF Accept, process
<1>3. ASSUME NEW r \in Request, Busy(r)
      PROVE  /\ \A q \in Request \ {r} : req[q].step = "idle"
             /\ ~exiting /\ ~stranded
             /\ Staged(req[r]) /\ Whereabouts(req[r])
             /\ disk["db"] = NoFile => stranded \/ Between(req[r])
  BY <1>0, <1>3 DEF Busy, Found, Between
<1>4. ASSUME NEW r \in Request, Stage(r) PROVE LoneInv'
  <2>1. Busy(r)
    BY <1>4 DEF Stage, Busy
  <2>2. /\ req'[r].step = "head" /\ req'[r].at = "incoming"
        /\ \A q \in Request \ {r} : req'[q].step = "idle"
    BY <1>3, <1>4, <2>1 DEF Stage, Keep, TypeOK, Req
  <2>3. disk'["db"] = disk["db"] /\ disk'["replaced"] = disk["replaced"]
    BY <1>4 DEF Stage, TypeOK, Name
  <2>4. Staged(req[r])' /\ Whereabouts(req[r])'
    BY <1>3, <1>4, <2>1, <2>2, <2>3 DEF Stage, Staged, Whereabouts, Copying, history
  <2>5. disk'["db"] # NoFile /\ disk["db"] = served /\ ~stranded'
    BY <1>0, <1>3, <1>4, <2>1, <2>3 DEF Stage, Whereabouts, history
  <2> QED BY <1>0, <1>3, <1>4, <2>1, <2>2, <2>3, <2>4, <2>5, LoneFrom DEF Stage, process, history
<1>5. ASSUME NEW r \in Request, CopyHead(r) PROVE LoneInv'
  <2>1. Busy(r) /\ req[r].at = "incoming"
    BY <1>3, <1>5 DEF CopyHead, Busy, Staged, Copying
  <2>2. /\ req'[r].step = "tail" /\ req'[r].at = "incoming" /\ req'[r].upload = req[r].upload
        /\ \A q \in Request \ {r} : req'[q].step = "idle"
    BY <1>3, <1>5, <2>1, Moves DEF CopyHead, Keep, TypeOK, Step
  <2>3. /\ disk'["db"] = disk["db"] /\ disk'["replaced"] = disk["replaced"]
        /\ disk'["incoming"].head = req[r].upload
    <3>1. disk["incoming"] \in Content
      BY <2>1 DEF Handles, TypeOK, Name
    <3>2. disk'["incoming"] = [disk["incoming"] EXCEPT !.head = req[r].upload]
      BY <1>5, <2>1, WrittenTypes DEF CopyHead, Name
    <3>3. disk'["db"] = disk["db"] /\ disk'["replaced"] = disk["replaced"]
      BY <1>5, <2>1, WrittenTypes DEF CopyHead, Name
    <3> QED BY <3>1, <3>2, <3>3 DEF Content
  <2>4. Staged(req[r])' /\ Whereabouts(req[r])'
    BY <1>3, <1>5, <2>1, <2>2, <2>3 DEF CopyHead, Staged, Whereabouts, Copying, history
  <2>5. disk'["db"] # NoFile /\ disk["db"] = served /\ ~stranded'
    BY <1>0, <1>3, <1>5, <2>1, <2>3 DEF CopyHead, Whereabouts, history
  <2> QED BY <1>0, <1>3, <1>5, <2>1, <2>2, <2>3, <2>4, <2>5, LoneFrom DEF CopyHead, process, history
<1>6. ASSUME NEW r \in Request, CopyTail(r) PROVE LoneInv'
  <2>1. Busy(r) /\ req[r].at = "incoming" /\ disk["incoming"].head = req[r].upload
    BY <1>3, <1>6 DEF CopyTail, Busy, Staged, Copying
  <2>2. /\ req'[r].step = "inspect" /\ req'[r].upload = req[r].upload
        /\ \A q \in Request \ {r} : req'[q].step = "idle"
    BY <1>3, <1>6, <2>1 DEF CopyTail, Keep, TypeOK, Req
  <2>3. /\ disk'["db"] = disk["db"] /\ disk'["replaced"] = disk["replaced"]
        /\ disk'["incoming"] = Whole(req[r].upload)
    <3>1. disk["incoming"] \in Content
      BY <2>1 DEF Handles, TypeOK, Name
    <3>2. disk'["incoming"] = [disk["incoming"] EXCEPT !.tail = req[r].upload]
      BY <1>6, <2>1, WrittenTypes DEF CopyTail, Name
    <3>3. disk'["db"] = disk["db"] /\ disk'["replaced"] = disk["replaced"]
      BY <1>6, <2>1, WrittenTypes DEF CopyTail, Name
    <3> QED BY <2>1, <3>1, <3>2, <3>3 DEF Content, Whole
  <2>4. Staged(req[r])' /\ Whereabouts(req[r])'
    BY <1>3, <1>6, <2>1, <2>2, <2>3 DEF CopyTail, Staged, Whereabouts, Copying, history
  <2>5. disk'["db"] # NoFile /\ disk["db"] = served /\ ~stranded'
    BY <1>0, <1>3, <1>6, <2>1, <2>3 DEF CopyTail, Whereabouts, history
  <2> QED BY <1>0, <1>3, <1>6, <2>1, <2>2, <2>3, <2>4, <2>5, LoneFrom DEF CopyTail, process, history
<1>7. ASSUME NEW r \in Request, NEW t \in Told, Busy(r), Remove(r, Answers(t), "incoming"),
             disk["db"] = served, UNCHANGED <<up, open, history>>, exiting' => ~open
      PROVE  LoneInv'
  <2>1. /\ req'[r].step = "idle" /\ req'[r].at = "nowhere"
        /\ \A q \in Request \ {r} : req'[q].step = "idle"
        /\ disk'["db"] = disk["db"] /\ disk'["replaced"] = disk["replaced"]
    BY <1>3, <1>7, Answered, RemoveTypes DEF Name
  <2>2. Staged(req[r])' /\ Whereabouts(req[r])'
    BY <2>1 DEF Staged, Whereabouts, Copying
  <2>3. disk["db"] # NoFile
    BY <1>7, Files DEF TypeOK
  <2> QED BY <1>0, <1>7, <2>1, <2>2, <2>3, LoneFrom DEF history
<1>8. ASSUME NEW r \in Request, CopyFails(r) PROVE LoneInv'
  BY <1>3, <1>7, <1>8 DEF CopyFails, process, Told, Busy, Whereabouts
<1>9. ASSUME NEW r \in Request, NEW s \in Step, Busy(r), s \notin Copying, s # "idle",
             Keep(r, Goes(r, s)), UNCHANGED <<disk, history, exiting>>, open' => open,
             disk["db"] = NoFile => stranded \/ s \in {"install", "putback"},
             Staged(Goes(r, s)), Whereabouts(Goes(r, s))
      PROVE  LoneInv'
  <2>1. /\ req'[r] = Goes(r, s)
        /\ \A q \in Request \ {r} : req'[q].step = "idle"
    BY <1>3, <1>9 DEF Keep, TypeOK
  <2>2. Staged(req[r])' /\ Whereabouts(req[r])'
    BY <1>9, <2>1 DEF Staged, Whereabouts, history
  <2>3. Goes(r, s).step = s
    BY Moves
  <2> QED BY <1>0, <1>3, <1>9, <2>1, <2>2, <2>3, LoneFrom DEF history, Between
<1>10. ASSUME NEW r \in Request, Inspect(r) PROVE LoneInv'
  <2>1. Busy(r) /\ disk["incoming"] = Whole(req[r].upload) /\ disk["db"] = served /\ before = served
    BY <1>3, <1>10 DEF Inspect, Busy, Staged, Whereabouts
  <2>2. CASE Passes(disk["incoming"])
    <3>1. req[r].upload \in Good
      BY <2>1, <2>2 DEF Passes, Whole
    <3>2. Staged(Goes(r, "close")) /\ Whereabouts(Goes(r, "close"))
      BY <2>1, <3>1, Moves DEF Staged, Whereabouts, Copying, Step
    <3> QED BY <1>0, <1>9, <1>10, <2>1, <2>2, <3>2 DEF Inspect, Step, Copying, process
  <2>3. CASE ~Passes(disk["incoming"])
    <3>1. ~exiting /\ Remove(r, Answers("refused"), "incoming") /\ UNCHANGED <<process, history>>
      BY <1>3, <1>10, <2>1, <2>3 DEF Inspect
    <3> QED BY <1>7, <2>1, <3>1 DEF process, Told
  <2> QED BY <2>2, <2>3
<1>11. ASSUME NEW r \in Request, CloseStore(r) PROVE LoneInv'
  <2>1. /\ Busy(r) /\ disk["incoming"] = Whole(req[r].upload) /\ req[r].upload \in Good
        /\ disk["db"] = served /\ before = served
    BY <1>3, <1>11 DEF CloseStore, Busy, Staged, Whereabouts
  <2>2. Staged(Goes(r, "drop")) /\ Whereabouts(Goes(r, "drop"))
    BY <2>1, Moves DEF Staged, Whereabouts, Copying, Step
  <2> QED BY <1>0, <1>9, <1>11, <2>1, <2>2 DEF CloseStore, Step, Copying
<1>12. ASSUME NEW r \in Request, DropReplaced(r) PROVE LoneInv'
  <2>1. /\ Busy(r) /\ disk["incoming"] = Whole(req[r].upload) /\ req[r].upload \in Good
        /\ disk["db"] = served /\ before = served /\ ~open
    BY <1>3, <1>12 DEF DropReplaced, Busy, Staged, Whereabouts, Closed, Moving
  <2>2. /\ Goes(r, "aside") \in Req /\ Goes(r, "aside").step = "aside"
        /\ Goes(r, "aside").at = "nowhere" /\ Goes(r, "aside").upload = req[r].upload
    BY <1>12, Moves DEF DropReplaced, Step, Copying
  <2>3. /\ req'[r] = Goes(r, "aside")
        /\ \A q \in Request \ {r} : req'[q].step = "idle"
        /\ disk'["db"] = disk["db"] /\ disk'["incoming"] = disk["incoming"]
    BY <1>3, <1>12, <2>1, <2>2, RemoveTypes DEF DropReplaced, Name
  <2>4. Staged(req[r])' /\ Whereabouts(req[r])'
    BY <1>12, <2>1, <2>2, <2>3 DEF DropReplaced, Staged, Whereabouts, Copying, history
  <2>5. disk'["db"] # NoFile /\ ~stranded'
    BY <1>0, <1>3, <1>12, <2>1, <2>3 DEF DropReplaced, history
  <2> QED BY <1>0, <1>3, <1>12, <2>1, <2>3, <2>4, <2>5, LoneFrom DEF DropReplaced, process, history
<1>13. ASSUME NEW r \in Request, SetAside(r) PROVE LoneInv'
  <2>1. /\ Busy(r) /\ disk["incoming"] = Whole(req[r].upload) /\ req[r].upload \in Good
        /\ disk["db"] = served /\ before = served /\ ~open /\ disk["db"] # NoFile
    BY <1>3, <1>13, Files DEF SetAside, Busy, Staged, Whereabouts, Closed, Moving, TypeOK
  <2>2. CASE Rename(r, Goes(r, "install"), "db", "replaced") /\ UNCHANGED exiting
    <3>1. /\ Goes(r, "install") \in Req /\ Goes(r, "install").step = "install"
          /\ Goes(r, "install").at = "nowhere" /\ Goes(r, "install").upload = req[r].upload
      BY <1>13, Moves DEF SetAside, Step, Copying
    <3>2. /\ req'[r] = Goes(r, "install")
          /\ \A q \in Request \ {r} : req'[q].step = "idle"
          /\ disk'["db"] = NoFile /\ disk'["replaced"] = disk["db"]
          /\ disk'["incoming"] = disk["incoming"]
      BY <1>3, <2>1, <2>2, <3>1, RenameTypes DEF Name
    <3>3. Staged(req[r])' /\ Whereabouts(req[r])'
      BY <1>13, <2>1, <3>1, <3>2 DEF SetAside, Staged, Whereabouts, Copying, history
    <3>4. Between(req'[r]) /\ ~stranded'
      BY <1>3, <1>13, <2>1, <3>1, <3>2 DEF SetAside, Between, history
    <3> QED BY <1>0, <1>3, <1>13, <2>1, <2>2, <3>2, <3>3, <3>4, LoneFrom DEF SetAside, history
  <2>3. CASE Remove(r, Answers("unchanged"), "incoming")
    BY <1>7, <1>13, <2>1, <2>3 DEF SetAside, Told
  <2> QED BY <1>13, <2>2, <2>3 DEF SetAside
<1>14. ASSUME NEW r \in Request, Install(r) PROVE LoneInv'
  <2>1. /\ Busy(r) /\ disk["incoming"] = Whole(req[r].upload) /\ req[r].upload \in Good
        /\ disk["db"] = NoFile /\ disk["replaced"] = served /\ before = served /\ ~open
    BY <1>3, <1>14 DEF Install, Busy, Staged, Whereabouts, Closed, Moving
  <2>2. CASE disk["incoming"] # NoFile /\ Rename(r, Goes(r, "finish"), "incoming", "db")
    <3>1. /\ Goes(r, "finish") \in Req /\ Goes(r, "finish").step = "finish"
          /\ Goes(r, "finish").at = "nowhere" /\ Goes(r, "finish").upload = req[r].upload
      BY <1>14, Moves DEF Install, Step, Copying
    <3>2. /\ req'[r] = Goes(r, "finish")
          /\ \A q \in Request \ {r} : req'[q].step = "idle"
          /\ disk'["db"] = Whole(req[r].upload) /\ disk'["replaced"] = disk["replaced"]
      BY <1>3, <2>1, <2>2, <3>1, RenameTypes DEF Name
    <3>3. Staged(req[r])' /\ Whereabouts(req[r])'
      BY <1>14, <2>1, <3>1, <3>2 DEF Install, Staged, Whereabouts, Copying, history
    <3>4. disk'["db"] \in Checked
      BY <2>1, <3>2 DEF Checked
    <3> QED BY <1>0, <1>3, <1>14, <2>1, <2>2, <3>2, <3>3, <3>4, LoneFrom
            DEF Install, process, history
  <2>3. CASE Keep(r, Goes(r, "putback")) /\ UNCHANGED disk
    <3>1. Staged(Goes(r, "putback")) /\ Whereabouts(Goes(r, "putback"))
      BY <2>1, Moves DEF Staged, Whereabouts, Copying, Step
    <3> QED BY <1>9, <1>14, <2>1, <2>3, <3>1 DEF Install, Step, Copying, process
  <2> QED BY <1>14, <2>2, <2>3 DEF Install
<1>15. ASSUME NEW r \in Request, NEW t \in Told, Busy(r), req'[r] = Answers(t),
              \A q \in Request \ {r} : req'[q].step = "idle",
              ~open, open' = open, served' = served,
              served \in {disk'["db"], disk'["replaced"]},
              disk'["db"] \in Checked \cup {NoFile}, stranded' \/ disk'["db"] # NoFile
       PROVE  LoneInv'
  <2>1. Staged(req[r])' /\ Whereabouts(req[r])' /\ req'[r].step = "idle"
    BY <1>15, Answered DEF Staged, Whereabouts, Copying
  <2> QED BY <1>0, <1>15, <2>1, LoneFrom
<1>16. ASSUME NEW r \in Request, PutBack(r) PROVE LoneInv'
  <2>1. /\ Busy(r) /\ disk["db"] = NoFile /\ disk["replaced"] = served /\ ~open
        /\ "put back" \in Told
    BY <1>3, <1>16 DEF PutBack, Busy, Whereabouts, Closed, Moving, Told
  <2>2. CASE disk["replaced"] # NoFile /\ Rename(r, Answers("put back"), "replaced", "db")
    <3>1. Answers("put back") \in Req /\ Answers("put back").at = "nowhere"
      BY <2>1, Answered
    <3>2. /\ req'[r] = Answers("put back") /\ disk'["db"] = disk["replaced"]
          /\ \A q \in Request \ {r} : req'[q].step = req[q].step
      BY <2>2, <3>1, RenameTypes DEF Name
    <3> QED BY <1>0, <1>3, <1>15, <1>16, <2>1, <2>2, <3>2 DEF PutBack
  <2>3. CASE Keep(r, Answers("put back")) /\ stranded' = TRUE /\ UNCHANGED disk
    <3>1. /\ req'[r] = Answers("put back")
          /\ \A q \in Request \ {r} : req'[q].step = "idle"
      BY <1>3, <2>1, <2>3 DEF Keep, TypeOK
    <3> QED BY <1>0, <1>15, <1>16, <2>1, <2>3, <3>1 DEF PutBack
  <2> QED BY <1>16, <2>2, <2>3 DEF PutBack
<1>17. ASSUME NEW r \in Request, Finish(r) PROVE LoneInv'
  <2>1. /\ Busy(r) /\ disk["db"] = Whole(req[r].upload) /\ disk["replaced"] = served /\ ~open
        /\ "restored" \in Told /\ req[r].upload \in Good
    BY <1>3, <1>17 DEF Finish, Busy, Staged, Whereabouts, Closed, Moving, Told
  <2>2. disk["db"] # NoFile
    BY <2>1, Files DEF Source
  <2>3. /\ req'[r] = Answers("restored")
        /\ \A q \in Request \ {r} : req'[q].step = "idle"
    BY <1>3, <1>17, <2>1 DEF Finish, Keep, TypeOK
  <2> QED BY <1>0, <1>15, <1>17, <2>1, <2>2, <2>3 DEF Finish, history
<1>18. ASSUME Down, disk["db"] = NoFile => stranded' PROVE LoneInv'
  BY <1>0, <1>18 DEF Down, LoneInv, Busy, Idle, Staged, Whereabouts, Copying, Found
<1>21. CASE Exit
  <2>1. disk["db"] = NoFile => stranded
    BY <1>0, <1>21 DEF Exit, Found, Busy, Between
  <2> QED BY <1>18, <1>21, <2>1 DEF Exit
<1>22. CASE Crash
  <2>1. disk["db"] = NoFile => stranded'
    BY <1>0, <1>22 DEF Crash, Found, Between, SetAsideBy
  <2> QED BY <1>18, <1>22, <2>1 DEF Crash
<1>19. CASE Start
  <2>1. \A r \in Request : req[r] = Idle /\ req' = req /\ ~exiting
    BY <1>19 DEF Start, Closed
  <2>2. disk'["db"] \in Checked /\ served' = disk'["db"]
    BY <1>0, <1>19 DEF Start, Checked, TypeOK, Name
  <2>3. ~exiting' /\ ~stranded'
    BY <1>19 DEF Start, Closed
  <2>4. disk'["db"] # NoFile
    BY <2>2, Files DEF Checked, Source
  <2> QED BY <2>1, <2>2, <2>3, <2>4 DEF LoneInv, Busy, Idle, Staged, Whereabouts, Copying, Found
<1>20. CASE UNCHANGED vars
  BY <1>0, <1>20 DEF vars, process, counters, history, LoneInv, Busy, Staged, Whereabouts, Copying,
     Found, Between
<1> QED
  BY <1>2, <1>4, <1>5, <1>6, <1>8, <1>10, <1>11, <1>12, <1>13, <1>14, <1>16, <1>17, <1>19,
     <1>20, <1>21, <1>22 DEF Next, Serve

LEMMA BothHold == Spec => [](BaseInv /\ LoneInv)
BY InitBase, InitLone, NextBase, NextLone, PTL DEF Spec

(* A restore that no other one meets never puts a file at the database's   *)
(* path that was not checked, whatever fails and wherever it stops         *)
(* (backup.go:91-98).                                                      *)
THEOREM OnlyCheckedInstalled == Spec => []InstalledWasChecked
<1>1. LoneInv => InstalledWasChecked
  BY DEF LoneInv, Checked, InstalledWasChecked
<1> QED BY <1>1, BothHold, PTL

(* A restore that no other one meets never loses the database it replaces  *)
(* (backup.go:111-126).                                                    *)
THEOREM ReplacedIsKept == Spec => []ServedIsKept
<1>1. LoneInv => ServedIsKept
  BY DEF LoneInv, ServedIsKept
<1> QED BY <1>1, BothHold, PTL

(* Unless two restores have met, the next hub finds a database; or a kill  *)
(* came between the two renames, or the rename back failed, and then what  *)
(* was served is still set aside (backup.go:112-126).                      *)
THEOREM DatabaseFound == Spec => StartsFindDatabase
<1>1. BaseInv /\ LoneInv /\ [Next]_vars
        => [Start /\ ~overlapped
            => \/ disk["db"] # NoFile
               \/ stranded /\ disk["replaced"] = served]_vars
  <2> SUFFICES ASSUME BaseInv, LoneInv, Start, ~overlapped, disk["db"] = NoFile
               PROVE  stranded /\ disk["replaced"] = served
    OBVIOUS
  <2>1. \A r \in Request : req[r] = Idle
    BY DEF BaseInv, Closed, Start
  <2>2. stranded
    BY <2>1 DEF LoneInv, Found, Between, Idle
  <2>3. served \in {disk["db"], disk["replaced"]} /\ served \in Content
    BY DEF LoneInv, BaseInv, TypeOK
  <2> QED BY <2>2, <2>3
<1> QED BY <1>1, BothHold, PTL DEF Spec, StartsFindDatabase

(* The answer of a restore that no other one meets is so: "unchanged" and  *)
(* "put back" leave the database there was, "restored" the upload, with    *)
(* the one there was set aside (backup.go:113-138); but where the rename   *)
(* back failed, "put back" leaves nothing at the path, and the database    *)
(* there was set aside.                                                    *)
THEOREM AnswersHold == Spec => AnswersAreTrue
<1> DEFINE Ends(r) == req[r].step # "idle" /\ req'[r].step = "idle" /\ up' /\ ~overlapped
           Answer(r) ==
             CASE req'[r].told = "restored" ->
                    disk'["db"] = Whole(req[r].upload) /\ disk'["replaced"] = before
               [] req'[r].told = "put back" /\ stranded' ->
                    disk'["db"] = NoFile /\ disk'["replaced"] = before
               [] OTHER -> disk'["db"] = before
<1>1. ASSUME BaseInv, LoneInv, Next, NEW r \in Request, Ends(r) PROVE Answer(r)
  <2> USE <1>1 DEF BaseInv
  <2>1. Staged(req[r]) /\ Whereabouts(req[r])
    BY DEF LoneInv
  <2>2. ASSUME NEW t \in Told, Remove(r, Answers(t), "incoming"), t \notin {"restored", "put back"},
               disk["db"] = before
        PROVE  Answer(r)
    <3>1. Answers(t).at = "nowhere" /\ Answers(t) \in Req /\ Answers(t).told = t
      BY Answered
    <3>2. req'[r] = Answers(t) /\ disk'["db"] = disk["db"]
      BY <2>2, <3>1, RemoveTypes DEF Name
    <3> QED BY <2>2, <3>1, <3>2
  <2>3. ASSUME NEW q \in Request, Accept(q) \/ Serve(q) PROVE q = r
    <3>1. SUFFICES ASSUME q # r PROVE req'[r].step = req[r].step
      OBVIOUS
    <3>2. ASSUME NEW p, Keep(q, p) PROVE req'[r].step = req[r].step
      BY <3>1, <3>2 DEF Keep, TypeOK
    <3>3. ASSUME NEW p, NEW n, Remove(q, p, n) PROVE req'[r].step = req[r].step
      BY <3>1, <3>3 DEF Remove, Unlinked, TypeOK, Req
    <3>4. ASSUME NEW p, NEW from, NEW to, Rename(q, p, from, to) PROVE req'[r].step = req[r].step
      BY <3>1, <3>4 DEF Rename, Renamed, TypeOK, Req
    <3>5. \/ \E p : Keep(q, p)
          \/ \E p, n : Remove(q, p, n)
          \/ \E p, from, to : Rename(q, p, from, to)
      BY <2>3, Zenon DEF Accept, Serve, Stage, CopyHead, CopyTail, CopyFails, Inspect, CloseStore,
         DropReplaced, SetAside, Install, PutBack, Finish
    <3> QED BY <3>2, <3>3, <3>4, <3>5
  <2>4. CASE CopyFails(r)
    BY <2>1, <2>2, <2>4 DEF CopyFails, Whereabouts, Told
  <2>5. CASE Inspect(r)
    <3>1. ~Keep(r, Goes(r, "close"))
      BY Moves DEF Keep, TypeOK, Step
    <3> QED BY <2>1, <2>2, <2>5, <3>1 DEF Inspect, Whereabouts, Told
  <2>6. CASE SetAside(r)
    <3>1. ~Rename(r, Goes(r, "install"), "db", "replaced")
      BY Moves DEF Rename, TypeOK, Step
    <3> QED BY <2>1, <2>2, <2>6, <3>1 DEF SetAside, Whereabouts, Told
  <2>7. CASE PutBack(r)
    <3>0. disk["db"] = NoFile /\ disk["replaced"] = before /\ before # NoFile
      BY <2>1, <2>7 DEF PutBack, Whereabouts, TypeOK
    <3>1. CASE Rename(r, Answers("put back"), "replaced", "db") /\ UNCHANGED stranded
      <4>1. disk'["db"] = before /\ req'[r] = Answers("put back")
        BY <3>0, <3>1 DEF Rename, TypeOK, Name
      <4>2. ~stranded
        BY <2>7 DEF LoneInv, PutBack, Busy
      <4> QED BY <3>1, <4>1, <4>2, Answered DEF Told
    <3>2. CASE Keep(r, Answers("put back")) /\ stranded' = TRUE /\ UNCHANGED disk
      <4>1. req'[r] = Answers("put back")
        BY <3>2 DEF Keep, TypeOK
      <4> QED BY <3>0, <3>2, <4>1, Answered DEF Told
    <3> QED BY <2>7, <3>1, <3>2 DEF PutBack
  <2>8. CASE Finish(r)
    <3>1. req'[r].told = "restored"
      BY <2>8, Answered DEF Finish, Keep, TypeOK, Told
    <3> QED BY <2>1, <2>8, <3>1 DEF Finish, Whereabouts
  <2>9. CASE Accept(r)
    BY <2>9 DEF Accept
  <2>10. CASE Stage(r) \/ CopyHead(r) \/ CopyTail(r) \/ CloseStore(r) \/ DropReplaced(r) \/ Install(r)
    <3>1. \A s \in Step : Goes(r, s).step = s
      BY Moves
    <3> QED BY <2>10, <3>1 DEF Stage, CopyHead, CopyTail, CloseStore, DropReplaced, Install, Keep,
               Remove, Rename, TypeOK, Step, Req
  <2>11. CASE Exit \/ Crash
    BY <2>11 DEF Exit, Crash, Down
  <2>12. CASE Start
    BY <2>12 DEF Start
  <2> QED BY <2>3, <2>4, <2>5, <2>6, <2>7, <2>8, <2>9, <2>10, <2>11, <2>12 DEF Next, Serve
<1>2. BaseInv /\ LoneInv /\ [Next]_vars => [\A r \in Request : Ends(r) => Answer(r)]_vars
  BY <1>1
<1>3. [\A r \in Request : Ends(r) => Answer(r)]_vars =>
      [\A r \in Request :
       req[r].step # "idle" /\ req'[r].step = "idle" /\ up' /\ ~overlapped
       => CASE req'[r].told = "restored" ->
                 disk'["db"] = Whole(req[r].upload) /\ disk'["replaced"] = before
            [] req'[r].told = "put back" /\ stranded' ->
                 disk'["db"] = NoFile /\ disk'["replaced"] = before
            [] OTHER -> disk'["db"] = before]_vars
  OBVIOUS
<1> QED BY <1>2, <1>3, BothHold, PTL DEF Spec, AnswersAreTrue
=============================================================================
