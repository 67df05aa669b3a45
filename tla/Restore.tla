------------------------------- MODULE Restore -------------------------------
(***************************************************************************)
(* handleRestore (internal/hub/backup.go): an uploaded database is staged, *)
(* checked and renamed over the live one, and the process exits so that    *)
(* its service manager starts it on the new file. A step is a system call. *)
(* Several requests may run at once; they all use the same three names.    *)
(*                                                                         *)
(* A file is two parts, each from some database: enough to tell a whole    *)
(* file from one that is being written, or was written by two requests.    *)
(* A handle follows its file when the file is renamed.                     *)
(***************************************************************************)
EXTENDS Naturals

CONSTANTS
  Request,       \* requests that may be served at once
  Upload,        \* the files an operator uploads
  Good,          \* those that are srvmon databases with an operator
  NoFile,        \* there is no file of that name
  Fails,         \* do writes and renames fail now and then?
  MaxRestores, MaxCrashes   \* bounds

ASSUME RestoreAssumption ==
  /\ Good \subseteq Upload
  /\ Upload \cap {"original", "fresh", "nothing"} = {}
  /\ Fails \in BOOLEAN
  /\ MaxRestores \in Nat /\ MaxCrashes \in Nat

Source == Upload \cup {"original", "fresh", "nothing"}
Content == [head : Source, tail : Source]
Whole(x) == [head |-> x, tail |-> x]

ASSUME NoFileAssumption == NoFile \notin Content

Name == {"db", "incoming", "replaced"}

VARIABLES
  disk,       \* the files: srvmon.db and its neighbours
  up,         \* the hub process runs
  open,       \* it holds the database open
  exiting,    \* exitAfterResponse has been called
  req,        \* the requests being served
  restores, crashes,
  served,     \* history: what the hub last opened
  before,     \* history: the database when the latest restore came in
  overlapped, \* history: two restores have been served at once
  stranded    \* history: since the last start the database was set aside
              \* and nothing put in its place

process == <<up, open, exiting>>
counters == <<restores, crashes>>
history == <<served, before, overlapped, stranded>>
vars == <<disk, process, req, counters, history>>

Step == {"idle", "stage", "head", "tail", "inspect", "close", "drop", "aside", "install",
         "putback", "finish"}
Told == {"nothing", "failed", "refused", "unchanged", "put back", "restored"}

Req == [step : Step, upload : Source, at : Name \cup {"nowhere"}, told : Told]
Idle == [step |-> "idle", upload |-> "nothing", at |-> "nowhere", told |-> "nothing"]

TypeOK ==
  /\ disk \in [Name -> Content \cup {NoFile}]
  /\ up \in BOOLEAN /\ open \in BOOLEAN /\ exiting \in BOOLEAN
  /\ req \in [Request -> Req]
  /\ restores \in 0..MaxRestores /\ crashes \in 0..MaxCrashes
  /\ served \in Content /\ before \in Content \cup {NoFile}
  /\ overlapped \in BOOLEAN /\ stranded \in BOOLEAN
  /\ open => disk["db"] # NoFile

Init ==
  /\ disk = [n \in Name |-> IF n = "db" THEN Whole("original") ELSE NoFile]
  /\ up = TRUE /\ open = TRUE /\ exiting = FALSE
  /\ req = [r \in Request |-> Idle]
  /\ restores = 0 /\ crashes = 0
  /\ served = Whole("original") /\ before = Whole("original")
  /\ overlapped = FALSE /\ stranded = FALSE

-----------------------------------------------------------------------------
(* System calls; r is the request that makes them, p what becomes of it *)

Outcome == IF Fails THEN BOOLEAN ELSE {TRUE}

Unlinked(p, n) == [p EXCEPT !.at = IF @ = n THEN "nowhere" ELSE @]
Renamed(p, from, to) ==
  [p EXCEPT !.at = IF @ = to THEN "nowhere" ELSE IF @ = from THEN to ELSE @]

Keep(r, p) == req' = [req EXCEPT ![r] = p]

Remove(r, p, n) ==
  /\ disk' = [disk EXCEPT ![n] = NoFile]
  /\ req' = [q \in Request |-> IF q = r THEN p ELSE Unlinked(req[q], n)]

Rename(r, p, from, to) ==
  /\ disk' = [disk EXCEPT ![from] = NoFile, ![to] = disk[from]]
  /\ req' = [q \in Request |-> IF q = r THEN p ELSE Renamed(req[q], from, to)]

Goes(r, step) == [req[r] EXCEPT !.step = step]
Answers(told) == [Idle EXCEPT !.told = told]

-----------------------------------------------------------------------------
(* handleRestore *)

(* A signed-in operator's request: the session is in the database, so it   *)
(* is let in only while that is open. The upload may take its time.        *)
Accept(r) ==
  /\ up /\ open /\ req[r].step = "idle" /\ restores < MaxRestores
  /\ \E u \in Upload : Keep(r, [Idle EXCEPT !.step = "stage", !.upload = u])
  /\ restores' = restores + 1
  /\ before' = disk["db"]
  /\ overlapped' = (overlapped \/ \E q \in Request : req[q].step # "idle")
  /\ UNCHANGED <<disk, process, crashes, served, stranded>>

(* OpenFile truncates the staged file of a request that got here before.   *)
Stage(r) ==
  /\ req[r].step = "stage"
  /\ disk' = [disk EXCEPT !["incoming"] = Whole("nothing")]
  /\ Keep(r, [req[r] EXCEPT !.step = "head", !.at = "incoming"])
  /\ UNCHANGED <<process, counters, history>>

(* io.Copy writes to the file it has open, wherever that is by now.        *)
Written(p, part) ==
  IF p.at \in Name THEN [disk EXCEPT ![p.at] = [@ EXCEPT ![part] = p.upload]] ELSE disk

CopyHead(r) ==
  /\ req[r].step = "head"
  /\ disk' = Written(req[r], "head")
  /\ Keep(r, Goes(r, "tail"))
  /\ UNCHANGED <<process, counters, history>>

CopyTail(r) ==
  /\ req[r].step = "tail"
  /\ disk' = Written(req[r], "tail")
  /\ Keep(r, [req[r] EXCEPT !.step = "inspect", !.at = "nowhere"])
  /\ UNCHANGED <<process, counters, history>>

CopyFails(r) ==
  /\ Fails /\ req[r].step \in {"head", "tail"}
  /\ Remove(r, Answers("failed"), "incoming")
  /\ UNCHANGED <<process, counters, history>>

(* fault: does not look for the tables *)
AnyFile(c) == c # NoFile /\ c.tail # "nothing"

(* InspectBackup looks at the catalogue and counts the operators; errors   *)
(* in the samples are ignored, a file that is too short is not.            *)
Passes(c) == c # NoFile /\ c.head \in Good /\ c.tail # "nothing"

Inspect(r) ==
  /\ req[r].step = "inspect"
  /\ IF Passes(disk["incoming"])
     THEN Keep(r, Goes(r, "close")) /\ UNCHANGED disk
     ELSE Remove(r, Answers("refused"), "incoming")
  /\ UNCHANGED <<process, counters, history>>

(* fault: goes on with the database open *)
StayOpen(r) ==
  /\ req[r].step = "close"
  /\ Keep(r, Goes(r, "drop"))
  /\ UNCHANGED <<disk, process, counters, history>>

CloseStore(r) ==
  /\ req[r].step = "close"
  /\ open' = FALSE
  /\ Keep(r, Goes(r, "drop"))
  /\ UNCHANGED <<disk, up, exiting, counters, history>>

DropReplaced(r) ==
  /\ req[r].step = "drop"
  /\ Remove(r, Goes(r, "aside"), "replaced")
  /\ UNCHANGED <<process, counters, history>>

(* fault: goes on when the database could not be set aside *)
SetAsideOrNot(r) ==
  /\ req[r].step = "aside"
  /\ \E ok \in Outcome :
       IF ok /\ disk["db"] # NoFile THEN Rename(r, Goes(r, "install"), "db", "replaced")
       ELSE Keep(r, Goes(r, "install")) /\ UNCHANGED disk
  /\ UNCHANGED <<process, counters, history>>

SetAside(r) ==
  /\ req[r].step = "aside"
  /\ \E ok \in Outcome :
       IF ok /\ disk["db"] # NoFile
       THEN Rename(r, Goes(r, "install"), "db", "replaced") /\ UNCHANGED exiting
       ELSE Remove(r, Answers("unchanged"), "incoming") /\ exiting' = TRUE
  /\ UNCHANGED <<up, open, counters, history>>

Install(r) ==
  /\ req[r].step = "install"
  /\ \E ok \in Outcome :
       IF ok /\ disk["incoming"] # NoFile THEN Rename(r, Goes(r, "finish"), "incoming", "db")
       ELSE Keep(r, Goes(r, "putback")) /\ UNCHANGED disk
  /\ UNCHANGED <<process, counters, history>>

(* fault: says so without doing it *)
PutNothingBack(r) ==
  /\ req[r].step = "putback"
  /\ Keep(r, Answers("put back")) /\ exiting' = TRUE
  /\ UNCHANGED <<disk, up, open, counters, history>>

(* fault: takes the process to be able to go on *)
PutBackAndStay(r) ==
  /\ req[r].step = "putback"
  /\ Rename(r, Answers("put back"), "replaced", "db")
  /\ UNCHANGED <<process, counters, history>>

(* The answer says the database was put back, whether or not it was.       *)
PutBack(r) ==
  /\ req[r].step = "putback"
  /\ \E ok \in Outcome :
       IF ok /\ disk["replaced"] # NoFile
       THEN Rename(r, Answers("put back"), "replaced", "db") /\ UNCHANGED stranded
       ELSE Keep(r, Answers("put back")) /\ stranded' = TRUE /\ UNCHANGED disk
  /\ exiting' = TRUE
  /\ UNCHANGED <<up, open, counters, served, before, overlapped>>

(* The write-ahead log and its index went away when the database closed.   *)
Finish(r) ==
  /\ req[r].step = "finish"
  /\ Keep(r, Answers("restored"))
  /\ exiting' = TRUE
  /\ UNCHANGED <<disk, up, open, counters, history>>

Serve(r) ==
  \/ Stage(r) \/ CopyHead(r) \/ CopyTail(r) \/ CopyFails(r) \/ Inspect(r)
  \/ CloseStore(r) \/ DropReplaced(r) \/ SetAside(r) \/ Install(r) \/ PutBack(r)
  \/ Finish(r)

-----------------------------------------------------------------------------
(* The process, under its service manager *)

Down ==
  /\ up' = FALSE /\ open' = FALSE /\ exiting' = FALSE
  /\ req' = [r \in Request |-> Idle]
  /\ UNCHANGED <<disk, served, before, overlapped>>

(* os.Exit, half a second after the answer, whatever else is going on.     *)
Exit == up /\ exiting /\ Down /\ UNCHANGED <<counters, stranded>>

SetAsideBy(r) == req[r].step \in {"install", "putback"}

(* A kill, or an end of the process by any other hand: what was written    *)
(* stays. A power cut, which loses what was not synced, is not modelled.   *)
Crash ==
  /\ up /\ crashes < MaxCrashes
  /\ crashes' = crashes + 1
  /\ stranded' = (stranded \/ \E r \in Request : SetAsideBy(r))
  /\ Down /\ UNCHANGED restores

(* OpenStore makes a database where there is none, or an empty file; a     *)
(* file that is no database it cannot open, and the process ends.          *)
Start ==
  LET c == disk["db"]
      opened == IF c \in {NoFile, Whole("nothing")} THEN Whole("fresh") ELSE c
  IN
  /\ ~up
  /\ opened.head \in Good \cup {"original", "fresh"} /\ opened.tail # "nothing"
  /\ disk' = [disk EXCEPT !["db"] = opened]
  /\ up' = TRUE /\ open' = TRUE
  /\ served' = opened /\ stranded' = FALSE
  /\ UNCHANGED <<exiting, req, counters, before, overlapped>>

Next ==
  \/ \E r \in Request : Accept(r) \/ Serve(r)
  \/ Exit \/ Crash \/ Start

(* Handlers run on once the upload is in, however long the browser takes,  *)
(* and the timer of exitAfterResponse fires.                               *)
Fairness ==
  /\ WF_vars(Exit)
  /\ \A r \in Request : WF_vars(req[r].step # "stage" /\ Serve(r))

Spec == Init /\ [][Next]_vars
FairSpec == Spec /\ Fairness

-----------------------------------------------------------------------------
(* Properties *)

(* Unless two restores meet, the database is at every moment a whole one   *)
(* that was checked, whatever fails and wherever the process stops: no     *)
(* half-copied file is ever at its path.                                   *)
InstalledWasChecked ==
  ~overlapped => disk["db"] \in {NoFile, Whole("original"), Whole("fresh")}
                                 \cup {Whole(u) : u \in Good}

(* Unless two restores meet, what the hub last served is still on disk, at *)
(* its path or set aside, until the hub serves something else.             *)
ServedIsKept ==
  ~overlapped => served \in {disk["db"], disk["replaced"]}

(* What a restore answers is so, unless two have met: after "restored" the *)
(* database is the upload and the one there was is set aside, after any    *)
(* other answer it is the one there was. One exception: "put back" is also *)
(* said when the rename back has failed (its error is dropped,             *)
(* backup.go:121-123); then nothing is at the path and the database there  *)
(* was is still set aside.                                                 *)
AnswersAreTrue ==
  [][\A r \in Request :
       req[r].step # "idle" /\ req'[r].step = "idle" /\ up' /\ ~overlapped
       => CASE req'[r].told = "restored" ->
                 disk'["db"] = Whole(req[r].upload) /\ disk'["replaced"] = before
            [] req'[r].told = "put back" /\ stranded' ->
                 disk'["db"] = NoFile /\ disk'["replaced"] = before
            [] OTHER -> disk'["db"] = before]_vars

(* Unless two restores have met, a hub that starts finds a database. Two   *)
(* exceptions: the process was killed between the two renames, or the      *)
(* rename back failed (stranded). Then the hub starts on an empty one, and *)
(* what it served before is still set aside.                               *)
StartsFindDatabase ==
  [][Start /\ ~overlapped
     => \/ disk["db"] # NoFile
        \/ stranded /\ disk["replaced"] = served]_vars

(* No restore, alone or not, has a handle on the file the store has open:  *)
(* the names move only after Close.                                        *)
LiveFileUntouched ==
  open => \A r \in Request : req[r].at # "db" /\ req[r].step \notin
            {"drop", "aside", "install", "putback", "finish"}

(* "Every path from here ends in os.Exit": a hub whose database a restore  *)
(* has closed does not go on without it.                                   *)
ClosedEndsInExit == (up /\ ~open) ~> ~up

(* "The file is checked before anything is replaced" (i18n.js:119), with   *)
(* no condition on other restores.                                         *)
CheckedBeforeReplaced ==
  disk["db"] \in {NoFile, Whole("original"), Whole("fresh")} \cup {Whole(u) : u \in Good}
=============================================================================
