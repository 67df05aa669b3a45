----------------------------- MODULE SelfUpdate ------------------------------
(***************************************************************************)
(* How an agent replaces its own binary (cmd/agent/main.go, selfupdate.go) *)
(* when the hub asks for it, while the hub and the builds it serves are    *)
(* themselves being upgraded (scripts/install-hub.sh). One agent; its push *)
(* is one step here, Ingest takes it apart.                                *)
(*                                                                         *)
(* A file is the version its binary reports, or Partial when it would not  *)
(* run: cut short, or written by two builds.                               *)
(***************************************************************************)
EXTENDS Naturals

CONSTANTS
  Version,     \* versions of the agent
  None,        \* no version, no file, no process
  Partial,     \* a file that does not run
  Writable,    \* may the agent's unit write beside its binary?
  MaxReleases, MaxRequests, MaxFaults   \* bounds

ASSUME SelfUpdateAssumption ==
  /\ None \notin Version /\ Partial \notin Version /\ None # Partial
  /\ Writable \in BOOLEAN
  /\ MaxReleases \in Nat /\ MaxRequests \in Nat /\ MaxFaults \in Nat

File == Version \cup {None, Partial}

VARIABLES
  hubFile, build,   \* version compiled into the hub on disk, in the one that runs
  published,        \* the file the hub serves to agents
  release,          \* how far the installer is
  updateTo,         \* the update asked for, in the agent's row
  proc,             \* version of the agent that runs
  installed, staged, old,   \* its binary, .srvmon-agent.new, .old
  update,           \* the update it is busy with
  recent,           \* it has tried one in the last five minutes
  releases, requests, faults,
  installs          \* history: updates it has installed

hub == <<hubFile, build, published, release>>
files == <<installed, staged, old>>
vars == <<hub, updateTo, proc, files, update, recent, releases, requests, faults, installs>>

Step == {"idle", "open", "copy", "check", "link", "install", "exit"}
Update == [step : Step, want : Version \cup {None}, opened : File]
Idle == [step |-> "idle", want |-> None, opened |-> None]

TypeOK ==
  /\ hubFile \in Version /\ build \in Version /\ published \in Version \cup {Partial}
  /\ release \in {"no", "hub", "agents", "built"}
  /\ updateTo \in Version \cup {None}
  /\ proc \in Version \cup {None}
  /\ installed \in File \ {None} /\ staged \in File /\ old \in File
  /\ update \in Update
  /\ update.step # "idle" => update.want \in Version /\ proc # None
  /\ recent \in BOOLEAN
  /\ releases \in 0..MaxReleases /\ requests \in 0..MaxRequests /\ faults \in 0..MaxFaults
  /\ installs \in Nat

Init ==
  /\ hubFile \in Version /\ build = hubFile /\ published = hubFile /\ release = "no"
  /\ installed \in Version /\ proc = installed
  /\ staged = None /\ old = None /\ updateTo = None
  /\ update = Idle /\ recent = FALSE
  /\ releases = 0 /\ requests = 0 /\ faults = 0 /\ installs = 0

-----------------------------------------------------------------------------
(* The hub and its installer *)

(* Something goes wrong; the bound is what makes that end.                 *)
Fault == faults < MaxFaults /\ faults' = faults + 1

BuildHub ==
  /\ release = "no" /\ releases < MaxReleases
  /\ hubFile' \in Version
  /\ release' = "hub" /\ releases' = releases + 1
  /\ UNCHANGED <<build, published, updateTo, proc, files, update, recent, requests,
                 faults, installs>>

(* The compiler may write over the file that is being served.              *)
BuildAgents ==
  /\ release = "hub"
  /\ published' = Partial /\ release' = "agents"
  /\ UNCHANGED <<hubFile, build, updateTo, proc, files, update, recent, releases, requests,
                 faults, installs>>

AgentsBuilt ==
  /\ release = "agents"
  /\ published' = hubFile /\ release' = "built"
  /\ UNCHANGED <<hubFile, build, updateTo, proc, files, update, recent, releases, requests,
                 faults, installs>>

(* The installer is cut short, and run again some other day.               *)
ReleaseAbandoned ==
  /\ release # "no" /\ Fault
  /\ release' = "no"
  /\ UNCHANGED <<hubFile, build, published, updateTo, proc, files, update, recent, releases,
                 requests, installs>>

(* By the installer, which ends with it, or by the service manager.        *)
RestartHub ==
  /\ build' = hubFile
  /\ release' = IF release = "built" THEN "no" ELSE release
  /\ UNCHANGED <<hubFile, published, updateTo, proc, files, update, recent, releases,
                 requests, faults, installs>>

(* One server, or all that are out of date: the hub asks for the version   *)
(* it was compiled with, whatever file it serves.                          *)
RequestAgentUpdate ==
  /\ requests < MaxRequests
  /\ updateTo' = build /\ requests' = requests + 1
  /\ UNCHANGED <<hub, proc, files, update, recent, releases, faults, installs>>

-----------------------------------------------------------------------------
(* The agent *)

Begin(want) == [step |-> "open", want |-> want, opened |-> None]

Waits == proc # None /\ update.step = "idle"

(* fault: the hub takes the request as served once it is handed out *)
PushOnce ==
  /\ Waits
  /\ \E answered \in BOOLEAN :
       /\ IF answered THEN UNCHANGED faults ELSE Fault
       /\ updateTo' = None
       /\ IF updateTo \notin {None, proc} /\ answered /\ ~recent
          THEN update' = Begin(updateTo) /\ recent' = TRUE
          ELSE UNCHANGED <<update, recent>>
  /\ UNCHANGED <<hub, proc, files, releases, requests, installs>>

(* The agent reports its version; the hub clears the request if that is    *)
(* the one, and repeats it if not. The answer may be lost.                 *)
Push ==
  /\ Waits
  /\ \E answered \in BOOLEAN :
       /\ IF answered THEN UNCHANGED faults ELSE Fault
       /\ updateTo' = IF updateTo = proc THEN None ELSE updateTo
       /\ IF updateTo \notin {None, proc} /\ answered /\ ~recent
          THEN update' = Begin(updateTo) /\ recent' = TRUE
          ELSE UNCHANGED <<update, recent>>
  /\ UNCHANGED <<hub, proc, files, releases, requests, installs>>

(* updateRetryAfter goes by.                                               *)
Cool ==
  /\ recent
  /\ recent' = FALSE
  /\ UNCHANGED <<hub, updateTo, proc, files, update, releases, requests, faults, installs>>

Goes(step) == update' = [update EXCEPT !.step = step]

(* selfUpdate returns an error; its deferred call removes the staged file. *)
GivesUp == update' = Idle /\ staged' = None /\ UNCHANGED <<installed, old>>

Elsewhere == <<hub, updateTo, proc, recent, releases, requests, installs>>

(* A GET, then the staged file; the hub may be out of reach, and where the *)
(* unit's file system is read-only there is no creating it.                *)
Open ==
  /\ update.step = "open"
  /\ \/ /\ Writable
        /\ update' = [update EXCEPT !.step = "copy", !.opened = published]
        /\ staged' = Partial
        /\ UNCHANGED <<installed, old, faults>>
     \/ Fault /\ GivesUp
     \/ ~Writable /\ GivesUp /\ UNCHANGED faults
  /\ UNCHANGED Elsewhere

(* What was opened, unless the installer writes over it meanwhile.         *)
Copy ==
  /\ update.step = "copy"
  /\ \/ /\ staged' \in IF published = update.opened THEN {published} ELSE {update.opened, Partial}
        /\ Goes("check")
        /\ UNCHANGED <<installed, old, faults>>
     \/ Fault /\ GivesUp
  /\ UNCHANGED Elsewhere

(* fault: takes a download that ended without error for a good one *)
CheckNothing ==
  /\ update.step = "check"
  /\ Goes("link") /\ UNCHANGED <<files, faults, Elsewhere>>

(* fault: whatever runs is installed *)
CheckRuns ==
  /\ update.step = "check"
  /\ IF staged # Partial THEN Goes("link") /\ UNCHANGED <<files, faults>>
     ELSE GivesUp /\ UNCHANGED faults
  /\ UNCHANGED Elsewhere

(* The staged binary is run with -version: it has to run, in ten seconds,  *)
(* and to be the version asked for.                                        *)
Check ==
  /\ update.step = "check"
  /\ \/ staged = update.want /\ Goes("link") /\ UNCHANGED <<files, faults>>
     \/ staged # update.want /\ GivesUp /\ UNCHANGED faults
     \/ Fault /\ GivesUp
  /\ UNCHANGED Elsewhere

(* The link for rolling back by hand: a failure is no reason to stop.      *)
Link ==
  /\ update.step = "link"
  /\ \/ old' = installed /\ UNCHANGED faults
     \/ Fault /\ old' = None
  /\ Goes("install")
  /\ UNCHANGED <<installed, staged, Elsewhere>>

Install ==
  /\ update.step = "install"
  /\ \/ /\ installed' = staged /\ staged' = None
        /\ installs' = installs + 1
        /\ Goes("exit")
        /\ UNCHANGED <<old, faults>>
     \/ Fault /\ GivesUp /\ UNCHANGED installs
  /\ UNCHANGED <<hub, updateTo, proc, recent, releases, requests>>

Down == proc' = None /\ update' = Idle /\ recent' = FALSE

(* run returns, and with it the process.                                   *)
Exit ==
  /\ update.step = "exit" /\ Down
  /\ UNCHANGED <<hub, updateTo, files, releases, requests, faults, installs>>

(* At any moment, a staged file is left where it is.                       *)
Kill ==
  /\ proc # None /\ Fault /\ Down
  /\ UNCHANGED <<hub, updateTo, files, releases, requests, installs>>

(* systemd starts what is there, if that runs (Restart=always).            *)
Start ==
  /\ proc = None /\ installed \in Version
  /\ proc' = installed
  /\ UNCHANGED <<hub, updateTo, files, update, recent, releases, requests, faults, installs>>

SelfUpdateSteps == Open \/ Copy \/ Check \/ Link \/ Install \/ Exit

Next ==
  \/ BuildHub \/ BuildAgents \/ AgentsBuilt \/ ReleaseAbandoned \/ RestartHub
  \/ RequestAgentUpdate
  \/ Push \/ Cool \/ SelfUpdateSteps \/ Kill \/ Start

(* A ticker, a clock, a function that goes on, and Restart=always.         *)
Fairness == WF_vars(Push) /\ WF_vars(Cool) /\ WF_vars(SelfUpdateSteps) /\ WF_vars(Start)

Spec == Init /\ [][Next]_vars
FairSpec == Spec /\ Fairness

-----------------------------------------------------------------------------
(* Properties *)

(* "it proves the file is intact and that it actually executes": wherever  *)
(* the agent is killed and whatever the hub's installer does to the file   *)
(* it serves, the binary that systemd starts next is one that runs.        *)
InstalledRuns == installed \in Version

(* What is installed is the version the hub asked this agent for, though   *)
(* the file it serves and the version it asks for change separately.       *)
OnlyAskedInstalled ==
  [][installs' # installs \/ installed' # installed => installed' = update.want]_vars

(* "a hub serving a broken build", or another than it asks for, does not   *)
(* have the agent restart over and over: one install for a request at most.*)
OneRestartPerRequest == installs <= requests

Settled(v) ==
  /\ releases = MaxReleases /\ release = "no"
  /\ hubFile = v /\ build = v /\ published = v

(* "an update that failed halfway retries instead of going quiet": once    *)
(* the hub serves what it asks for and faults stop, the agent gets there   *)
(* and the request is cleared.                                             *)
UpdateArrives ==
  \A v \in Version : (Settled(v) /\ updateTo = v) ~> (installed = v /\ updateTo = None)
=============================================================================
