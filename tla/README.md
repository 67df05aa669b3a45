# A TLA+ model of srvmon

srvmon is a small server monitor: an *agent* on every monitored host pushes a
snapshot of its usage every two seconds to a *hub*, which keeps history in one
SQLite file, raises alerts, and shows a dashboard to its operators. This
directory models the hub's core in TLA+, checks it with TLC on small instances
and proves the properties that matter most with TLAPS for every instance.

All line numbers refer to the sources at the commit beside which this directory
is kept.

## The system

| component | state it keeps | operations | who calls it |
|---|---|---|---|
| push pipeline, `internal/hub/ingest.go` | `lastPersist`: when a history row was last let through, per server | `handleAgentPush`, `maybePersist` | one goroutine per request of an agent |
| alert engine, `alerts.go` | per server: streak and firing flag per usage kind, offline flag, under one mutex; in memory only | `observe` (each push), `checkOffline` (every 15 s), `forget` (delete) | push goroutines, its own timer, the operator |
| live cache, `live.go` | newest snapshot and the last 90 points per server; in memory only | `Put`, `Get`, `Remove` | pushes, dashboard, delete |
| store, `store.go`, `auth.go`, `notes.go` | the tables servers, samples, alert_events, settings, users, sessions, notes; one connection | one statement per call, no transactions | everybody |
| operator API, `api.go`, `http.go` | none | create, rename, delete a server, rotate its token, ask its agent to update, history, dashboard | the page |
| settings and login, `settings.go`, `auth.go` | the login limiter's attempts | save settings, change account, login, logout | the page |
| event stream, `events.go`, `hub.go` | the set of subscribed channels | subscribe, broadcast (skips a full channel), unsubscribe | `broadcastLoop`, one goroutine per open tab |
| maintenance, `hub.go` | none | prune sessions, samples, events every hour | its own timer |
| backup and restore, `backup.go` | the database file and its `.incoming` and `.replaced` neighbours | `VACUUM INTO`; check, close, rename, rename, exit | the operator |
| notes, `notes.go`, `sanitize.go` | a note per server | save (sanitized), search | the page |
| agent, `cmd/agent` | interval, time of the last update attempt, its own binary | push, self-update | its ticker |
| metrics, `internal/metrics` | the previous CPU and network counters | `Collect` | the agent |
| dashboard page, `web/assets/*.js` | live series, current view, note draft | stream, polling, navigation, autosave | the browser |

They interact by calls and by shared state. A push goes through the live cache,
the servers table, the samples table, the alert engine and the alert_events
table, one after the other, with nothing held from one to the next; the offline
check, the operator's requests and other pushes of the same server come in
between. The agent waits for the answer, at most 15 seconds. A restart of the
hub keeps the tables and loses the rest.

What is hard here, and what makes each part correct:

- **Alerts** must be announced on transitions only, fire on *sustained* use,
  clear without flapping, find out a silence and its end; two goroutines move
  the same state, settings change under way, a restart forgets everything.
- **The push pipeline** reads a server's row once and works with that copy: the
  row may be changed, or deleted, before the last step. History has to stay at
  one row per `SampleEvery` seconds although pushes overlap; `last_seen` must not
  go back; an operator's request to update must not get lost.
- **Deleting** a server is four steps in three places and must leave nothing.
- **Restoring** swaps a file under a running process; a crash, a failing rename
  or a second restore may come between any two steps.
- **Self-update** replaces the agent's own binary and must neither strand the
  host nor loop.
- **Sessions**: a change of password ends all others, while logins go on.
- **The stream and the page**: payloads skipped, repeated, late; answers to old
  requests arriving last.

- **Notes**: an editor saves on its own, by timer and on leaving it, while
  answers are late, fail, or get lost after the hub did what was asked, and while
  another tab saves too.
- **Metrics**: counters that start again, interfaces that come and go, a lookup
  that must be neither repeated at every tick nor trusted for ever.

`PROJECT.json` lists each hazard at its line with the properties aimed at it, or
with the reason why none is.

## Modules

| module | what it is |
|---|---|
| `AlertRules` | what `alerts.go` decides about one server: state, next state and notices for a snapshot or a silence, as operators |
| `AlertToggle` | abstract: an alert that is down can only be announced firing, one that is up only cleared |
| `AlertEngine` | the engine at the grain of its mutex: whole passes, any settings changes, deletes, restarts; liveness |
| `Ingest` | the push pipeline step by step, the offline check, the operator and restarts around it; uses `AlertRules` under the mutex |
| `Restore` | `handleRestore` call by call, several requests, kills and restarts; liveness |
| `SelfUpdate` | an agent replacing its binary while the hub and its builds are upgraded; liveness |
| `Accounts` | login, the login limiter, sessions, change of account and the `-admin` command, a statement at a time |
| `Stream` | pushes into cache and table, payloads assembled from both, the broadcaster and its subscribers, one tab with its stream and its polling; liveness |
| `Sanitizer` | `SanitizeNote` and `NoteText` as operators on the forest the HTML parser finds (recursive, for TLC only) |
| `Notes` | a server's note, the editors open on it, saves whose answers are late or lost, and the search; what the sanitizer does is a parameter |
| `Collector` | the agent's throughput, processor use and outside address, read from a host that changes under it |
| `MCAlertEngine`, `MCIngest`, `MCAccounts`, `MCCollector` | values and symmetry for TLC (`Restore`, `SelfUpdate` and `Stream` need none) |
| `MCNotes` | gives `Notes` the strings that come of three forests and what `Sanitizer` makes of them, and checks `Sanitizer` itself |
| `AlertEngineProofs`, `IngestProofs`, `RestoreProofs`, `SelfUpdateProofs`, `AccountsProofs`, `StreamProofs`, `NotesProofs`, `CollectorProofs` | theorems about the module of that name |

`AlertToggle` is the abstract specification of the alerts. `Ingest` instantiates it
(`Toggle == INSTANCE AlertToggle WITH ...`), checks its steps as a property and is
proved to implement it: what its goroutines do one statement at a time is, seen
from outside, an alert going up and down. In `AlertEngine`, where a pass is one
step, that would say no more than `NoticesTellTheState` does.

### How they correspond to the code

*AlertRules* translates the two locked sections. `Observed` and
`ObserveNotices` are lines 78-102 of `alerts.go`: what becomes of the entry, and
what is put on the local list `events`. Percentages are natural numbers: all
that is done to them is to compare, `>= threshold` and `< threshold - 5`.
`NextStreak` saturates at `StreakBound`; a saturated streak compares with every
`sustain` up to that bound as the exact count does. The operators marked
*fault:* are mistakes someone could make in the definition after them; nothing
uses them but the mutation runs.

*AlertEngine* has an action for each way into the engine. `Observe` and `Ignore`
are a push with alerts on and off, `CheckOffline` one turn of the loop,
`Delete` the operator's delete up to `forget`, `Restart` a new process. What the
engine is fed is left open: `usage` is what the host would report, `silent`
that `now - last_seen` is past `offlineAfter`. A deleted server stays in `late`
as long as a request that looked it up earlier may still reach the engine.

*Ingest* takes a step to be what happens between two points where another
goroutine can come in: one store statement or one locked section. `push[s][h]`
is the push goroutine `h` serves: its next step, its `now`, the `update_to` and
version it read, the notices still to send. The steps follow the code:
`Arrive` (lookup of the row), `PutLive`, `Touch`, `Persist` (the section under
`persistMu`), `Insert`, `Consult` (observe before its lock), `Judge` (under it),
`Fire` once per notice, `Reply`. `checkOffline` is `WatchStart`, `WatchList`,
`WatchStamp`, then `WatchCheck` and `WatchFire` per server. `handleDeleteServer`
is `DeleteSamples`, `DeleteRow` (or `DeleteFails`), `RemoveLive`, `Forget`. The
writes of the store that are in `Failing` may fail: the handlers log that and go on.
Agents wait for their answer unless `GivesUp` is TRUE. A restart drops
everything in memory at whatever step it is.

The variables `tally`, `run`, `missed`, `kept`, `overlapped`, `gaveUp` (and
`watch.touched`) are history: no guard reads them, properties do.

*Restore* takes a step to be a system call of `handleRestore`, in the code's
order: `Stage` truncates `.incoming`, `CopyHead` and `CopyTail` write it,
`Inspect` is `InspectBackup`, then `CloseStore`, `DropReplaced`, `SetAside`,
`Install` (`PutBack` when that fails), `Finish`, and `Exit` half a second later.
A file has two parts, enough to tell a whole database from one being written. A
request keeps its handle when the file it writes is renamed. `Accept` needs an
open store, because the session is looked up in it. `Start` is the next process:
it makes a database where there is none. `restores` and `crashes` are bounds;
`served`, `before`, `overlapped` and `stranded` are history, the last one saying that
since the last start the database was set aside and not brought back: the process
was killed between the two renames, or the rename back failed.

*SelfUpdate* models one agent. A file is the version its binary reports, or
`Partial`. `Push` is a whole exchange and its answer, which may be lost; `Open`
and `Copy` are `download`, `Check` is `versionOf`, then `Link`, `Install` and
`Exit`; every error path is `GivesUp`, with the deferred removal of the staged
file. `BuildHub`, `BuildAgents`, `AgentsBuilt` and `RestartHub` are what
`install-hub.sh` does, in its order: the served file changes before the hub that
names the version does. `Writable` says whether the agent's unit lets it write
beside its binary. `installs` is history.

*Accounts* counts an operator's password: it is the number of times
`SetCredentials` was run for it. A request's `with` is the password its check was
made against. `Login` is `blocked`, `Lookup` the read of the row with the
comparison that follows, then `Fail`, or `CreateSession` and `Reset`; `Enter` is
`requireAuth`, `Check`, `SetAccount` and `DeleteAccountSessions` are
`handleAccount`. Of the requests of a signed-in operator only that one is followed
beyond its entrance. `ToolSets` and `ToolDeletes` are `setAdmin`, which runs in
another process on the same file. A deletion that fails is ignored, as in the
code. `late` (a login between comparison and session while the operator's
sessions were deleted) and `uncleared` (a deletion failed or was cut off) are
history. `settings.go:155` says that every other cookie dies with the old password;
`SessionsMatchPassword` says so too, with these two exceptions, which the code
has.

*Stream* follows one server and one tab. A payload is assembled in three steps,
as in `dashboard` (`api.go:64-113`): the time is taken (`Connect`, `LoopTick` and
`Ask` start a build), `List` reads the row, `Get` the live cache. A snapshot is
the second it arrived in. `Find`, `Put` and `Touch` are `handleAgentPush` up to
`TouchServer`; `DeleteRow` and `RemoveLive` the delete. `Subscribe` comes after the
first message, as in `handleStream`. `Broadcast` skips a full channel. On the page
`ApplyPayload` and `TrackSeries` are the functions of that name, `GoQuiet` is three
ticks without a payload, `Ask`, `Answer` and `AskFails` the polling that follows
(its stale answers may come after newer payloads). `mute` is a proxy that buffers
an event stream: the connection stands and nothing comes. A connection the tab has
lost goes on in the hub until its context is done. `Drop` puts the tab back where
`EventSource` connects again; that a browser does not after an answer other than
200 only leaves it to poll, which `PageCatchesUp` allows for.

*Sanitizer* takes a note to be the forest `html.ParseFragment` finds. `WriteClean`
and `WriteChildren` write a forest instead of a string, `Reparsed` joins texts
that have come to lie side by side, as parsing the written string again does.
`SafeURL` looks at what `safeURL` looks at: blank, control characters, what is
before the first colon. Texts are sequences of bytes, with a rune of two bytes
and white space among them, because `TrimSpace`, `Fields` and `excerpt` depend on
them.

*Notes* takes what the sanitizer, lowering, and a browser make of a string as
constants, so that it can be proved about without knowing them. `Mount`, `GetNote`,
`Loaded` and `LoadFails` are the request for the note; `Type` is the editor's
`onChange`; `SaveNow` is `save()` up to its `await`, called by `TimerFires`, `Blur`
and `Click`; `Answered` and `Told` are what comes after it. `SetNote` is the hub's
part. A request that fails in the browser may not have reached the hub, may have
been stored (`AnswerLost` after `SetNote`) or may be stored later (`Orphan`).
The editors are those one tab has one after another. `page` is the one whose page
is mounted, and `Leave` takes it away: the editor's timer and requests go on without
it. `setText` writes in the label of whatever page is there (`Says`), so `label` is
the editor whose word stands in it, which may be one that was left; an editor of
another server's note can do the same (`Stray`). `said` is what each has said last.
`orderly` and `deaf` are history.

The search looks for the match in the lowered text and cuts the excerpt from the
other, as in the code. `Lower` goes rune by rune (`LowerAssumption`) and may change
lengths. Where the cut would begin beyond the end (`OutOfRange`) the code panics, and
`Hits` is empty: `net/http` ends that request, and the other notes are not shown
either.

*Collector* is `Collect` under its mutex (one action), with a host around it whose
interfaces, counters, processor times and address change. `Rate`, `Clamp` and
`Smoothed` are the arithmetic of `sampleNetwork` and `sampleCPU`; `RefreshPublicIP`
is the lookup of one address family. Without the comparison that guards it, the
difference of two `uint64` is taken modulo `Word`, which stands for 2^64.

## What is checked

| run | model | distinct states | shows |
|---|---|---|---|
| `alert_engine` | `AlertEngine`, one server, one usage, sustain 1 or 3, one restart | 45,072 | alerts fire exactly on sustained use and clear without flapping; the notices decided add up to the state; sustained use, recovery, silence and return are all found out (liveness) |
| `ingest_alerts` | `Ingest`, pushes one at a time (the agent waits for its answer), the offline check, a delete that may fail halfway, the alert switch, one restart | 1,355,834 | events alternate, an offline alert is true when raised of a server not touched meanwhile, announcements are transitions, a delete leaves nothing unless something had hold of the server |
| `ingest_store` | `Ingest`, agents that give up, so that two pushes of a server overlap, failing writes, update requests, a hub that is upgraded | 917,808 | history rows are spaced, `last_seen` goes back only when an agent gave up, an update request is lost in no way but the one named |
| `restore` | `Restore`, up to three restores by two requests, failing system calls, a kill | 12,755 | unless two restores meet: no unchecked file is installed, the old database is kept, a start finds a database and answers are true, with the exceptions of a kill between the renames and of a rename back that failed. Met or not: the open file is never touched, a closed store ends in an exit (liveness) |
| `self_update` | `SelfUpdate`, two versions, two releases, two requests, two faults | 46,508 | the binary always runs, is the one asked for, at most one install for a request, the update arrives (liveness) |
| `accounts` | `Accounts`, two requests, one operator, limit 1, two changes, two sessions, failing statements, one restart | 994,051 | sessions die with their password, except the two cases named; failures in a window stay under limit plus requests at once |
| `stream` | `Stream`, two connections, one poll and the broadcaster, window 1, channels of one, two events | 351,614 | no point of an online server is older than the silence that makes it offline; the page catches up whatever was lost, skipped or held back, and open streams follow although others lag (liveness) |
| `notes` | `MCNotes`, one editor whose page may be left, two saves at once, another tab saving | 765,034 | what the page's own editor calls "saved" is stored, nothing is taken from under the caret, a silent save has nothing to send, a hit is whole runes and holds the match unless lowering moves that further than the radius |
| `collector` | `MCCollector`, two interfaces (one virtual), counters of four, two addresses, three events, clock to 4 | 964,656 | rates never exceed what passed and are exact when nothing was lost, the processor's tile does not spike, an address is recent |
| `restore_overlap`, `shipped_unit`, `notes_retry` | `Restore`, `SelfUpdate`, `MCNotes` | | disagreements, see below; each checks one property and fails |

`MCNotes` also has an ASSUME, `SanitizerHolds`, that TLC evaluates before both runs
of `Notes`: on every forest of one tree of depth two over six kinds of leaves, six
tags and eight lists of attributes, and on every such tree beside a leaf, what
`SanitizeNote` returns holds only allowed tags and attributes, cleaning it again
changes nothing, and the search sees the same text in it as in the original. The
assumption `Notes` makes of the sanitizer, `SpellingAssumption`, is evaluated there
too, for the strings of the run.

Bounds. One server is enough for every property but the order of the events:
servers share only the alert_events table and the passes of the timer, and the
proofs cover any number. Two goroutines give every overlap of two pushes; a
third adds nothing a property distinguishes, and again the proofs have no such
bound. `SampleEvery = 2`, `OfflineAfter = 1` and a clock up to 4 let rows fall
due, not fall due and fall due again, and a server go offline and return.
Where agents give up (`ingest_store`) nothing is deleted, and where servers are
deleted (`ingest_alerts`) agents wait: together they are more than a run can hold, and
the proofs have both. `MaxEvents` stops new pushes once the events table is full: it
bounds how often an alert goes up and down. Readings are one under, one within five
points of and one over the threshold. `MCIngest` uses goroutines as a symmetry set; no
liveness is checked with it.

`Restore` has two requests at once, which is every way two can meet, and a third
one after an exit or a kill, so that a restore also starts from what an earlier
one left. `SelfUpdate` has two versions, so that "the one asked for", "the one
served" and "the one that runs" can be any two of them, and releases enough for
an upgrade and a return.

`Accounts` has a limit of one failure in a window of two ticks, so that logins let
in together pass it, failures leave the window and a later login is refused.
Sessions live one tick and the clock runs to two: they expire, are found expired
and pruned. Two changes of password let one come between the steps of another.
One operator and one client are enough because nothing is shared between two;
the proofs have no such bound.

`Stream` has `MaxEvents = 2` for seconds, pushes, deletes, failures, lost
connections and restarts together: enough for each pair of them at any step of
the payloads under way, and steps of goroutines and of the page are not counted.
`OfflineAfter = 0`, so that a server is offline a second after its last push. Every
property was first seen violated by a mutant within these bounds; the proof of
`PointsAreFresh` has none. `Notes` has two strings to type, one of them changed by
the sanitizer and spelled differently by a browser, and two saves at once, so that
they overtake each other. It has one editor, as a second takes TLC past the time a
run should take: to the one on the page, another that was left is a save from
elsewhere (`SavedElsewhere`) and a word in its label (`Stray`), and the run has both;
the theorems have any number. Its radius is one byte in place of 90, and each of its
texts has a letter that lowering makes shorter, or two it makes longer: in the first
a match is found after the shift, in the other it lies beyond the end of the note
and the search fails, which is the exception the property names. In `Collector` a
counter starts again after four bytes, the address is looked up every two ticks, and three events let an interface
go away and come back between two readings.

Deadlock is not checked, except in `self_update`: bounded clocks and counters
stop the other runs in the end, and an idle hub is a legitimate state. (In
`Restore` a mixed file can also keep the next process from starting.)

Fairness is assumed only for the liveness properties, and is weak throughout.
Nothing is assumed about operators, kills or the host.

- `AlertEngine`: a running agent pushes again and again because its ticker goes
  on (`cmd/agent`, `run`); `checkOffline` comes round because of its own ticker
  (`alerts.go:111`); `TimeRunsOut` happens because time passes.
- `Restore`: a handler whose upload is in goes on to its end, and the timer of
  `exitAfterResponse` fires. An upload may take for ever.
- `SelfUpdate`: the ticker, the five minutes between tries, a function that goes
  on, and systemd's `Restart=always`. Faults are bounded in number (`MaxFaults`):
  an update arrives once they stop, and nothing arrives over a network that is
  always down.
- `Stream`: the goroutine serving a connection goes on, and what it writes to a tab
  that reads gets there (`Serve`); `broadcastLoop` has a ticker, the page has timers
  (`GoQuiet`, `Ask`) and a poll is answered. A peer that does not read holds its
  goroutine up for as long as it likes, because the server has no write timeout;
  nobody has to connect, to push, or to notice that a connection is lost.

### Disagreements between the code and what it says

Three runs are expected to fail; each shows an execution in which the code does
something else than a comment or a text in it says. `PROJECT.json` quotes the
lines.

- `restore_overlap`: all restores stage at one name, so a second upload can
  replace the file between the first one's check and its installation.
- `shipped_unit`: the unit that `install-agent.sh` writes protects `/usr`, where
  it puts the agent's binary, so no self-update can succeed under it.
- `notes_retry`: a save whose answer is lost after it was stored makes the editor
  take the older text for the hub's; typing that text again is not sent.

Others have no run of their own. They show in how a property has to be worded:

- Pushes ignored while alerts are switched off do not break a streak, so the
  pushes that made an alert fire need not be consecutive (`FiresOnSustainedUse`
  speaks of the pushes that were judged).
- Events are inserted after the engine's unlock, so the newest id is not always
  the newest event (`UsageEventsAlternate` speaks of one alert).
- A push that overlaps with a delete leaves history, and an entry in the live
  cache, of a server that is gone (`DeletedLeavesNothing` says this is the only
  way).
- Clearing an update request is decided by an old copy of the row, and clears what
  is there now. If the hub is upgraded and the operator asks again while a push is
  served that reports the older request's version, the newer one is lost
  (`RequestOutlivesPushes` names this exception; everything else it excludes).
- When the upload cannot be installed, the error of the rename back is dropped
  (`backup.go:121`) and the answer is "the previous database was put back" whether it
  was or not. `AnswersAreTrue` names this as its exception, and `StartsFindDatabase`
  says what the hub then finds: no database, and the previous one still set aside.
- An editor that was left writes in the label of the page that came after it
  (`app.js:855`, `858`, `870`): "saved" can stand over a note whose own save has
  failed or is not out yet, of another server even. `SavedIsStored` speaks of what
  the page's own editor has said.
- A search "returns an excerpt around the first hit, so the results say why they
  matched" (`notes.go:72-73`). The place of the hit is found in the lowered text and
  the excerpt cut from the other: where letters before it get shorter or longer when
  lowered (U+0130, U+023A), by more than the radius together, the excerpt shows
  something else, or begins beyond the end of the note, and the search of all notes
  ends in a panic (`notes.go:108`). `HitsShowTheMatch` holds of all other notes.
- What is typed and left without a blur is saved by the timer; but if the answer to
  an earlier save comes first, with a text the sanitizer has changed, it takes the
  place of what was typed, because nobody has the focus any more (`TypingIsKept`
  speaks of mounted pages).
- An average of exactly 0 counts as none (`metrics.go:216`): a host that was idle
  shows its next reading unsmoothed (`TilesDoNotSpike` excepts it).
- Text typed before the note has come, or after loading it failed, is saved over
  the note; two saves of one editor at once can be stored in either order, and
  the answer to the earlier one can put its text on the screen
  (`orderly` excepts these).
- An untouched note that holds a quote is sent again when its editor is left,
  because the hub and the browser spell it differently, and then overwrites what
  another tab has saved. "saved" may stand there while a timer is running.
- A late answer of a poll can put older points at the end of a series, and a late
  answer of the history request is drawn whatever is selected by then
  (`app.js:648`).
- `NoteText` puts no space after `hr` and `blockquote`, so words on either side
  are found as one.
- The lookup of the outside address can hold up `Collect` for 16 seconds.

## What is proved

| theorem | property | for every |
|---|---|---|
| `AlertEngineProofs!TypeCorrect`, `NoticesMatch`, `StreaksAreReal` | `TypeOK`, `NoticesTellTheState`, `StreakIsReal` | number of servers and usage kinds, readings, thresholds, sustain |
| `AlertEngineProofs!FiresWhenSustained` | `FiresOnSustainedUse` | the same |
| `IngestProofs!TypeCorrect` | `TypeOK` | number of servers, goroutines, clock, faults, restarts |
| `IngestProofs!SpacingHolds`, `LastSeenHolds`, `AlarmHolds` | `SamplesSpaced`, `LastSeenAdvances`, `AlarmIsCurrent` | the same |
| `IngestProofs!PipelineImplementsToggle` | `OnlyTransitionsAnnounced`: the pipeline implements `AlertToggle` | the same |
| `IngestProofs!EventsAlternate` | `UsageEventsAlternate` | the same, while no insert of an event fails (`"event" \notin Failing`) |
| `IngestProofs!DeletedLeaveNothing` | `DeletedLeavesNothing` | the same |
| `IngestProofs!RequestsOutlivePushes` | `RequestOutlivesPushes` | the same, upgrades of the hub included |
| `RestoreProofs!TypeCorrect`, `LiveFileSafe` | `TypeOK`, `LiveFileUntouched` | number of requests, overlapping or not |
| `RestoreProofs!OnlyCheckedInstalled`, `ReplacedIsKept`, `DatabaseFound`, `AnswersHold` | `InstalledWasChecked`, `ServedIsKept`, `StartsFindDatabase`, `AnswersAreTrue` | number of restores, failures and kills |
| `SelfUpdateProofs!TypeCorrect`, `BinaryRuns`, `InstallsAreAsked`, `NoRestartLoop` | `TypeOK`, `InstalledRuns`, `OnlyAskedInstalled`, `OneRestartPerRequest` | versions, releases, requests, faults |
| `AccountsProofs!TypeCorrect`, `CookiesDie`, `FewGuesses` | `TypeOK`, `SessionsMatchPassword`, `GuessesBounded` | operators, clients, requests at once, limit, window, restarts |
| `StreamProofs!TypeCorrect`, `FreshPoints` | `TypeOK`, `PointsAreFresh` | connections, polls, pushes, window, channel, deletes, restarts |
| `NotesProofs!TypeCorrect`, `SavedNotes`, `KeptTyping`, `QuietSaves` | `TypeOK`, `SavedIsStored`, `TypingIsKept`, `QuietIsStored` | editors on pages one after another, saves at once, strings, sanitizer and browser that satisfy `SpellingAssumption` |
| `NotesProofs!HitsHold` | `HitsShowTheMatch` | notes and queries that are texts (`TextAssumption`), any lowering by rune (`LowerAssumption`), radius |
| `CollectorProofs!TypeCorrect`, `RatesHold` | `TypeOK`, `RatesAreReal` | finite set of interfaces, width of the counters, traffic |
| `CollectorProofs!TilesHold`, `AddressHolds` | `TilesDoNotSpike`, `AddressIsRecent` | processor times, addresses, time to live |

`tlapm` checks every proof. They assume what the ASSUMEs of the modules say of
the constants, which is only their types, that `"offline"` is not a usage
kind, that `StreakBound`, `SampleEvery` and `MaxVersion` are positive, and that the
values standing for nothing (`NoHandler`, `NoFile`, `None`, `Partial`, `NoEditor`) are
not goroutines, files, versions or editors. A host has finitely many interfaces
(`CollectorAssumption`). `NotesProofs` also uses that cleaning a note twice, or
reading back what a browser made of it, is the same note (`SpellingAssumption`),
that notes and queries are valid UTF-8 (`TextAssumption`), and that a text is lowered
rune by rune, to whatever length (`LowerAssumption`). TLC evaluates these
in every run. `TypeOK` of `AlertEngine`, `Ingest`, `Restore`, `SelfUpdate`,
`Accounts` and `Notes` is proved and no longer among the runs' invariants.

Arguments:

- *AlertEngine.* `IInv` is `TypeOK`, `NoticesTellTheState` and `StreakIsReal`, and
  it is inductive: the tally moves with the entry (`TallyFollows`),
  because a notice is queued exactly when a flag changes.
- *Ingest, types.* One lemma per group of actions.
- *Ingest, causes.* `StepCauses` lists, for one server, which actions can have
  changed which part of its state. It is proved once; each of the following
  invariants then looks only at the actions that concern it.
- *SamplesSpaced* is not inductive. `SpacingOf` adds what the rows still to be
  inserted look like: their times are spaced from each other and from the rows
  written, and none is later than `lastPersist`. That a goroutine can be
  arbitrarily late with its insert is what makes the strengthening necessary.
- *LastSeenAdvances* needs `SeenOf`: an agent that never gave up has at most one
  push in flight, and its time is not before the row's.
- *AlarmIsCurrent* needs `WatchInv`: the copies the pass works with are still
  those of the table, except for servers touched or deleted since.
- *The pipeline's refinement of `AlertToggle`* needs `TallyInv`: whatever is still
  waiting to be sent by any goroutine, the notices decided so far add up to the
  engine's flags, because both change in the same locked section.
- *UsageEventsAlternate* compares the table, which grows after the unlock, with the
  engine, which moves under it. `TellingInv`: for a server whose agent never let
  two pushes overlap, what the newest event of this run of the hub says and what
  the engine holds differ by the notice that the one push under way `Owed`, and by
  nothing else. `PastInv` says that events carry no later run than the present one
  and are about servers that have been created. A notice is judged only when none is
  owed, so the next event is of the other kind. Of a deleted server nothing is said:
  its entry is forgotten while its pushes may still be under way.
- *DeletedLeavesNothing* needs `GoneInv`: once a row is gone, either something had
  hold of the server when it went, or no request is under way and what is left
  is exactly what the delete has not come to yet.
- *RequestOutlivesPushes* needs `AskedInv`, which says of each push what the copy it
  read, the row, the build and the agent can be to one another: while the row asks
  for an older version than the hub's own, every push under way has read just that
  request; a push that has read a request for the hub's own version knows of no older
  one; and a push that reports what it has read a request for comes from an agent
  that runs it. It holds across upgrades because builds only grow and the pushes of an
  older hub end with it. What is left when a request is cleared is the exception.
- *Restore* uses two invariants. `BaseInv` holds whatever overlaps: handles are
  held by requests that copy, on files that are there, and nobody moves a name
  while the store is open. `LoneInv` holds as long as no two restores have met:
  one request is busy at most, and `Staged` and `Whereabouts` say for each of its
  steps what `.incoming` holds and where the database is; between processes, that it
  is at its path unless `stranded`.
- *SelfUpdate.* `Owed` counts the installs that may still come from the update
  under way and from a request not yet met; `installs + Owed <= requests` is
  inductive, and it is `Check` comparing versions that makes it so: a build of
  another version would leave the request open after the restart.
- *Accounts.* `SessionInv` explains not only the sessions but also the logins that
  have compared a password and not yet made theirs, in the same words, so that
  `CreateSession` carries the explanation over. `LimiterInv` adds to the failures
  in the window the logins that were let in and may still fail: letting one in
  needs fewer failures than the limit, and a failure takes one of them away.
- *Stream.* Two facts carry `FreshPoints`. `CacheInv`: no row has seen a push that
  the live cache, if it has an entry at all, has not, because a push enters the
  cache before it touches the row and a restart or a delete leaves no entry.
  `BuildInv`: a payload that has read the row and not yet the cache is judged by
  what it will find there, now or later. `Sound` then travels with a payload
  through channels and requests to the page. Its types (`TypeInv`) add that a
  listed payload has a time and that no counter outruns the events.
- *Notes.* `Good` says, of one editor's state, its requests, the stored note and
  whether it was told of a failure that was none, what `SavedIsStored` and
  `QuietIsStored` leave out: at most one request is out, what it would go back to
  on failure is what the hub has, what it was answered is what the hub stored. It
  is an operator on values, so a step of one editor is one application of it and
  the others keep theirs (`OtherGood`).
- *Notes, pages.* `PageInv`: who has the focus is on the mounted page, and there a
  timer runs only under the focus, so that a label the page's own editor has written
  is about what that editor shows. What an editor does after it was left changes
  nothing of the others but the label (`PageStep`).
- *HitsShowTheMatch* is true of every state, so it needs no invariant but the
  types. The work is in the search itself: `Index`, `Least` and `Greatest` choose, and
  that there is something to choose comes from the well-foundedness of `<`
  (`LeastIsLeast`). `ExcerptIsPart` says that a cut begins and ends at boundaries of
  runes, whatever the offset it started from, and `PartIsText` that what lies between
  two boundaries is a text. That the match is in it needs how far lowering has moved
  the two ends of the excerpt (`Near`): by no more than the radius leaves the lowered
  excerpt around the match (`SpanShows`, `InTheMiddle`), and leaves the place inside
  the note, so that the search does not fail.
- *Collector.* The total of the counters is the number of bytes they stand for, a
  cardinality: a byte more or an interface less changes it by what the library's
  theorems on finite sets say (`TotalMoves`). `NetInv`: the total is at most what it
  was at the last reading and what moved since, and just that unless a counter was
  lost. `ShownInv` says that what is shown is the average, and a percentage, which
  `Average` keeps within 30 points of the next. `LookupInv`: an address the agent
  holds was the host's when it asked.

The lemmas about `AlertRules` stand at the head of `AlertEngineProofs` and again of
`IngestProofs`, each of which needs them.

Not proved, only model-checked: the liveness properties (`SustainedUseFires`,
`RecoveredUseClears`, `SilenceIsNoticed`, `ReturnIsNoticed`, `ClosedEndsInExit`,
`UpdateArrives`, `PageCatchesUp`, `OpenStreamsFollow`), because fairness is out of
the prover's reach; `HoveringDoesNotFlap`, which needs no fairness but an induction
over the restarts that are left, of a temporal formula; and what `SanitizerHolds`
says of the sanitizer, which is recursive. Every other property of the passing runs
is a theorem.

## What is not modelled

Telegram, static files, formatting and i18n, CSS, the SQL schema and most of the
shell scripts: they keep no state the properties speak of, or are wording. The
wall clock of `Ingest` and `Stream` does not step back. `Stream` takes the time of a
push and its entry in the live cache in one step (`ingest.go:47-48`): two pushes of
one server that overlap and swap between those lines leave a row newer than the cache
by what lies between their times. An event's message and
values are left out, as are the values of a sample: a snapshot is when it came.
`Restore` knows kills but no power cuts, which may lose what was not synced.
In `Accounts` a username is part of the account and two never clash. Re-running
`install-agent.sh` during a self-update is left out of `SelfUpdate`. `Stream` has
one server, so the order and the filtering of many on the page are left out, and
`summary.online` beside the views. `Sanitizer` begins where the HTML parser ends:
how that repairs markup, and what a browser would make of the same string, is not
in the source. `Collector` leaves out the probes that are only copied. Of the
operator API, editing a server, rotating its token and history are one statement
each that nothing else modelled depends on; pruning of samples and events
likewise. `PROJECT.json` has a line for each component.

## What could come next

1. `History`'s buckets and the page's detail view, with answers of several
   requests arriving in any order.
2. Edits of one server from two tabs (`handleUpdateServer`, a read before a write).
3. Spacing of history rows across restarts, a wall clock that steps back.
4. The static downloads beside an upgrade, with the version they are asked for.
5. A proof that `Ingest` implements `AlertEngine`, not only `AlertToggle`.
6. Two restores that meet: what becomes of `.replaced`.
