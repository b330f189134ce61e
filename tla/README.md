# Verification of the DSH task board

The repository is a task board for the DeepSeek Harness: a Host process that owns
a ledger of cards and runs them in harness sessions, and a browser plugin that
shows the board. This directory holds TLA+ models of its core logic, the TLC
configurations that check them on small instances, and proofs checked by TLAPS.
Paths below are relative to the repository root.

## 1. The system

| Part | Code | State it keeps | Operations |
|---|---|---|---|
| Host ledger | `src/host-ledger.ts`, `src/core/tasks.ts`, `src/core/use-cases/` | the cards (column, archive mark, parents, executions, pinned permission, handover bundle, confirmation stamp, cron rule, rework notes, number), the number counter, the request fingerprints | one synchronous method per request, dispatcher or report; each ends in an atomic file write |
| Gates | `src/core/executability.ts`, `src/core/handover.ts` | none | predicates every dispatcher consults |
| Host service | `src/host-service.ts` | timers, in-flight flags, the idle sessions of the last poll, the active flag | apply, poll (5 s), scheduler tick (30 s), patrol, continuation, launch |
| Runner | `src/host-runner.ts`, `src/core/session-reuse.ts`, `src/core/rework.ts` | scan memos | launch (create or reuse a session, pin, prompt), list, inspect |
| Lock | `src/host-ledger.ts` 143-272, 1059-1120 | the lock file and its owner record | acquire, take over, release |
| Persistence | `src/host-ledger.ts` 875-1053 | the document in memory and on disk, the heartbeat side file | commit, load, migrate, quarantine |
| Import | `src/host-ledger.ts` 274-317, 634-658; `src/core/store.ts` | imported sources | merge a browser ledger into the Host's |
| Cron | `src/core/schedule.ts` | none | parse, next match |
| Projects | `src/core/projects.ts`, `src/core/use-cases/project.ts` | the project list | create, rename, recolour, delete |
| Board controller | `src/core/controller.ts`, `src/client/host-api.ts` | last accepted snapshot, per-card queues, pending marks | actions, refreshes, event frames |
| Settings forms | `src/client/settings-form.ts` and the cards | drafts, revision fence | stage, save, reload |
| Power inhibitor | `src/power-inhibitor.ts` | phase, helper process, retry timers | reasons, acquire, fail, retry, release |
| Routes | `src/host-routes.ts`, `src/protocol.ts` | none | state, action, events |
| User interface, mounts, dashboard, telemetry, build | `src/client/`, `src/core/dashboard.ts`, `build/`, `scripts/` | view state | rendering, packaging |

How they interact. The browser sends an action to a route, which calls
`TaskBoardHostService.apply`; that calls the ledger, starts the launch of a run
the ledger opened, and hands eligible children to the board. A launch is
asynchronous: it talks to the harness and reports back to the ledger
(`attachSession`, `consumeRework`, `settle`). The poll reads the session roster,
inspects the session of every unsettled execution and reports outcomes. The tick
opens due cron occurrences. The ledger notifies listeners after each commit: the
service forwards that to the power inhibitor and to the event streams of the
tabs, which fetch a snapshot if the revision moved.

Everything on the Host runs on one JavaScript thread: a ledger method is atomic,
and interleaving happens at the awaits of launches and polls, between ticks,
across a crash, and between the Host and the tabs.

What is hard, and what makes each part correct:

* **Ledger.** Two facts say "running" (column and unsettled execution), five
  dispatchers start runs, reports come late. Correct: the facts agree; at most one
  unsettled execution per card, and it is the newest; every opening respects
  parents, confirmation, archive and cap; a settled outcome is final; the history
  trim never loses an unsettled run; card numbers are never reused.
* **Service and runner.** State read before an await is used after it: the roster
  against the executions attached meanwhile, the card a launch was given against
  the card as it is. Correct: an unsettled execution always has somebody who will
  report on it; every run eventually settles; a startable child is started.
* **Lock and persistence.** Crashes, failing writes and several processes.
  Correct: one owner; what was acknowledged survives; a retried request acts once;
  a revision names one state of one ledger.
* **Import and rows.** Documents of two histories are merged, files of older
  versions repaired. Correct: numbers stay unique, running cards can end, nothing
  newer is rolled back, nothing deleted returns, a restart changes nothing but what
  it has to repair.
* **Controller.** Answers out of order, timeouts, resets of the ledger. Correct:
  a tab never goes back within one ledger, drains its queues, reports only what
  was applied, and ends at the Host's state.
* **Power inhibitor and plugin.** Late events of old helpers, failing lists.
  Correct: at most one helper counts, none outlives the wish for one, and the wish
  is pursued until it is met.
* **Settings form.** Edits during a save. Correct: no draft vanishes unsaved.
* **Cron and the schedule editor.** Correct: the walk finds the first match; a
  rule survives the trip through the tabs, and the editor follows the card.

## 2. Modules

| Module | Models |
|---|---|
| `TaskLedger` | the ledger's operations on cards, the gates, recovery after a restart |
| `SlotPool` | what the board promises about its concurrency cap, without cards |
| `HostService` | requests, dispatchers, launches, session poll, ticks, settings and restart over `TaskLedger` and `Sessions`; implements `TaskLedger` |
| `Sessions` | the harness runtime as the board sees it (external) |
| `LedgerLock` | the single-owner lock file, one step per system call |
| `LedgerStore` | the document in memory and on disk over `LedgerLock`: load, migration, quarantine, commit, fingerprints, heartbeat side file; implements `Journal` |
| `Journal` | what the file promises, without memory, locks, caches or crashes |
| `LedgerImport` | rows of files and imports, the merge, the numbering, projects |
| `BoardClient` | one tab and the Host: synchronisation, queues, answers, event frames, selection |
| `Replica` | what a tab promises of the ledger it shows, without requests, queues or events |
| `BoardReplica` | `BoardClient` with a record of every state the ledger has had; implements `Replica` |
| `PowerInhibitor` | the helper process, its events, retries and release |
| `Plugin` | settings, sessions and schedules down to the helper, over `PowerInhibitor` |
| `CronSchedule` | cron fields and the next occurrence, over a calendar |
| `ScheduleEditor` | the schedule editor and its section, over `CronSchedule` |
| `SettingsForm` | the settings card: drafts, save, read-back |
| `TaskLedgerProofs`, `HostServiceProofs`, `LedgerStoreProofs`, `LedgerImportProofs`, `BoardClientProofs`, `PluginProofs`, `SettingsFormProofs`, `ScheduleProofs` | theorems about `TaskLedger`, `HostService`, `LedgerStore` with `LedgerLock`, `LedgerImport`, `BoardClient` with `BoardReplica`, `Plugin` with `PowerInhibitor`, `SettingsForm`, and `ScheduleEditor` with `CronSchedule` |
| `MCTaskLedger`, `MCHostService`, `MCLedgerStore`, `MCBoardClient`, `MCPlugin`, `MCPieces` | instances for TLC |

### Correspondence of `TaskLedger` with the code

`task[t]` is a `TaskRecord`; `board` is the set of ids in the document. Each
action is one method or one `case` of `apply`, with its refusals as guards and
everything it assigns as primed variables; the comments of the actions and the
map in `PROJECT.json` name the lines. What the data is reduced to:

* an execution id is the value of a counter, so array order is id order;
* `permissionConfirmedAt` is the permission that was in force when the stamp was
  set, or `Unconfirmed`; the code keeps a time, which the gates never compare;
* `rework: true` on an execution is `carried # {}`, the notes it was opened with;
* a permission is its rank in `PERMISSION_RANK`; a cron rule is the set of instants at
  which it fires, of which `NextRunAt` sees those within `Horizon` (five years in the
  code): a rule may have no next instant, and then create and set-schedule refuse it, a
  start disarms it, and the roll-forward and the skip after a sleep leave it armed;
* titles, prompts, targets, timestamps, freeze snapshots and projects are left out;
* the list order of the cards is the order of their numbers.

`run` and `rerun` differ by an intermediate column that the start overwrites, so
both are `Run`. Reports (`AttachSession`, `Settle`, `ConsumeRework`) may name any
execution the card still lists: late and repeated reports are thus included.
`Restart` is a crash or stop followed by a load. Every ledger method writes the
file before it returns, so the document read back is the one left; failing
writes belong to `LedgerStore`.

`SlotPool` is the abstract specification of the cap: slots are taken and released,
several at once if need be, and no step that grants a slot leaves more holders
than the cap. `CapHonoured == Slots!Spec` says the ledger implements it under the
mapping `busy <- OpenTasks`.

### Correspondence of `HostService` with the code

`HostService` extends `TaskLedger`: its steps contain the ledger's operations and
add the variables of `TaskBoardHostService` and `HostExecutionRunner`.

* *Event loop.* A handler runs to its next await without interruption, but it may
  commit the ledger several times, and a crash may fall between two commits. So a
  step is one commit. What the running handler still has to do is kept in `pass`
  (the loop of `dispatchContinue`, of the patrol or of the tick) and in the launch
  stages `attached` and `refused`; `Quiet` says that there is none. Handlers start
  only when it holds, and `HostRestart` is possible at any point.
* *Launches.* One record per run that has not reported. A fresh conversation goes
  through `creating` (before `session/create` answers) and `prompting`; a reused
  one starts in `reusing`. `Prompted` is the accepted `session/prompt`, `Reports`
  the attached session, `Consumes` the rework's notes, `Refused` the
  `SessionLaunchError`, `Fails` the settle that follows it or any failure before a
  session was known. The session is chosen when the launch starts, as in the
  code, from the roster the last poll left in `idle`. The unknown roster
  (`undefined`) is the empty set; the code treats both alike.
* *Poll.* `listing`, then `answered` (the runtime has taken the list, which is not
  yet here), then `inspecting`: the references are taken when the answer arrives,
  and each inspection works with the list. `InspectsPending` stands for a busy
  session and for a history that could not be read; `memo` is `scanMemos`.
* *Scheduler.* `Tick` lists the due cards, `TickStep` handles the next one;
  `ResumeTick` is the tick after a sleep or, through `SetActive`, after enabling.
* *Time* in a session is the id of the next run: what the code compares is whether
  a turn ended after a run had started, and that is all the model keeps.
* `upSince` and `sent` are history variables for the properties.

`Sessions` says what the runner relies on: a conversation exists or not, has a
queue, at most one turn, and a log of ended turns. Assumed of it: it survives a
restart of the Host; a prompt that was refused is not queued; a deleted id does
not come back. The list's and the history's answers are those of one instant
each.

Left out of `HostService`: `dispose` and the power reasons (see `Plugin` and
`LedgerStore`, which has the commit of a launch that outlives dispose), the frames
to the tabs, retries inside `listRunning` and the paging of a history (the answer
of the whole call is what matters), the coalesced second trigger of a timer, and
changes of `patrolEnabled` while running.

### Correspondence of `LedgerLock` and `LedgerStore`

A `Host` is one start of the program and is used once, so a restart is another
Host. `acquireLock` makes one system call per step: exclusive open, write of the
owner record (which may fail), read of a foreign record, the judgement with its
probes of the process table, the unlink. `os` is what the process table says of a
pid: never used, alive, dead, or reused by an unrelated process. `Unprobed` are the
Hosts that recorded no start time. A start time that was read tells the truth in the
model: that clocks are not set back or forward between two starts by more than the
probe tolerates is an assumption (on Linux it is computed from the boot time). `mishap` remembers exceptional events: `"race"`
when an unlink took a file other than the one that was judged, `"late"` when a
disposed Host committed once more, `"failed"` when a write threw, `"evicted"` when
a fingerprint went out at the limit. Properties that the code cannot keep through
such an event say so by name.

In `LedgerStore` a document counts, per request id, how often the action took
effect; cards are `TaskLedger`'s subject. The atomic rename makes a commit one
step, after the step that changes memory; between the two the process may die.
`Load` is the constructor up to its first commit, with the migrations of v2 and v3
and the quarantine of a file that cannot be read. `Damage` spoils the file from
outside. `answered` and `shown` are what clients were told.

`Journal` is the abstract specification: its state is what stands in the file
(`Written`), what was set aside, what was answered, and whether one writer has followed
another so far (`InTurn`). A write continues the ledger under its id or is the first of
another one; an unreadable file is set aside whole. `KeepsAJournal == Durable!Spec`.

### Correspondence of `LedgerImport`

`tasks`, `projects`, `next` and `imported` are the document's fields; a row keeps
the fields a merge can spoil (column, rule, project, number, times, executions),
the others travel with the newer copy. `ParseLedger` and `ParseHostTasks` say what
a damaged row, a status of a later version or a rule that is no cron becomes. A run
is known by its number, of which every history holds each once: ids are UUIDs. So
sorting by start (`Sorted`) is sorting by number, and `RetainRecent` keeps positions
of the list. The ids of cards are numbers too, for the order of equal creation times;
`Loaded` is `normalizeDocument` with the constructor's repairs; `Import` the case
of `apply`. `tab[b]` is what a browser shows and its import mark, `Bootstrap` the
two requests of `client/host-api.ts`, whose answer may be lost. Gates, caps and
launch failures are `TaskLedger`'s and `HostService`'s subject; here a run opens on
an idle card and its launch is in `flying`. Of a row's schedule, `rule` says whether
there is one, armed or off or no cron, and `due` is its next instant; all cards carry one
cron rule, whose next occurrence `NextRunAtMs` gives for each instant of the clock, or
none. `RepairSchedules`, which a load and an import run, switches off what has no next
occurrence and counts as an edit what it changes. The last trigger and the scheduler's
error text are left out.

### Correspondence of `BoardClient`

`host` and `saved` are the ledger in memory and in its file, `view` and `ui` the
controller's snapshot and selection, `queue[k]` the commands of a card or project
(`taskQueues`), `call` the requests the tab waits for, `strays` those it has given
up but the Host may still get, `frames` the event stream. The Host's handlers are
one step each, as on its event loop. `OtherChange` stands for other tabs,
dispatchers and reports. A card is new, edited or archived: enough for a command
to be refused, for the view to close and for a board to differ from another.
Names, colours, prompts and the `restored` toast are left out. `mishap` is
`"lost"` (a change that was answered as failed and gone with a crash), `"mixed"` (a
frame of a new ledger adopted in place, 643) or `"dead"` (an `EventSource` that
was given an answer other than a stream).

### Correspondence of `PowerInhibitor` and `Plugin`

`phase`, `child`, `retry`, `retryReset` and `retryIndex` are the fields of the
class. A `helper` is a process with the events it has sent that are not handled
yet; a process that was given up keeps sending. `"piped"` are win32 and linux,
where closing stdin asks and a signal follows after a second; on darwin the signal
comes at once and no READY is read after the exit. `Plugin` adds `index.ts`
(mount, settings, dispose) and the parts of `TaskBoardHostService` that call the
inhibitor: `setConfiguration`, `syncPowerReasons` and the poll. Sessions and armed
schedules are two flags that change on their own.

### Correspondence of `CronSchedule`, `ScheduleEditor` and `SettingsForm`

An expression is its five fields, each `*` or a set of ranges with a step, as
typed; the calendar's sizes are parameters and an instant is a minute. `DateOf` is
`new Date(fields)` with the spring gap moved forward and the first of a repeated
hour, which is what JavaScript promises. `NextRunAt` follows the walk of the
fields; that it visits candidates in the order of the wall, so that the first
found ends it, is what `Min(ends)` says. Of the calendar it is assumed that no month
of a leap year is shorter than in another, that the clock goes forward once, by an
hour and on the hour, and back no sooner than an hour later, and that the calendar
does not end while the clock runs (`CalendarAssumption`, `LongCalendar`). A zone that
changes by half an hour is not covered.

`ScheduleEditor` has the state of the editor (`spec`, `text`, `emittedRef`,
`lastValidRef`), the section's `cron`, and the card's rule as the tab sees it. An
effect runs with the render that causes it. `pending` is the card's queue in the
controller (`commitRemote`): the controls are disabled while it is not empty, but the
details may be closed and opened again, and the mount submits without asking. `adrift` marks a submitted rule that
never came back. `CronToSpec` and `SpecToCron` are the two conversions of
`schedule-spec.ts`; `Rewritten` names the rules that do not survive the two, and is
written independently of them: from the sets of the rule, not from the tabs.

`SettingsForm` has the staged edits by identity (an edit is a new object even with
the same text), the save under way, and the user's layer at the Host and in the
tab. A mutation may be refused and still resolve, or be applied and reject.

## 3. Runs

| Run | Instance | Shows |
|---|---|---|
| `ledger_runs` | 2 cards, each may wait on the other, 2 executions, 1 note, 1 session, caps 1 and 2 | running column, unsettled execution, gates, cap and notes agree through all interleavings of users, dispatchers, late reports and restarts |
| `ledger_card` | 1 card, permissions at and above the default, a rule at 1 and 4 with horizon 2, 3 executions, history limit 2, 2 numbers | no run above the default without a confirmation, the trim loses no unsettled run, armed rules have a next instant unless they ran out, a reminted id gets a new number |
| `host_crash` | 1 card, 2 runs, 1 note, 2 sessions, 1 crash, reuse on | an open run without a session always has exactly its launch; notes are consumed only by an accepted prompt |
| `host_ticks` | 2 cards, a rule at 1, 2 and 5 with horizon 2, clock 0..2, cap 1, patrol on, 1 crash, no session can be created | nothing missed is backfilled |
| `host_settle` | 1 card bound to a session, 2 runs, 1 prompt of a user, fairness | every run settles |
| `host_continuation` | a parent and a child, caps 1 and 2, 2 runs, fairness | whoever makes the child startable starts it; a raised cap reaches it in the end |
| `ledger_file` | 3 starts, a directory that is new, old or cannot be migrated, 2 requests with a cache of 1, 1 spoiling, 1 heartbeat | one owner; acknowledged work stays; retries act once; heartbeats survive; revisions go forward; the file is a journal |
| `board_tab` | 1 tab, 1 card, 1 project, 2 calls at once, 4 events out of 2 commands, 1 change, 1 fault, 1 restart, 2 synchronisations; fairness | the tab never goes back, shows only whole states the ledger has had, reports what was applied, drains its queues and ends with the Host |
| `board_resurrect` (violation) | the same with what the retry needs | a deleted card comes back |
| `plugin` | 2 helpers, both kinds of platform, 2 changes, 1 fault; fairness | phase and helper agree; the saved wish is met in the end; no helper stays behind |
| `pieces` | four machines, one at a time: every rule of a small calendar with a clock of 40 minutes; the editor with 4 steps and 3 submissions waiting; 2 settings with 4 edits; 2 browsers, 2 cards, 1 project, 5 events, clock 1..3 | the walk finds the first match; the tabs return the rules they do not rewrite; the editor follows the card; drafts survive; imports, files and projects leave a sound board |
| `editor_midnight` (violation) | a card with a rule at midnight | opening its details changes the rule |

Bounds. `MaxRuns`, `MaxNotes`, `MaxSerial` and `MaxTime` end the counters; each
instance gives the counters its question needs and the others a minimum, because
the parts they drive are independent of it. Two cards are enough for the cap (one
holder and one contender), for parent edges in both directions (a cycle
included) and for two cards losing and gaining an edge; two executions are enough
for "an older one next to a newer one"; three with a history of two make the
trim happen with and without an unsettled run. `NoStamp` leaves out confirmation
stamps where no permission can be requested: the gates then never read them. Card ids are symmetric; symmetry
is used in runs without liveness only.

In the host runs `MaxCrashes` bounds the restarts and `MaxPrompts` what a user
types. One crash at every point, followed by normal work, is the case that
matters: recovery is a function of the document alone. Two runs per instance give
an older settled run beside a new one, which session reuse and rework need.

Three starts of the program are the least in which two judge the lock of a third.
A cache of one fingerprint makes the eviction happen with two requests. In the tab
two calls at once overtake each other; two commands queue behind each other on one
card; one restart, with or without a new ledger, meets every point of a request.
Two helpers are an old one and a new one. Five events of `LedgerImport` reach, for
example, a browser's import, a deletion, a restart and a second import. Three instants
are one at which an armed rule is not due yet, one at which it still has the instant it
had, and one at which nothing is in sight. In `TaskLedger` a rule at 1 and 4 with horizon 2
is armed at 0, runs out at 1 and has a next instant again at 2. Three submissions are a
choice and two mounts behind it. The
calendar of `pieces` has two months of two and of one or two days, so that leap
days, impossible dates, the end of a year and both clock changes fall inside a
clock of forty minutes.

State constraints: `OnBoard` leaves out stamps, the backlog column and the
archive; `OneChild` numbers the cards and lets only `t2` have a parent;
`NoHandMoves` leaves out the done column, which no failing launch reaches. They
cut away what a user does to a card, not what the process does, and
`ledger_runs` covers those edits for the ledger. `host_continuation` checks
liveness under `OneChild`: only steps of a user lead out of the constraint, no
fair action does, so a fair behaviour that stays inside is judged as without it;
behaviours that leave it are not examined. `TwoOrEmpty` of `ledger_file` cuts
behaviours past a stolen lock and lets three starts meet over an empty ledger
only, since what the files go through takes two. `Quiet` of `board_tab` cuts
behaviours after a mishap, of which the properties promise nothing, and lets the
user look at cards only while nothing fails and at most two things change; here too only an unfair step (a
restart, a gesture, a fault) or the frame that is itself the mishap leads out.

With a parent and one child a refused launch can free a slot for nobody, so
`host_continuation` exercises the continuation after a poll, a request, the
board being enabled again and a raised cap; the one after a failed launch needs a third
card and is not exercised.

`CHECK_DEADLOCK FALSE` stands where the instance comes to rest: when all starts are
used up, when a tab, an inhibitor or a form has nothing left to do and its bounds
are reached. The ledger and host runs never deadlock and are checked for it.

Fairness. The safety runs assume none. `FairHostSpec` assumes:

* weak fairness of the loops and handlers: the event loop runs what is ready, and
  the poll timer fires (it is only cleared by `dispose`);
* weak fairness of each launch: every gateway call returns, by answer or by error;
* strong fairness of an answered list and of a conclusive inspection: they may
  fail any number of times, but not for ever;
* weak fairness of the sessions: queued prompts begin and turns end.

It assumes nothing of users, settings, the scheduler, the patrol or crashes.

`FairClientSpec` assumes that the Host answers a request it has got (its handlers
are synchronous) or the request fails by its time-out, that the browser runs the
handlers of answers and frames and opens a closed stream again (`EventSource` does),
and that the Host's tick goes on sending frames (the scheduler's heartbeat notifies
every 30 s while the board is enabled). `PluginFairness` assumes that timers fire,
processes that were spawned say READY or die, a killed process ends, the poll's
interval goes on while the board is enabled, and lists are answered or fail. Faults
are bounded, so a helper does not fail for ever.

### Disagreements with the documentation

Two are runs of their own.

`board_resurrect`: the retry button of a tab that failed to synchronise imports
what it shows (`controller.ts` 623). These are the Host's own cards as it saw them
last, so a card deleted meanwhile is created again; `README.md` 97 says that tabs
can never resurrect a deleted task.

`editor_midnight`: `schedule-spec.ts` takes `0 0 * * *` for "every 1 hour" (98, 127),
and the editor's mount submits `0 * * * *`: looking at a card that runs at midnight
makes it run every hour. As `stepOf` does not ask where a set of hours ends,
`0 0,2 * * *` becomes every two hours in the same way.

A third is the case that `OpeningKeepsRule` leaves out (`UndoesChoice`). A card has a rule
that its tab writes in another way, say `0 9 * * 0`, which the weekly tab writes with a 7.
The user picks another time; while that is under way the details are closed and opened
again. The tab still has the old rule, and the mount effect (`ScheduleEditor.tsx` 135-144),
which `disabled` does not gate, submits `0 9 * * 7`; `controller.ts` 573-592 queues it
behind the choice, so the choice is undone. The comment at 133-134 means the mount for
fresh tasks. `OpeningKeepsRule` says that this takes a waiting submission and such a rule,
and that only the old times come back.

The others are in the models, as the code behaves, and no property contradicts them:

* `task-update.ts` 124-131: an update that does not mention the handover bundle
  removes it and keeps the confirmation stamp, although `handover.ts` 12-14 says
  that any later permission or handover change re-arms the gate.
* `host-service.ts` 358: a session created while the list was in flight is not in
  it, so its run is settled as cancelled with "execution session no longer exists"
  while the agent works on.
* `host-runner.ts` 370 takes the first turn that ended since the run started, in a
  shared session perhaps somebody else's; `README.md` 47 promises the card's round.
  `README.md` 42 and 190 promise a fresh session when the session is busy; the code
  asks the last poll.
* `host-ledger.ts` 498-503 rolls the next-run time of a card with a pending parent
  forward; `README.md` 51 says it does not.
* A crash between `host-service.ts` 333 and 335 leaves a run whose session has no
  prompt; recovery (849-860) skips it, and its slot stays taken until somebody uses
  or deletes that conversation. `README.md` 49 says such cards are reconciled.
* `host-ledger.ts` 1114: two starts that judged the same stale lock; the second
  unlinks the lock of the first. `README.md` 97 promises one owner.
* `host-ledger.ts` 277: two records of an unsettled run tie and the incoming one
  wins, so an import with a copy taken during the launch drops the session recorded
  since, and 852 cancels the live run as interrupted by a restart. The comment at
  281 says that existing state wins ties. The import also cancels a launch that is
  under way (647).
* `host-ledger.ts` 280-291: a merge takes the column from the newer copy and the end
  of each run from the copy that has it. One browser imports its running card of the
  first version; the Host settles it; a second tab sees that; the document is lost;
  the first browser imports again and the card is edited, so that the Host's copy is
  the newer one; the second tab's retry brings its settled run. The card stays in the
  running column with no unsettled run: poll (129-131) and recovery (853-855) skip it,
  delete, move and run (704, 712, 750) refuse it. `README.md` 49 says that orphaned
  running cards are reconciled. `CardsKept` says that nothing but a merge does this.
* An update may put a card into a project that is gone, or into none, until the
  next load; `task-update.ts` says the ledger lands it in the default project at
  commit time, and `README.md` 166 that a card is never orphaned.
* The numbering of an import may give the number of a Host card to an imported one
  that was created earlier, and a number whose card was deleted may come back with
  an imported row; `README.md` 98 says a number is never re-issued.
* The horizon comment of `schedule.ts` 77-79 calls five years enough for every
  rule; 29 February needs eight around 2100. A rule that fires for the last time before such
  a gap stays armed without a next instant (`host-ledger.ts` 517, 575), so the due scan
  never sees it again, and the next start switches it off as an invalid cron (837-841).
  `RulesAtRest` says that an armed rule lacks a next instant in this case only.

## 4. Proofs

Every theorem holds for all values of the constants that the named assumptions
allow; TLC evaluates the assumptions on every run. An inductive invariant is called
`...Inv` in the module that proves it, and each such proof has one step per action.

**The ledger.** `TaskLedgerProofs` proves from `LedgerAssumption`: `TypeOK`,
`OneRunAtATime` (`RunningIffOpen` and `OpenIsNewest`), `RulesAtRest` (`ArmedHasNext` and
`ArchivedIsQuiet`), `OpenCarriesPending`, the action properties `GatedOpening`, `OpenNeverLost`,
`SettledForGood` and `SerialsNeverReissued`, and that the ledger implements `SlotPool`.
`RulesAtRest` speaks of rules that may run out: an armed one without a next instant has had,
at some instant so far, nothing ahead within the horizon. `SettledForGood` keeps the outcome
and the rework stamp of a settled run, not its session: a late launch may still attach one.

None of the invariants is inductive alone: that a card with an unsettled
execution is in the running column needs that settling leaves none, hence that
there was at most one, hence that every start refuses a busy card. The inductive
invariant `IInv` is type correctness, a predicate `Sound` on each card on the
board (the conjunction of the per-card parts of the invariants) and that a card
off the board is `NoCard`. The proof shows that each card transition
(`StartExecution`, `SettleExecution`, `Edited`, `WithEdge`, ...) preserves `Sound`, then that
each action does. The refinement uses the invariant and two facts about finite sets:
opening one run adds one element to `OpenTasks`, and the gate had room for it.

What a step does to a card's history is proved card by card (`Chronicle`): a card stays,
with its number, and its history is as before, or had one run opened in it, or one
reported on that keeps the outcome it had; or it arrives, with the next number and
no history; or it leaves, with no unsettled run. `OpenNeverLost` and `SettledForGood`
follow; for `SerialsNeverReissued` the invariant is extended by `SerialsBelow`, that the
counter is beyond every number on the board.

**The process.** `HostServiceProofs` proves that every step of the process is a step of
the ledger or leaves it alone (`HostImplementsLedger`), from `LedgerAssumption` and
`HostAssumption`. The steps are built from the ledger's operations, so this is a bridge
rather than a finding, and no run checks it; its substance is that the guards, the late
reports and the recovery of the process are those of the ledger. So `IInv` holds of the process, and what the ledger's theorems say of
`[Next]_vars` holds of each of its steps: `TheProcessKeepsTheLedger` states the ledger's
invariants, its action properties and the cap for the process as a whole. On this rest
`HostSound`, `NotesReachASession`, `NoBackfill` and `ContinuationIsPrompt`. The inductive invariant
`HostIInv == IInv /\ HostTypes /\ Matched /\ PollIsApart /\ AcceptedAreSent /\ ArmedAhead`
adds to `HostSound` that a launch has recorded its session exactly in the stages that
follow the attachment (`Matched`), and that the runs the poll has yet to inspect belong
to no launch, even when a card was deleted and its id taken again (`PollIsApart`): this
is why inspections and reports cannot settle each other's run. `ArmedAhead` is what makes
`NoBackfill` true: recovery rolls every armed rule beyond the instant the process came
up. `ContinuationIsPrompt` is proved as the step property it is, by what each action does
to the startable children and to the four ways of being looked after (`HandedOn`).

**The file.** `LedgerStoreProofs` proves `OneOwner`, `AcknowledgedKept`, `RetryActsOnce`,
`FilesSound` and `RevisionForward` from `LockAssumption` and `StoreAssumption`, for any
number of starts, requests, crashes and spoiled files. `LockInv` adds to `OneOwner`
where the file and each owner record can stand: a record that was read is true of a Host
that has ended, unless the file was replaced under the reader (`RecordsTrue`,
`FileIsOwners`). `StoreIInv == LockInv /\ StoreInv`, and
`StoreInv == DocsSound /\ (InTurn => MemoryLeads /\ FileKeeps)`: while owners follow
one another, the memory of the owner has everything the file has, with at most the commit
that is under way beyond it (`MemoryLeads`), and the file has all that was answered
(`FileKeeps`). That only one Host leads is where the lock comes in.

The same module proves that the store implements `Journal` (`TheFileIsAJournal`). The
refinement mapping reads the file and forgets the memory, the lock, the fingerprints, the
side file and the crashes. `JournalInv` adds what a commit relies on: the document of
the owner has no older revision than the file, and where there is no file it has no
effects and an id that no file set aside has, because no file set aside has an id that was
not given yet (`SetAsideKnown`). So the first commit of a Host that found an unreadable file
begins another ledger even if Hosts before it had crashed between the rename and their
own first commit. After a failed write the change stays in memory and the next commit
writes it, which a journal allows; what a failed write does to what clients see is in
`RevisionForward`. `JournalsKeepAnswers` says that the abstraction promises enough: any
behaviour that keeps a journal satisfies `AcknowledgedKept`, so that this follows without
a word about locks, memory or caches.

**The imports.** `LedgerImportProofs` proves `BoardSound`, `CardsKept`,
`DeletedStaysDeleted` and `RestartKeepsDocument` for any number of browsers, cards,
projects, and histories of any length. `ImportAssumption` asks of the files and of the
browsers' own boards that a history names a run once, and that a running card has an open one;
damaged rows, doubled numbers, unknown columns, broken rules and colours are all
allowed; `NextRunAtMs` may be any function to later instants or to none. `DeletedStaysDeleted`
is about every request of a browser, the first and each repetition: a card that was deleted when the
ledger had seen that browser does not come back in the step. `ImportInv == BoardSound /\ Watched`: the documents the tabs still show, and
what a deletion remembers, are bounded by what has happened. Sorting and numbering are
defined by ranks (how many are smaller), and the lemmas at the head of the module say
that ranks of a finite set are exactly 0, 1, ...: no induction is needed. Restarting
needs that `Numbered`, `RetainRecent` and the other repairs leave a board alone that the
Host wrote; the exceptions are named in the property, the repair of armed rules among
them (`RuleRepaired`).

**The tab.** `BoardClientProofs` proves `ViewSound`, `ToldIsApplied` and
`NeverBackwards` from `ClientAssumption`, for any number of calls, cards and commands.
`ClientInv == ClientTypes /\ Pasts /\ SelectionIsShown /\ Told`: until a mishap every
snapshot, in the view, the file or an answer under way, is of the Host's past (`Pasts`,
ledger by ledger and revision by revision), so whichever arrives last may be compared by
its revision; and a card has one request under way, for the oldest of its commands, which
the Host has applied when it is answered (`Told`).

The same module proves that the tab implements `Replica` (`TheTabIsAReplica`). The
refinement mapping is the tab's own snapshot; the record of what the ledger has been (`past`) is
a history variable that `BoardReplica` adds to every step of `BoardClient`. This says more than
the invariants, which compare the tab with the ledger of now: also when the ledger
has moved on, lost a change that was never written, or started over, the tab shows no mixture of
two states. `PastInv` is what it takes: the file, every answer under way and every frame under
way is of the past. It holds through every mishap, since a failed write is answered by a failure and a
restart takes up the file. The one way off the past is in the promise too: `Relabel`, a frame of another ledger
that happens to have the revision shown (643), after which the tab shows old cards under
the new ledger's id until it adopts the next snapshot. `ReplicasGoForward` says that the
abstraction promises enough: whatever adopts states as `Replica` allows satisfies
`NeverBackwards`, with no word about requests, queues or time-outs.

**The helper.** `PluginProofs` proves `InhibitorSound` as
`THEOREM PluginSpec => []InhibitorSound`,
for every set of helpers and every bound, from `PowerAssumption` (`Nobody` is no helper,
the platforms are the known ones, the bounds are numbers) and `PluginAssumption` (the
Host starts with well-formed settings). Its inductive invariant `PluginInv` adds to
the property what the handlers rely on without saying: an event is about something
the process did (`EventsTrue`), so an exit or an error is never of a live process;
the child of now was told nothing, its end is still to be handled, and no attempt
waits beside it (`ChildIsCurrent`), so a spawn that throws leaves no child behind the
phase `error`; and while the plugin is mounted the switch is what the service last
set, with nothing known of the sessions until a list came in (`ServiceTold`). `Sync`
is proved once for any switch and reasons (`SyncKeeps`), and every action of the
service cites it.

**The settings card.** `SettingsFormProofs` proves `DraftsSurvive` for any fields,
drafts and writers. `FormInv` says that staged edits and the save are records, and that
a save holds no empty edit; the property is about what one step does to an edit.

**The rules.** `ScheduleProofs` proves `NextRunIsFirst` for every rule and every calendar
that `CalendarAssumption` and `LongCalendar` allow. The lemmas say that days have the
numbers 0, 1, ... in their order, that a later start is shown later, and that dates grow
with the wall but for the hour that it skips. The walk then comes by every start
(`StartsEndTheWalk`); an end within the horizon is a start (`EndsAreStarts`); and the first
end is not later than any start (`FirstEndIsEarliest`). The last is delicate: a wall of
the skipped hour is moved on, and may come in the walk before walls that are read back
as earlier instants. But if the walk ends at such a wall while an earlier minute of the
hour that is shown instead is a start, then the same minute of the skipped hour matches
too, is moved on to that start, and has ended the walk before.

**The schedule editor.** The same module proves `TabReturnsRule` for every expression and
every calendar: the tab an expression is taken for writes it back, or leaves it to the custom
tab, for exactly the expressions that `Rewritten` does not name. So the disagreement of
`editor_midnight` has a known extent: every day, in every month, at midnight alone, or at hours
stepped from midnight that end before the last step of the day, or at minutes stepped from the
full hour that end before the last step of the hour. The proof goes tab by tab (`TabsReadBack`): what
`stepOf` answers generates the set up to its greatest member, and the tab writes the set up
to the end of the day, so they agree unless the set `EndsEarly`. What it means for a user
is `OpeningKeepsRule`, which runs on both sides of the limit. `EditorAgrees` and
`OpeningKeepsRule` follow for every calendar, every set of rules, every order of echoes,
refusals, queued submissions and other clients' edits, under `NoMidnight`: no rule of the card or text of the user
is one that `Rewritten` names, and nobody picks midnight. The instance of `pieces` satisfies it, that of
`editor_midnight` does not. `EditorIInv` adds to the two parts of `EditorAgrees` that the card's rule,
the submitted ones, the text and the two rules the editor remembers are all rules their tabs give
back (`IsKept`), and that the editor's tab is one the editor can write (`OpenEditors`).

Only model-checked. Liveness and `ENABLED` are beyond the prover: `EveryRunSettles`,
`ChildrenContinue`, `QueueDrains`, `EndsWithHost`, `SavedIsHeld` and `FreedWhenIdle`
stay with TLC.

## 5. What is left

Compositions worth modelling next: launches that outlive dispose together with a
second start of the program (`HostService` over `LedgerStore`); two tabs with
`LedgerImport` as the Host of `BoardClient`.

## 6. Not modelled

Rendering, texts, DOM mounts, telemetry and packaging hold no state that another
part reads. Prompt text and freeze snapshots are data the ledger only carries.
Request parsing and the origin checks of the routes are stateless. The dashboard
counts over a snapshot. The local half of the controller and the saving half of
the browser store are for a board without a Host, which the plugin never makes.
