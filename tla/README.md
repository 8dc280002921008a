# A verification project for harness-claude

harness-claude runs a small organisation of language-model agents on one
machine: a CEO session, and for each project a CTO made of a Claude lead, a
Codex developer and a designer.  What they share is a SQLite table of messages,
a daemon that wakes idle agents, a shell script that starts and deletes
projects, a web dashboard, and hooks that gate what an agent may do.  Nothing
here runs in one process: every `harness` command, every hook, every `run.sh`,
every HTTP request and the daemon are actors of their own, which meet in files
and in the table.  That is what these modules are about.

Paths are relative to the repository root.

## 1. The system

### Components that hold state another actor changes

| component | state | operations | others it meets | hard |
|---|---|---|---|---|
| **Message bus** (`harness/db.py`, `harness/cli.py`, inbox routes of `dashboard/backend/main.py`, purges in `run.sh`) | table `msg(id, from_role, to_role, body, created_at, read_at)`; the isolation marker of a role | `send`, `inbox`, `inbox --peek`, dashboard pull / delete / clear, fresh restart and delete-cto purges, daemon notices and resolutions | everybody, through the table and SQLite's one write lock | two readers of one role, a reader dying between COMMIT and print, the pull's stamp before its injection, purges under a reader |
| **Wake loop** (`harness/daemon.py` `tick`) | in memory: `last_woken`, `last_unread`, `backoff`, `idle_since`; on disk: `inbox-ceo.flag` | one tick: count, cool down, look at the terminal, confirm idleness, send | the table, the agents' terminals | a session that changes between two looks, backoff against starvation, restarts that forget |
| **Pair watch** (`daemon.py` `_detect_pair_degradations`) | in memory: `pair_state`; in the table: the unread alert | one scan | the halves' keepers, `specs/tasks.md`, the CEO's inbox | alert survives the daemon and its memory does not; any database call may fail |
| **Directive watches** (`daemon.py` `check_watches`, `main`) | files `watch/*.json`; in memory: `watch_state` | one pass: parse, expire, throttle, probe, notice, rename | the CEO who writes and removes the files | notice and rename are two steps; an exception skips the wake tick |
| **Port allocation** (`run.sh` `cmd_add_cto`, `_wire_project_env`; `harness/cli.py` `_scan_port_projects`, `_next_free_offset`; `hooks/team/plan_readonly_gate.py`) | each project's `.env`; `ports.lock` | allocate, wire mediamtx ports, delete | overlapping add-cto runs, the confirmation hook, delete-cto | check before lock, wire after unlock, kills between lines |
| **Session lifecycle** (`run.sh`, `harness/orca_runtime.py`) | Orca tabs, keeper sockets and processes, session ids | add-cto, stop-cto, delete-cto, down | dashboard, two operators | check-then-create, close-then-kill, abort half-way, asynchronous sockets |
| **Dashboard control** (`dashboard/backend/main.py`) | per-project locks, session lock, one-second liveness cache | start, stop, delete, start-all, dev and docker toggles | run.sh | stale snapshots, timeouts, locks one route does not take |
| **Start, draft and claim gates** (`hooks/team/start_project_gate.py`, `one_teammate_per_role_gate.py`, `plan_readonly_gate.py`, `planner_dispatch_gate.py`) | marker and claim files | prompts, approvals, spawns | add-cto, delete-cto | markers left behind, claims without a spawn |
| **Completion and review gates** (`task_completed_verify_gate.py`, `tasks_md_review_gate.py`, `skill_announce.py`) | sentinels, `.consumed`, `.lastreview`, waivers | a completion event, a tick in tasks.md, a review skill call | re-delivered events, later reviews | evidence used once, twice or never |
| **Codex review runners** (`plugins/codex-review`, `plugins/codex-protocol-review`) | `.pending` marker of a kind, report named by the second | launch, run, report, tell, consume | each other, the CEO's inbox | markers replaced by later launches, reports Codex writes itself, every way to fail must be told |
| **Dashboard git panel** (`dashboard/backend/main.py`) | `.gitignore`, index, HEAD, remote | exclude, include, stage, unstage, commit, push, remote | agents and the user in the same tree, no lock | several git calls per request, any of which may time out |
| **Codex hook merge** (`harness/codex_hooks.py`, `run.sh`) | `hooks.json`, `config.toml`, a lock file | preflight, activate | Orca, which writes hooks.json without the lock; edits of config.toml | compare, then rename or unlink; crashes between the two |
| **Isolation guard** (`hooks/inbox_isolation_guard.py`, `inbox_isolation_clear.py`) | the marker | tool calls, prompts | the message bus | shared with every command of the role |
| **Regression gate** (`harness/regression_gate.py`) | `baseline.json`, `last-check.json` | baseline, check | a second gate run | shared temporary file, old baseline |

### Components without such state

CEO death capture, the Orca RPC client, the git guard,
memory/preview/status-line hooks, stateless plan and format gates, static scans,
`teammate_tail`, the frontend, Orca maintenance scripts, service units, prompts
and skills, and the `reciepe-rec` example application are listed in
`PROJECT.json` with the reason they are left out: they format, classify or
display, or are not part of the harness.

### What makes each component correct

* **Bus**: a row is handed over at most once, by whoever reads it; a row stamped
  read is accounted for; a role's messages are not overtaken; a command that
  finds the table locked ends; bodies shown imply a marker.
* **Wake**: nothing is typed at a session that was busy during confirmation;
  wakes keep their distance over restarts; backoff delays wakes and never ends
  them.
* **Pair watch**: one unread alert at most, after a full grace period, gone when
  the cause is gone; a lasting loss is told by the name of the missing half.
* **Watches**: none put away without a word, none told twice, all end.
* **Ports**: distinct offsets, disjoint ports, and an offset that stays.
* **Sessions**: a stop or delete that says it succeeded leaves no agent; a build
  is not started over dev servers; every request is answered.
* **Spawn gates**: one teammate per role, no hook demands what another refuses,
  the lead's turn always ends.
* **Completion gates**: one review call per [review], a regression check against
  the baseline on disk, a re-delivered completion is not taken back.
* **Codex review**: a trusted report is the final one of the launch in the
  marker; what the CEO was told of can be consumed; every outcome is told.
* **Git panel**: what the panel answered of an entry, undisturbed and with every
  listing answered, stays true; entries freed along with another are named.
* **Hook merge**: each hook once, nothing of the user's or Orca's lost, no Codex
  without the safety hooks.

## 2. The modules

| module | models | runs |
|---|---|---|
| `Mailbox` | the promise of the bus, no database in it: post, take, hand over, drop, settle, erase | (property of `Inbox`) |
| `Inbox` | the table and all its writers | `Inbox` (`MCInbox`) |
| `Wake` | one role in `tick` | `Wake` (`MCWake`) |
| `MailProofs` | theorems about `Inbox`, that it implements `Mailbox`, and about `Wake` | |
| `Watches`, `WatchesProofs` | `check_watches` and the loop around it | `Watches` |
| `PortAlloc`, `PortAllocProofs` | add-cto's port block, wiring, delete | `PortAlloc` |
| `TeamGates` | the hooks that let a team be spawned, and the Stop hook that demands it | `TeamGates`, `TeamConfirm` |
| `ReviewGates` | the hooks that close a [review], with the regression gate they rely on | `ReviewGates` (`MCReviewGates`) |
| `GateProofs` | theorems about `TeamGates` and `ReviewGates` | |
| `CodexReview`, `CodexReviewProofs` | launcher, runner and consumption of both cross-model reviews | `CodexReview` |
| `Sessions` | the dashboard's requests and the scripts they run over tabs, keepers and ports | `Sessions` (`MCSessions`) |
| `PairWatch` | one pair in `_detect_pair_degradations` | `PairWatch` |
| `SessionProofs` | theorems about `Sessions` and `PairWatch` | |
| `GitPanel`, `GitPanelProofs` | the dashboard's git requests | `GitPanel` (`MCGitPanel`) |
| `CodexHooks`, `CodexHooksProofs` | start of a Codex half: Orca's and the harness's hooks merged into config.toml | `CodexHooks` (`MCCodexHooks`) |

`MailProofs`, `SessionProofs` and `GateProofs` extend two components each, which
share no variable.  So that they can be extended together, the second one's
specification has a prefix: `WakeSpec`, `PairSpec` and `ReviewSpec`, with
`WakeInit`, `PairNext`, `ReviewTypeOK` and so on; the first's is `Spec`.

Definitions that begin with the comment "Slip:" are plausible mistakes in the
definition after them.  No specification uses them; they exist so that each
property can be shown to notice one.

### Inbox

`row[i]` is the state of row *i* (`read_at` NULL is "unread"), `next` the
AUTOINCREMENT counter, `writer` SQLite's write lock.  A statement in autocommit
mode is one action that needs the lock for an instant (`Insert`, `Resolve`,
`Delete`, `Pull`).  `harness inbox` is a process per reader, with a program
counter: `Begin` is BEGIN IMMEDIATE, `Select` the SELECT (an empty result commits and
ends without a marker), `Commit` the UPDATE with its COMMIT, `PrintRow` one row of the
loop, `Finish` the marker.  It may roll back, time out waiting
for the lock, or be killed (`Crash`) anywhere.  `--peek` (`Peek`) reads without lock or
stamp and prints and marks like the rest.  `Send` is refused by the route of
`_assert_send_route`; the daemon's rows (`Notify`) bypass it, as in the code.
`Purge` collects the dashboard's four delete/clear buttons and run.sh's two
purges, each with its own WHERE clause.

History variables: `copies` counts hand-overs (dashboard injections included),
`lost` the rows given up after their stamp, `exposed` the roles shown bodies by
a command that the marker still has to vouch for.  Bodies, timestamps and the
discovery check of `send` (which only refuses) are abstracted.  What `print` has
written counts as handed over: the pipe's buffer is outside the model.

`ImplementsMailbox` is the refinement: `Box`, `Owed` and `Handed` map the table
to `Mailbox`.  The abstract bus drops what a dying taker owed and never hands
anything over twice; nothing in it knows of locks, commits or readers.

### Wake

A tick is `Count`, then, with unread mail, one of `StayQuiet`, `SkipAbsent`, `SkipBusy`,
`SeeIdle`, and after a confirmed idleness `Wake` or `SendFails`.  Mail, session and
readers move between those steps.  Timestamps are kept as ages that stop growing
at the largest value they are compared with.  Roles do not share state in a
tick, so one role stands for all; the time the others take is the gap `d`
between ticks.  A tick that fails on the database is a `Count` that did not
happen; the flag's own write errors are swallowed by the code and repaired at
the next tick, and are left out.  `samples` is what the ticks saw since
`idle_since` was set, `quiet` the time since the last acknowledged wake.

### PairWatch

One action per branch of `_detect_pair_degradations`, with `ok` for the
database call it makes.  `alerts` (the table) survives a restart, `pair_state`
does not.  `steady` is kept by scans across restarts, so that
`AlertAfterGrace` is about what was seen and not about what was remembered.
`told` and `misnamed` are what the check for an older alert met in this episode:
the code's LIKE pattern matches an unread alert of either half, `told` means one
that names the half now missing, `misnamed` only one that names the other.

### Watches

`listed` is what is left of the pass's glob, in order; `stage` is where the
daemon is with its first element.  Reading a spec is one step with the decision
it leads to; the probe, the notice and the rename are steps of their own, since
a probe may take its whole timeout and the file may be rewritten or removed
meanwhile (`read` remembers which registration the daemon works for).  The
interval is a constant instead of a field of the file, and the ttl running out
an event (`TtlRunsOut`).

### PortAlloc

`env[p]` is how far `.env` has been written; `Counted` is the scan's criterion
(a BACKEND_PORT line).  `Start` is add-cto's `-f .env`, before the lock;
`Lock` to `WriteFrontend` the subshell under flock; `WireRead` and `WireAppend`
`_wire_project_env`, which the confirmation hook also calls (`Confirm`).
A run may be killed anywhere (`Kill`), the kernel then releases its lock, and
`Delete` may remove the directory under it: what it goes on writing is then
written to an unlinked file (`orphan`).  Ports are the real numbers.  Project names
are taken to be unique over `claude-project/` and `modules/`: the scan skips the
second of two equal names, and so does everything else in the system.  A `.env`
without BACKEND_PORT, left by a kill, stays uncounted and is not rewritten by a
later run, as in the code.

### TeamGates

One build, its marker and claim files, the lead, its teammates and its Agent
calls.  A prompt (`Prompt`, `PromptBoth`) runs the three UserPromptSubmit hooks;
`Signal` is `_start`, `Confirm` the plan hook.  An Agent call is judged by the
three hooks that only read (`ReadingGates`, one step) and by the claim
(`Claim`), in either order and interleaved with those of other calls and with
tasks.md appearing; then `Spawn` or `SpawnNobody`.  `Stop` is
`start_project_spawn_nudge` with its counter.  The hook swallows the errors of that
file: `StopMiscounted` is a Stop whose counter was not read (a 0), not written, or
left empty by a write that truncated it, `lapse` the history that marks such a
step; in `StopComplete` a removal may fail.  `AddCto`, `StopCto` and
`DeleteCto` do to these files what run.sh does.  `cleared` and `ghosts` are history:
whose claim was removed while it lived, and which claims stand for nobody.
`add-cto`'s refusal of a folder with unexpected files is abstracted.

### ReviewGates

Segments with one development task and one [review] each.  `GateStarts` to
`GateEnds` are a run of `regression_gate.py`, whose result replaces the state
file of its mode; a check read the baseline when it started.  `Deliver`, `Judge`
and the steps `Mark`, `Burn`, `Stamp` are the completion hook, interleaved
with other deliveries; `Tick` is the hook on tasks.md.  Tasks other than
[review] need no review evidence and are left out; so are failures of the marker
writes, which the hooks ignore, and the way the evidence's key is found from a
directory.  Hooks of two turns on one [review] are taken not to overlap.
Two gate processes of one mode share the name of a temporary file
(`regression_gate.py:357`): they write and rename in one step here.

### CodexReview

`Launch` writes the marker and starts a runner; the runner's `main` is `Ask`,
`CodexRuns` (which leaves any text, or none, at the report's path), `ReadBack`,
`WriteBack`, `Tell`, with every early way out.  `Verify` and `Unlink` are
consume(), which reads a marker and then removes whichever marker lies there.
Two launches in one second share the report's name; properties of the report say
so (`Sharing`).  A marker torn by a kill is not modelled.

### Sessions

A request is a thread with a program counter: `Hold` (project lock, or "busy"),
`Look` (the liveness snapshot, up to a second old), `Serialize` (session lock),
then the script: `List`, `Close`, `Kill`, `Remove`, `LookUp`, `Create`, then `End` and
`Settle`.  delete and shutdown-all run without the session lock, as in the
code.  `Cut` is the script's timeout, which may leave a creation under way
(`LateTab`).  Orca may stop answering at any time (`OrcaFalters`).  `Toggle`
looks at the ports with `ss` and `docker ps`, each of which may not answer
(`blind`), and `DevDone` and `DockerDone` act on what was seen.  The command
typed into a tab dies with its last tab until it has made its socket.  The
0.25 s cache of terminals and the reads of the members' liveness are one step; a
close that takes effect after its caller was killed, and a dev.sh still
starting then, are not modelled; two tabs of one title arise only from a cut
creation.

### GitPanel

An entry has a version on disk, in the index and in HEAD; a line of .gitignore
is the set of entries it covers.  Requests take no lock; each git call or file
access is a step, and any git call may time out and leave `index.lock`.  `word`
is what the panel last answered of an entry, as long as nobody asked for
otherwise.  Negated lines and nested files are left out, except that a
directory whose version differs from the one in the index may hold files git
does not know (`Untracked`).  The two `git ls-files` of an exclude are one step, and
each may time out, which the code takes for an empty list (`ExcludeBlind`): with the
tracked files unseen, a directory that holds untracked ones as well gets its line
while its tracked files stay in the index, and the answer is ok.  A
`check-ignore` that times out names no line (`IncludeBlind`), an include whose
listing times out is refused.  A write of .gitignore that fails leaves the old
file or a cut one (`Spoils`): the append loses part of its line, and
`write_text`, which truncates the file first, any number of the last lines
(`CutOff`).  Looks of commit, push and remote that time out only turn into
refusals and are left out, and so is a .gitignore that cannot be read, which is
refused as well.

### CodexHooks

`json` and `config` are the two files, as the hooks they hold: a hook is an entry
under an event with a command, and a table of config.toml is recognised by its
command alone, as in the code.  `Preflight`, `Create`, then `activate` under the
lock: `Lock`, `SnapJson`, `SnapConfig`, `CheckConfig`, `ReplaceConfig`, `CheckJson`, `Unlink`;
a changed file sends the round back (`Again`).  `OtherTerminal` is Orca writing
hooks.json for somebody else, `Edit` any edit of config.toml, `Crash` a kill
anywhere under the lock.  The rest of config.toml is the number of its last
edit, and edits only add hooks.  `rewritten` and `edited` record the two windows between a last
look and the rename or unlink that follows it, which the code narrows and
cannot close.

## 3. Runs and bounds

States are distinct states.

| run | result | bounds and why they are enough |
|---|---|---|
| `Inbox` | pass, about 795,000 | one project (routes between projects differ only in the name compared), two readers, one of them serving both sessions, two rows: a race needs two readers, overtaking two rows, a purge or a crash one |
| `Wake` | pass, about 108,000 | time in units of 10 s: confirmation 3 and cooldown 1 are the source's 30 s and 10 s, the cap is lowered from 30 to 6 units so that the backoff takes 1, 2, 4 and then a last factor that is no power of two, as in the source; gap up to 2, two unread rows, one restart |
| `PairWatch` | pass, about 7,300 | grace 3 with gaps up to 2 (both "just reached" and "overshot"), two database errors, two restarts: an error during a recovery and one after it, a restart in each of two episodes, an alert that names one half while the other is missing |
| `Watches` | pass, about 345,000 | two watches (one that fails before another), two registrations per name, interval 2 over gaps of 1, one fault |
| `PortAlloc` | pass, about 721,000 | two projects, two runs, offsets to 6 (2 and 5 are reserved, so the search skips) |
| `TeamGates` | pass, about 835,000 | two parallel calls, two teammates of a role, Stop blocked once (3 in the source; the counter only has to reach its limit), the start marker may fail to be written |
| `ReviewGates` | pass, about 3,692,000 | two segments, one of them risky and waivable, one a pytest; two gate processes, two hooks, one review call, two baselines: a check that a second baseline overtakes, two [review]s on one call |
| `CodexReview` | pass, about 173,000 | two launches of either kind over two seconds: replaced, sharing a report, and apart |
| `Sessions` | pass, about 897,000 | one project of two members, two requests of all nine kinds, one fault (a tab that does not close, a timeout, a dead agent, an outage or a blind look); a build that exists, running or not |
| `GitPanel` | pass, about 6,193,000 | two entries, both directories (a directory can do what a file can), each with its own line or a broad line over both; two threads, three requests, one edit from outside, one fault (a git call that times out or a write that is cut), an include that deletes up to 3 lines (10 in the source) |
| `CodexHooks` | pass, about 427,000 | two launches; two commands of the harness, an old copy of one in another place, a hook of Orca's, one of the user's that Orca copies and one without a command; 3 rounds (5 in the source), three writes by Orca, two edits |
| `TeamConfirm` | violation | one call, Stop blocked up to three times, see 5 |

What the passing runs show, besides the types:

* `Inbox`: `AtMostOnce`, `NoSilentLoss`, `NoOvertaking`, `ExposureMarked`,
  `CommandEnds` and the refinement `ImplementsMailbox`.
* `Wake`: `QuietBeforeWake` (a wake follows a full confirmation without a busy
  sample and is IdleConfirm away from the last acknowledged wake, over a restart
  too: the idle confirmation, and not the cooldown, is what gives this) and
  `IdleMailIsNudged`.
* `PairWatch`: `UnreadAlertsFit`, `AlertAfterGrace`, and `LossIsTold`: a lasting loss
  is told by the name of the half that is missing, unless the check for an
  older alert failed, or found only an unread alert of the other half.
* `Watches`: `ToldThenArchived`, `WatchEnds`.
* `PortAlloc`: `DistinctOffsets` for every two projects the scan counts;
  `OffsetStable` for projects that no two runs worked on at once (`shared`).
  `PortsDisjoint` is about all such projects, counted or not: none takes a reserved
  port, and two of them share a port only if the .env of one was cut short
  after its PORT_OFFSET (`CutShort`, see 5).
* `TeamGates`: `DuplicateNeedsSignal` (a second teammate of a role needs a claim
  that add-cto or the user's own start signal removed while one lived or was on its
  way, or tasks.md appearing between two hooks of one call),
  `NudgeAgreesWithGates`, and `TurnEnds`: the lead's turn ends if the Stop hook's
  counter fails only finitely often.
* `ReviewGates`: `OneReviewPerCall`, `ComparedWithBaseline`, `RedeliveryReplayed`.
  Two completions judged at once may share a call, and a baseline recorded
  during a check leaves the check compared with the one before; both exceptions
  are in the properties.
* `CodexReview`: `TrustedIsFinal`, `ToldIsConsumable`, `OutcomeTold`.
* `Sessions`: `OkMeansQuiet`, `BuildNotOverDev`, `Answered`.
* `GitPanel`: `AnswersHold`, about the answer to a request nobody disturbed whose
  listings did not time out, and `FreedIsTold`.
* `CodexHooks`: `Once`, `NothingLost`, `CodexGuarded`.

Deadlock is checked except in `CodexReview`, `Sessions`, `GitPanel` and
`CodexHooks`, where everything may be over: launches told of and consumed, requests
answered, bounds used up.  `MCReviewGates` and `MCCodexHooks` use symmetry of
processes; neither run checks liveness.

### Fairness

* `Inbox`: a started `harness inbox` keeps running (`WF` of its steps); nobody has
  to start one, to send, to prompt, and a crash is never forced.  A waiting
  command either gets the lock or runs into `busy_timeout`.
* `Wake`, `PairWatch`, `Watches`: the daemon's loop goes on for ever.  Every
  call in it has a timeout, `main` catches what a pass raises, and the
  service unit restarts the process (`Restart=on-failure`).  Nothing is assumed of
  sessions, senders, the success of a send or a probe.
* `Watches` also assumes that a ttl runs out some day, which is the clock.
* `TeamGates`: the runtime waits for the hooks of a call and then spawns or does
  not (`WF`, one condition for the steps of all calls, as each is taken once per
  call); a lead that can end its turn again and again tries to (`SF` of
  `Stop`: its attempts are not continuous, agent calls come in between).
* `CodexReview`: a runner that lives goes on (`WF`), and Codex ends, which is
  an assumption about it: the runner sets it no limit.  Nobody has to consume.
* `Sessions`: a request's thread goes on (`WF` of `Step`), as every script and
  every look in it has a timeout; a keeper that was started makes its socket.
  Outages of Orca, cuts and deaths are never forced, and never ruled out.
* `ReviewGates`, `GitPanel` and `CodexHooks` state no fairness and no liveness.
* `PortAlloc` states no fairness and no liveness: a run may hang on the lock's
  holder as long as that one lives.

The number of restarts, errors and faults is bounded, so liveness is about what
happens once they stop.

## 4. Proofs

The theorems hold for every value of the constants allowed by the modules' named
assumptions: any number of rows, readers, projects, runs, watches, Agent calls,
launches, hooks, restarts and faults, and any period.  Most assumptions only say what is a
number.  `InboxAssumption` says that the CEO and the daemon are among the
roles and that sessions are roles; `PortAssumption` that a run is not the "nobody" of
the lock and that offsets stay below 189 (from 189 on, 8000 + n is another
project's 8189 + m: the arithmetic of the bases gives out there).

**`MailProofs`**, *message bus* — `TypeCorrect`, `DeliveredAtMostOnce`, `NothingSilentlyLost`,
`NothingOvertakes`, `ExposureStaysMarked`.
`AtMostOnce` is not inductive: nothing in it says that a row about to be printed
has not been printed.  `IInv` adds: a process in its transaction holds the lock
(`LockHeld`); what it selected is still unread (`BatchFresh`), which needs that
nobody else can write meanwhile; a row in somebody's hands has no copies yet
(`HeldUnseen`); it is in the hands of one holder only, a reader or the
dashboard (`OneHolder`); an unread or absent row has none (`Unseen`); and rows are
numbered without gaps (`Numbered`).  `NoSilentLoss` and `NoOvertaking` follow the
same steps on top of `IInv`; `ExposureMarked` needs only the types.

`MailboxRefined` is the refinement: `Spec => ImplementsMailbox`.  Each action maps to one action of `Mailbox` or to a stutter; `IInv` supplies that a
committed batch is still waiting and that a crash drops exactly what is owed.

**`MailProofs`**, *wake loop* — `WakeTypeCorrect`, `WakesAreQuiet` (`QuietBeforeWake`).
The confirmation is younger than the silence since the last wake
(`TimerBehind`), the daemon sends only after a full confirmation (`SendsFull`), and no
busy sample was seen in it (`NoBusySeen`).

**`PortAllocProofs`** — `TypeCorrect`, `OffsetsStayDistinct`, `OffsetsStable`,
`PortsStayDisjoint`.
`AllocInv` says that the run in the critical section holds the lock (`LockHeld`),
that the offset it chose stays free until it has been written (`ChosenFree`),
that the file is where the run believes it is unless it was deleted
(`FileInStep`), and that counted offsets are allowed ones (`CountedAllotted`);
distinctness follows from the first two.  `SettledInv` adds, for projects that
were never shared, that at most one run works on them (`Alone`), that a run
about to allocate finds no `.env` (`Unwritten`), and that mediamtx ports are,
and will be, those of the file's own offset (`WireOwn`, `MediaOwn`).  For
`PortsDisjoint` it also says that an offset stands only where its PORT_OFFSET
line was written, and is never a reserved one (`OffsetThere`), and that a .env a
run alone on it has not finished is not wired yet (`WiredLater`): so a project
that is neither counted nor cut short has no ports.

**`WatchesProofs`** — `TypeCorrect`, `ToldBeforeArchived` (`ToldThenArchived`).
The pass works for the registration it read unless that was replaced
(`WorksFor`), a notice precedes the stages that rename (`Noticed`), a
file told of and still there is about to be renamed, or a crash or a failed
rename came in between (`TellsOnce`), and what fires has not been put away
(`FiresLive`).

**`GateProofs`**, *team* — `TypeCorrect`, `SecondNeedsSignal`
(`DuplicateNeedsSignal`), `DemandIsOpen` (`NudgeAgreesWithGates`).
Of a role whose claim was not taken away (`cleared`) there is at most one
teammate or one call entitled to become one, and it has the claim
(`OneHolder`); a call that passed the claim gate for nothing, because the
dispatch gate was to refuse it, is let through only if tasks.md appeared in
between (`LetThrough`); calls belong to a lead with a directory (`AtHome`).
The second theorem needs only that every claim has a teammate, a call or is a ghost
(`Accounted`).

**`GateProofs`**, *reviews* — `ReviewTypeCorrect`, `CallClosesOne` (`OneReviewPerCall`),
`CheckFitsBaseline` (`ComparedWithBaseline`), `Replayed` (`RedeliveryReplayed`).
None of the three is inductive.  Of the first, a hook closes its [review] some
steps after it read the marker: `AloneIsFirst` says that one that was judged
alone still has a call nothing was closed on, which needs that nobody else is
being judged (`AloneIsAlone`) and that a fresh marker stands for an unused call
(`FreshIsUnused`).  Of the second, a check under way has the baseline on disk or
knows that it was replaced (`CurrentCheck`), and so has the check that is the
newer file (`NewerFits`).  The third is about a hook that finds the sentinel
gone: it was burnt only for a grant on record (`SpentIsGranted`,
`GrantOnRecord`) of the same turn (`OnePrompt`), so it is never late (`NoneLate`).

**`CodexHooksProofs`** — `TypeCorrect`, `HooksOnce` (`Once`), `GuardsInPlace`
(`CodexGuarded`), `NothingIsLost` (`NothingLost`).
The first two follow from `OnceInv`: every snapshot is as orderly as the file
(`SnapsOnce`), so whatever snapshot a fold writes, each hook ends up once; and
behind a rename the safety hooks are there (`GuardedBy`) and no edit removes them.  The
last needs the lock (`LockHeld`): only under it is the text a fold renames over
config.toml the one it looked at (`Looked`), does hooks.json wait until the
unlink (`Waiting`, `Relooked`), and does what was folded stay (`Carried`).
`CodexHooksAssumption` says that the harness has one hook per command, that the
user adds none with a command of the harness, and that a user's hook with a
command of Orca's is a copy of Orca's (see 5).

**`CodexReviewProofs`** — `TypeCorrect`, `TrustIsFinal` (`TrustedIsFinal`),
`ToldCanBeConsumed` (`ToldIsConsumable`).
Both properties are read off `Settled`, stated of every launch with a report path
of its own: the file there is its own or missing, carries its id only once its
runner wrote it, and from then on always; what a runner reads back to stamp is
about its own run.  A replaced runner goes on writing, but under its own name; and
nothing lies under a name nobody was given (`Placed`), so a new launch finds its
place empty.  Launches that share a name, within one second, are the exception
both properties make.

**`GitPanelProofs`** — `TypeCorrect`, `AnswersStay` (`AnswersHold`), `FreedAreTold`
(`FreedIsTold`).  Requests do not wait for each other, and each is several git
calls long, so the invariant says what a request may rely on while nobody
disturbed it (`Calm`): the entry to exclude has left the index; the entries an
include has listed are out of it; while a line is being deleted, the file still
is what was read, and each of them is covered by another line or already counted
as freed (`Covered`).  A step of any other thread either writes nothing of this or
takes the request's calm (`Stepped`).  An exclude whose listing timed out goes to a
place of its own ("blind"), of which the calm says nothing, and a write that was
cut takes every word back (`Spoiled`, with `CutOffs`: what is left is still a
sequence of lines).  Of entries the panel has answered for,
`Words` keeps the line itself for an excluded one, which is more than "ignored": a
broad line may go and the entry's own must stay.  `Removed`, `LastHit` and `NoHit`
are what the proof needs to know of `RemoveAt` and `SelectLastInSeq`.

**`SessionProofs`**, *sessions* — `TypeCorrect`, `OkIsQuiet` (`OkMeansQuiet`), `BuildAfterDev`
(`BuildNotOverDev`).  Each kind of request has a route (`Route`), and a request
inside a project has its lock (`Owns`, which shutdown-all does not).  As long as
no start was cut off, no tab comes late (`NoLate`) and whoever is coming up
belongs to a start that waits for it (`Booters`); a start works in a directory that
exists (`StartsInBuild`).  So when a stop, which has the lock, kills the keepers,
nobody is coming up, and nobody does until it has left (`SweptQuiet`); nor in a
build whose directory is gone (`GoneQuiet`).  `BuildsSeeDev` carries what the
docker toggle saw to the start of its build.

**`SessionProofs`**, *pair watch* — `PairTypeCorrect`, `AlertsFit` (`UnreadAlertsFit`),
`AlertsAfterGrace` (`AlertAfterGrace`).  `UnreadAlertsFit` is inductive in two parts, one unread
alert over both states (`OneAlert`) and none behind a settled pair (`AlertsSettled`),
once it is known that a remembered loss is one of a half (`ActiveIsPartial`);
`AlertAfterGrace` needs that the remembered age of a loss is at most what was
seen of it (`AgeIsSeen`).

Every safety invariant and action property of the passing runs is thus a theorem.
Only model-checked: all liveness (`CommandEnds`, `IdleMailIsNudged`, `LossIsTold`,
`WatchEnds`, `TurnEnds`, `OutcomeTold`, `Answered`), since liveness under fairness
and ENABLED are outside the prover; and the disagreement that `TeamConfirm` shows.
Proving changed three definitions: two CASEs of `Sessions` had overlapping guards,
which TLC reads from the top and the prover as an arbitrary choice, and the
requests of `GitPanel` were extended with an operator opaque to it.  No module
declares a RECURSIVE operator.  `IsNextFree` states what the search loop of
`_next_free_offset` returns instead of the loop.

## 5. Where the code and its comments disagree

`TeamConfirm` shows one.  The confirmation of a plan gives the start signal
"if there is no team yet" (`hooks/team/plan_readonly_gate.py` 23-24), which it
reads off the claim files (131-134, 185-195).  A claim stands from before its
spawn: when the spawn is refused, fails, or its teammate has ended, the
confirmation tells the lead that the team is up, gives no signal, and there is no
team; the same claim then refuses the spawn.

The following were met while modelling.  Where a property would be broken by
one of them, the property names it as its exception:

* **Wake** — a tick that finds the terminal gone or its agent dead leaves
  `idle_since` standing (`harness/daemon.py:709-727`, against the comment on
  `IDLE_CONFIRM_SEC`, 28-29); a session that consumed its mail and got as much
  again before the next tick is backed off as one that "isn't consuming" (743-748).
* **Pair watch** — an UPDATE that fails during a recovery is not tried again
  (306-307): the alert stays unread although the pair is healthy.  After such an
  error, or a restart at which the other half is found missing (361-364), the
  lookup for an older alert (284-288) matches that one, whichever half it names,
  and the present loss goes untold.
* **Watches** — a watch rewritten under its name during the probe or the notice
  is renamed away unanswered (635, 656).
* **Ports** — `.env` is tested before the lock and wired after it (`run.sh:1210`,
  `1233`): two runs of one project leave mediamtx ports of an offset the project
  no longer has, and which another will get.  A run killed after it wrote
  PORT_OFFSET leaves a .env that no scan counts and no later run completes
  (1210); `_wire_project_env` takes its offset all the same (1081-1093), and the
  next project is given the same one.
* **Sessions** — when Orca does not answer, nobody counts as alive, and a stop
  answers "already stopped" over live agents (`main.py:783`, `orca_runtime.py`
  98-113); delete runs outside the session lock that the comment at 730-735
  claims for every script; a `docker ps` or `ss` that times out counts as a free
  port, so a toggle may start a build over dev servers, or take containers for
  dev servers; and dev servers may start under a build still running.
* **Completion gates** — the regression evidence is any check newer than the
  baseline: one run for an earlier segment still counts for the next, where
  `plugins/cto/agents/reviewer.md` (142-143) says that the gate demands a run
  (`team_hook_common.py` 180-197).  A regression gate with nothing to run exits
  0 and leaves no state (`regression_gate.py:388-395`): the [review] then stays
  shut unless waived.
* **Spawn gates** — one unreadable team config ends the loop that looks for the
  roster (`start_project_spawn_nudge.py` 86-97): Stop then demands teammates that
  are there, up to its limit; the counter is not reset by a new signal.
  "Up to its limit" holds while the counter can be kept: a write that fails is
  swallowed (121-127) and a file that cannot be read counts as 0 (112-118), so a
  state directory that cannot be written blocks Stop without end, against the
  docstring's promise never to block for ever.  delete-cto leaves the draft and
  start markers.
* **Codex review** — the protocol runner ends in silence on a context that
  became invalid, which the review runner's own comment says must not happen.
* **Git panel** — an exclude whose `git ls-files` timed out takes a directory that
  holds tracked and untracked files for untracked (`main.py:1302-1321`): it skips
  `rm --cached`, appends the line and answers ok with the tracked files still in
  the index, against the comment at 1307-1310; a failed `write_text` of an include
  (1432) has truncated .gitignore first and may lose all its lines, where the
  answer only says that the write failed;
  excluding a tracked entry, unstaging and excluding it again
  answers "already" though it goes up; `freed` may name entries another line
  still covers; an include's read-modify-write of .gitignore loses a line
  appended meanwhile, and when its last check times out it answers ok; a timeout
  may leave index.lock; unstage may find "no commit yet" wrongly (timeout, or a
  commit in between) and empties the index against its docstring; an include that
  has deleted exactly ten lines says "still ignored" though the last one freed it.
* **Codex hooks** — a hook without a command is appended again by a retry, or
  after a crash between rename and unlink ("exactly once each", `tests/smoke.sh`
  658, holds for hooks with a command); a user's hook under another event whose
  command Orca also writes is taken out with Orca's; hooks.json may be back when
  Codex starts, as Orca writes it for every terminal; commands an older Orca
  wrote stay.

## 6. What is not modelled

* `reciepe-rec`, the frontend, the Orca runtime, systemd, prompts and skills, and
  the language models: not the harness's own logic.
* The stateless hooks and scans (git guard, format gates, static scans): pattern
  matching over one payload.  What the models need of them is their verdict.
* Of the session lifecycle: repair of two tabs of one title, recall of session
  ids, the CEO's own start and keeper, and shell routes that only print.
* Of the git panel: status, diff and detail routes, which only read.
* The composition of `Inbox` and `Wake` (a message to an idle live session is
  read, if the session answers "/inbox"): `IdleMailIsNudged` and `CommandEnds`
  are its halves; what joins them is the session, a language model.
* An abstract specification of `Sessions`: with Orca silent, a stop's answer
  promises nothing, so the promise is stated as `OkMeansQuiet` with its
  conditions.
