# NodeFetch node agent: TLA+ specification

NodeFetch runs one *node agent* per VPS: a FastAPI process on a single asyncio
loop that accepts URLs, lets an aria2 daemon download them, serves the files for
a limited time and removes them. This directory models the agent's core, checks
it with TLC and proves with TLAPS every safety property that the runs check.

## 1. Inventory

| Component | State it keeps | Operations | Talks to |
|---|---|---|---|
| Task table (`models/`) | rows: status, error, aria2_gid, storage_path, completed_at, ... | `mark_*`, sessions | everybody |
| TaskManagerAgent | none between ticks; one session at a time | `enqueue`, `tick_once` = sync, then fill | table, aria2, disk |
| DownloadWorkerAgent | HTTP client | addUri, tellStatus, forceRemove + removeDownloadResult | aria2 |
| aria2 (external) | downloads by gid, session file | start, complete, error, restart | disk |
| Task routes (`api/tasks.py`) | a session per request | POST, GET, DELETE, download link | table, aria2, disk |
| StorageAgent | none between rounds | `cleanup_expired`, `enforce_quota` | table, disk |
| SecurityAgent | none | `validate_url` | DNS, origin server |
| Node process (`main.py`) | two background loops | start, shutdown, Center registration | all |
| Settings (`config.py`, `.env`) | values cached per process | read once | environment, scripts |
| Health (`api/node.py`) | none | `GET /api/node/health` | table, aria2, disk |
| `manage.sh` | pid files | start, stop, restart, status | processes |
| `install.sh` | its environment | wizard (packages, venv, `.env`), menu over `manage.sh` | `.env`, pid files |

All coroutines share one thread, so code between two awaits is atomic with
respect to the other coroutines. At each await (a query, a commit, an RPC) every
other coroutine may run. aria2, the disk and the process's own end are never
atomic with anything.

What is hard, and what makes each component correct:

- **Sessions.** Rows are loaded with `expire_on_commit=False, autoflush=False`;
  a commit writes only the columns the session changed, over whatever the row
  holds by then. *Correct*: the columns of a row still agree (`RowsConsistent`),
  and no lost update revives a task (`NeverBackwards`).
- **Tick.** It counts free slots, picks rows, awaits addUri per row, commits.
  *Correct*: the strict limit (`SlotBound`), bounded retries (`AddsBounded`), no
  task starved or stuck (`EventuallySettled`), no status the documentation does
  not know (`ImplementsTaskQueue`).
- **DELETE.** It decides on a status it read before it awaits aria2. *Correct*: a
  cancellation holds (`CancelSticks`).
- **aria2.** It knows downloads the table has forgotten, and after a restart forgets
  some and takes others up again. *Correct*: only a fault (or a DELETE) makes one that
  no row knows of (`OrphansCounted`).
- **Storage.** Files go before the commit that says so. *Correct*: a completed
  task has its file, an expired one has none (`ServedUntilPurged`,
  `ExpiredIsFreed`), the quota holds and evicts the oldest, no more than needed
  (`QuotaEffective`, `EvictsOldest`, `QuotaStops`), every file goes in the end
  (`EventuallyExpired`, `FailedIsFreed`).
- **Links.** A GET of a link decides on a row it read before an await, while the
  file may go. *Correct*: the file that is sent is whole (`ServesWholeFile`) and the
  link lives as long as it says (`LinkOutlives`, `LinkServes`).
- **URL check.** Several ways to refuse, an outgoing request with its own
  failures, exceptions mapped to answers by class. *Correct*: each answer has its
  reason (`AnswersJustified`), clients are closed (`ClientsClosed`), a failing HEAD is no
  error (`HeadMayFail`).
- **Health.** Three reads, one rounded ratio (`VerdictWithinRounding`).
- **Two processes.** uvicorn runs the lifespan, and so the loops, before it binds the
  port, and keeps them running while a stopping process waits for its connections.
  Two processes then share table and aria2. *Correct*: rows stay consistent, a task is
  added again only after a fault, and ends (`RowsConsistent`, `AddsBounded`,
  `EventuallySettled` of the run `processes`).
- **File names.** Asked for, cleaned, chosen by a server, learned late, put into a URL
  and taken out again. *Correct*: one visible file in its directory
  (`FilesInTaskDir`), and a URL that finds it (`UrlLeadsToFile`).
- **Settings.** Four sources with old and empty keys, read by three programs at
  different times and rewritten by one of them. *Correct*: aria2 and the node agree
  (`ServicesAgree`), old keys keep their meaning (`OldTtlKept`), and whoever accepts what
  the wizard suggests keeps what was given (`WizardKeepsSettings`).
- **Scripts.** Any number of invocations over one pid file and the process table.
  *Correct*: nobody else's process is signalled (`OnlyServiceSignalled`); start
  starts one process (`LaunchIsSingle`, `StartOwnsPort`), stop leaves none
  (`StopStops`), the node goes before aria2 (`NodeStopsFirst`), and only the service is
  taken for it (`FindsOnlyService`).
- **Failures.** RPC time-outs (with or without effect), SQL errors, file system
  errors, a process that stops, an aria2 that restarts.

`PROJECT.json` lists every hazard at its line with the properties that watch it.

## 2. Modules

```
NodeState ── Aria2 ──┬── TaskManager ──┐
    │                └── TaskApi ──────┴── TaskLifecycle ── MCLifecycle
    ├── StorageAgent ───────────────────────────┤
    └── DownloadLink ───────────────────────────┴── NodeAgent ── MCNodeAgent
TaskLifecycle, TaskManager (INSTANCE, a second tick) ── NodeProcess ── MCProcess
UrlCheck, NodeHealth, TaskFile, NodeSettings ── MCParts
ServiceScript ── MCScript
TaskQueue (abstract)  <── INSTANCE in TaskLifecycle
NodeStateProofs ── TaskLifecycleProofs ──┬── TaskQueueProofs
                                         └── StorageAgentProofs ── NodeAgentProofs
NodeStateProofs, NodeProcess ── NodeProcessProofs
NodeSettings, UrlCheck, NodeHealth, TaskFile ── PartsProofs
ServiceScript ── ServiceScriptProofs
```

| Module | Models | Correspondence |
|---|---|---|
| `NodeState` | `models/task.py`, `models/database.py` | `db` is the table, `aria2[t]` the records of every addUri made for `t` (the index is the gid), `disk[t]` the directory of the task. `Load`/`Flush` are a session; `MarkStarted`, `MarkCompleted`, `MarkFailed` the model's methods; `RemoveDir` is `shutil.rmtree(ignore_errors=True)`; `Fault(k)` spends the fault budget. |
| `Aria2` | the external daemon, and what `DownloadWorkerAgent` calls | one action per transition a client can observe; `AriaRestart` starts it again with the session file that `manage.sh` has it save every 60 s: any set of the downloads it knew, finished and removed ones included, waits again, and the others are `lost` to it; `AddUri`, `TellStatus`, `ForceRemove`, `RemoveResult` are the calls, used by their callers' actions. Its directory handling matters: a download that starts late creates its directory again. |
| `TaskManager` | `agents/task_manager_agent.py` | `SyncLoad`, `SyncStatus`, `SyncCommit`, `FillCount`, `FillPick`, `FillAdd`, `FillCommit`: the code between two awaits each; `TickAborts` is an exception that leaves `tick_once`. |
| `TaskApi` | POST and DELETE of `api/tasks.py` | `Enqueue`; per handler `DeleteLoad`, then `DeleteQueued`, `DeletePurge`, or `DeleteForce` and `DeleteResult`, then `DeleteCommit`. |
| `TaskLifecycle` | the tick, the requests, aria2, process restarts | `NodeRestart` forgets the sessions and keeps table, aria2 and disk. The properties of the task life cycle and the inductive invariant are here. |
| `TaskQueue` | the documented life of a task | abstract: waits, downloads in a slot, ends, may be cancelled, expires. |
| `StorageAgent` | `agents/storage_agent.py` | `CleanLoad`/`CleanPurge`/`CleanCommit` are `cleanup_expired`; `QuotaList`/`QuotaGet`/`QuotaPurge`/`QuotaCommit` are `enforce_quota`, which lists in one session and purges in another. |
| `DownloadLink` | GET of a link in `api/tasks.py` | `LinkLoad` (the query), `LinkAnswer` (all checks, no await between them), `LinkSend` (the response opens the file). `NaiveTimes` says what the database makes of a time zone. |
| `NodeAgent` | the whole agent | adds the storage loop, the links and the clock to `TaskLifecycle`. |
| `UrlCheck` | `agents/security_agent.py`, the POST route | `EarlyChecks` is the list of checks up to the first await, each with its exception; `HeadRedirected` is another hop of HEAD, to a host nobody judged; `HeadFails`, `HeadTooLarge`, `HeadAccepts` are what comes of HEAD; `ErrorToHttp` is the route's table, tried in its order against the classes of the exception. |
| `NodeHealth` | `api/node.py` | one action per read; the ratio is an integer in units of 1/10000. |
| `NodeProcess` | the lifespan of `main.py`, for two processes | `Launch`, `InitDb`, `MakeFolder`, `Bind` up to the yield, `Stop` and `End` after it, `Kill` anywhere; `Tick` is a step of a loop or the exception that ends its tick, `DaemonRestart` a restart of aria2. The first process has the tick variables of `TaskManager`, the second an instance of it with its own. |
| `TaskFile` | the file name of one task, through `task_manager_agent.py`, `download_worker_agent.py`, `api/tasks.py` | `SafeFilename` is `_safe_filename`, `Told` what `_parse_status` tells, `FinalName` the choice at completion, `DownloadUrl` and `LinkReply` the two ends of a link. Names are sequences of the kinds of characters the code tells apart. |
| `NodeSettings` | `config.py`, the settings of `manage.sh`, the `.env` wizard of `install.sh` | `Computed` is what both scripts make of the sources, `Setting` what pydantic reads; `AskAll`, `WriteKey` (a `mv` each), `Written` are `generate_env`; `Default` and `WizardDefault` are what the services and the wizard use without a value, which differ. Values: `Unset` and `Empty` differ. |
| `ServiceScript` | `scripts/manage.sh`, the clean-up of `install.sh` | `Order` and `Current` walk the services of a call; `Read`, `Probe`, `Unlink`, `Find`, `Record` are `is_running`; `Launch` to `Alive` are `start_service`; `Gone`, `ForceKill`, `Remove` end both `stop_service` and a start that failed. `Find` takes the first of the sorted list, the search's own awk included; `Healthy` asks whoever listens (`ForeignStarts`). Processes start, listen, end and give their ids back at any time. |

The proof modules follow the modules they are about:

| Module | Proves |
|---|---|
| `NodeStateProofs` | what rows, sessions, slots and gids come to: lemmas for the others |
| `TaskLifecycleProofs` | `SessionsInv` and what follows from it, an action at a time |
| `TaskQueueProofs` | the node without DELETE implements `TaskQueue`; with any requests, the downloads nobody knows of are counted (`OrphansInv`) |
| `StorageAgentProofs` | sums of sizes, and what the storage loop reads and writes |
| `NodeAgentProofs` | `AgentInv`: files, links and the quota, and the results of `TaskQueueProofs` again for the whole node |
| `NodeProcessProofs` | `ProcessInv`: two overlapping processes |
| `PartsProofs` | settings, the URL check, the health verdict, file names; their inductive invariants are in it |
| `ServiceScriptProofs` | `ScriptInv`: any number of invocations of the scripts |

Abstractions. A row keeps the columns that control flow or a property reads (`path` says
whether `storage_path` is set; `error` says who failed the task). Tasks are numbers in the
order of `created_at`. Progress numbers, tokens and log lines are left out, file names
everywhere but in `TaskFile`. Rows of a sync session are asked in any order, those of a
fill session in `created_at` order, as the queries say. `rmtree` of several rows without
an await between them is a step per row: no other coroutine can tell. A POST whose commit
fails leaves only an empty directory without a row, which no property reads, and is not an
action. aria2's `paused` does not occur: nothing pauses a download. The expiry of a token
is `completed_at` + TTL, since `mark_completed` alone makes a row completed and sets both.
`UrlCheck` keeps of an address its class, that is, the first predicate of `ipaddress` that
holds for it (`shared` for 100.64/10, for which none does), and of a URL what each check
asks; the hosts HEAD reaches are not kept, as nothing relates them to those that were
judged. In `ServiceScript` writing the pid file is one step, a subshell has exec'ed by the
time its start has run curl once, process ids are handed out in any order, and one is not
reused while an invocation holds it (the kernel goes through all the others first).
`alone` records, for the properties, that neither another invocation nor a clean-up
overlapped, and at most one process of each service ran at the start; `misled`, that such
an invocation searched for a service that ran and got the awk of its own search. What an
interrupted invocation leaves behind, a process without a pid file, comes about through
`CleanRuntime` too. `NodeProcess` leaves requests for DELETE and the storage loop to the
other modules. `TaskFile` lets aria2 take directories and control characters out of a name
a server chooses, and has one step where FastAPI decodes a path. `NodeSettings` forgets a
service when a source changes: one that runs since before keeps the values it has. It has
the keys on which services and scripts could differ: `CONCURRENT_LIMIT`, `TTL_MINUTES`
with its old name, `ARIA2_RPC_SECRET`, `NODE_ID` and `ARIA2_RPC_URL` (whose port stays the
same); the others have one default everywhere and are read and written like
`CONCURRENT_LIMIT`, and `API_HOST`, whose default in `config.py` is another, is given to
uvicorn by the script. A wizard answer is what was suggested or one other value.

## 3. Runs

Bounds: `Tasks`, `Handlers` (DELETE requests at a time), `MaxFaults` (how many
faults of the `FaultKinds` a behaviour contains), `MaxTime` (when the clock
stops). Two tasks and one slot are the smallest instance in which a task waits
for another and a slot is contended; two handlers the smallest in which two
requests race for a row while the tick holds it; one fault hits any of the
sessions at any await. Deadlock checking is off: a node with all tasks settled
and no fault left only ticks, and a behaviour may end with the bounds.

| Run | Instance | Shows |
|---|---|---|
| `races` | 2 tasks, 1 slot, 2 DELETEs, 1 fault of RPC, file system or aria2 | types, `SlotBound`, `NeverBackwards`, `OrphansCounted`, and the inductive invariant `SessionsInv`, of which `RowsConsistent` is a part |
| `settled` | 2 tasks, 1 slot, a DELETE, an RPC fault or a restart; fair | every queued task ends and stays ended (`EventuallySettled`) |
| `documented` | whole agent, 2 tasks, 1 slot, no DELETE, 2 faults of any kind (RPC, table, file system, restart of the node or of aria2) | types; the status column implements `TaskQueue`, expiry included; a task is added again only after a fault (`AddsBounded`); aria2 works on no more downloads that no row knows of than there were faults (`OrphansCounted`) |
| `storage` | whole agent, files of 1 and 2 units, quota 2, a DELETE, an RPC fault | `ServedUntilPurged`, `ExpiredIsFreed`, `QuotaEffective`, `EvictsOldest`, `NeverBackwards`, and the inductive invariant `AgentInv` with the storage loop as a further writer |
| `expires` | whole agent, 1 task, a DELETE, a link request, a table fault or a restart of the node or of aria2; fair | `EventuallyExpired` through the fault, `LinkOutlives` and `ServesWholeFile` while none happened, and `AgentInv` with the clock, a link and these faults |
| `processes` | 2 processes, 1 task, 1 slot, 2 faults of a second start, a stop or kill, the table, the file system, an RPC, an aria2 restart; fair | types; `RowsConsistent`, `AddsBounded`, `EventuallySettled` for overlapping processes, and the inductive invariant `ProcessInv` |
| `parts` | every syntax, resolver outcome, up to two addresses of any class, every HEAD answer, lengths around the limit; quotas from 0 to a few units of the ratio and use around 0.95 and 1 of them; all names of up to 3 characters and paths of up to 4, file systems that take 2; old, empty and new keys in both sources, and what the wizard writes | `AnswersJustified`, `ClientsClosed`, `VerdictWithinRounding`, `FilesInTaskDir`, `UrlLeadsToFile`, `ServicesAgree`, `OldTtlKept`, `WizardKeepsSettings` |
| `scripts` | 2 invocations at a time (start all, restart all, status aria2), clean-ups, an aria2c started by hand, 3 process ids | `ScriptInv`, `OnlyServiceSignalled`, `NodeStopsFirst`, `LaunchIsSingle`, `StopStops`, `StartOwnsPort` |

`ExpiredIsFreed` holds while only RPC calls fail, or nothing failed yet: `storage` has no
other fault. `ServedUntilPurged` also holds through restarts of aria2: that is proved
(section 5). `OrphansCounted` makes an exception for a task that a DELETE cancelled. In
`expires` `EventuallyExpired` speaks of tasks that are due before the clock stops;
`LinkOutlives` and `ServesWholeFile` speak of behaviours in which nothing failed yet.
`MCSize` gives the second file two units, so that it alone fits the quota of two but not
beside the first. Parts that share no state are checked one at a time. One task is enough
in `processes`: what the second process adds is two sessions over one row. Three
characters put a separator, a dot and a plain character in any order, and four a directory
before a hidden file. Each key has at most one value per source, so that a result tells
where it comes from; secret, id and URL are only written by the wizard. A restart stops
the node, then aria2, and starts both. Three process ids let two invocations hold one each
while a third is reused.

### What the code does that its documentation does not say

Each run checks one statement and TLC finds a behaviour against it.

| Run | Behaviour |
|---|---|
| `cancel_overwritten` | DELETE cancels a queued task while the fill session awaits addUri; its commit makes the row downloading again, with `error='cancelled by user'`. |
| `link_naive` | SQLite drops the zone of `download_token_expires_at`; comparing it with an aware now raises, so no link is ever served. With `NaiveTimes = FALSE` the property holds. |
| `head_fails` | `_DefaultHeadClient` returns from a `finally` block that reads an unbound variable; a HEAD that fails is a 500, and its client stays open. |
| `start_skipped` | The search for a running service finds the awk that searches, because the keyword is among its arguments. On a machine where nothing runs, `start` says that the service already runs. |

More of them are stated in the modules and can be tried with other constants:

- `OrphansCounted` in `races` without its exception for cancelled tasks, even with
  `MaxFaults = 0`: DELETE read the row as queued; the fill session commits first; DELETE
  then writes failed and never calls aria2, which downloads on (`api/tasks.py:196`).
- `SlotBound` and `NeverBackwards` in `processes`: each process counts the slots on its
  own, and one may commit its fill over a row the other has completed since. `main.py:7`
  says `--workers 1`; `NODE_WORKERS` of `manage.sh` can say otherwise.
- `EveryUrlLeadsToFile` in `parts`: `api/tasks.py:93` does not quote the name, so that a
  `#` or `?` in it hides the token and `%41` is decoded to another name.
- `EnvironmentWins` in `parts`: `manage.sh:15` puts the environment before `.env`, but
  `source .env` overrides it.
- `EditsSurviveWizard` in `parts`: the wizard suggests what it read when its menu opened,
  and writes it over what was edited since.
- One failed tellStatus call (a time-out, say) fails the task for good while aria2
  downloads on, one lost answer of addUri leaves a download without a gid, and a restart
  after addUri one that is made again: `OrphansCounted` allows one for each.
- `CompletedMeansFile` with `FaultKinds = {"restart"}` and one handler: the process
  stops between the rmtree and the commit of a DELETE.
- `QuotaStops` with `FaultKinds = {"restart"}`, `TTL = 1`: after a restart in the middle
  of an eviction the directory is gone, `_purge_task_files` returns False where its
  docstring says True, and `enforce_quota` removes a second file although it fits.
  It also fails without a fault when a DELETE commits after the sizes were added up.
- `FailedIsFreed` (with fairness): nobody removes the files of failed tasks.
- `ExpiredIsFreed` without its condition (`Remembered`), in `expires`: a gid lost in a
  restart is never cancelled, and its download writes into the directory of a task that
  has expired; and an aria2 that is killed before it saves its session (`manage.sh:261`)
  takes a completed download up again when it restarts, with the same effect.
- `StopStops` and `NodeStopsFirst` without `misled`, in `scripts`: the list that is searched
  is sorted by process id, and once ids are used again the awk may come before the service
  (`manage.sh:154`); a stop then kills an id that is gone and reports success, and aria2 is
  stopped under a running node.
- `StartOwnsPort` without its condition, in `scripts`: an aria2c started by hand, as
  `README_NODE.md` 2.3 describes, has no `--save-session`, so that `start` does not find it,
  and answers `health_check` in the place of the one that was started and has ended.
- `StopStops` without `alone`: of two racing starts the second may end while its
  process is still starting; a stop then kills that one only.
- Two rows of the error table of `README_NODE.md` (166, 168) are other in the code, and
  `AnswersJustified` states what the code does: public and private addresses together are a
  `PRIVATE_IP_BLOCKED`, since validate_url only raises `SSRFBlocked`, and a host that is not
  resolved is a `URL_VALIDATION_FAILED`, since `UnreachableHost` has no row of its own.
  `DNS_REBINDING_BLOCKED` and `UNREACHABLE_HOST` are never sent. A malformed URL, port or
  label is a 500.
- Only the addresses of the first resolution are judged. HEAD resolves the name again and
  follows redirects (`security_agent.py:151`); nothing is claimed of what it reaches.
  100.64/10, which the comment in `security_agent.py:84` lists, is not `is_private` in
  `ipaddress` and is admitted (`Admitted`).
- The wizard suggests a secret and an id where none was given (`install.sh:534,540`) other
  than those the services use (`manage.sh:53,65`), and overwrites `ARIA2_RPC_URL` without
  asking (`install.sh:551`). `WizardKeepsSettings` speaks of the limit and the TTL, and of a
  secret and an id that were given.
- A link can be used more than once. A health scan that fails counts no bytes.
- A key that is empty in `.env` makes a node that is started by hand fail: pydantic
  takes the empty string for a value. `manage.sh` replaces it.
- `CENTER_URL` and `NODE_TOKEN` are no fields of `Settings`, so `getattr` finds neither and
  no node ever registers (`main.py:82`, against `README_NODE.md` section 6).
- The default `ARIA2_RPC_URL`, which the wizard writes too, ends in `/rpc`; the health
  checks of both scripts ask `/jsonrpc`, the only path where aria2 speaks JSON-RPC. The
  scripts can report a healthy aria2 that the node cannot reach.
- `_safe_filename` cuts at 480 characters, and file systems take 255 bytes: such a task
  is accepted and fails in aria2.
- A restart of one service after an edit of `CONCURRENT_LIMIT` leaves the two with
  different limits.

## 4. Fairness

`Fairness` (in `TaskLifecycle`) is weak fairness of the tick (`_tm_tick_loop` is
`while True`, catches every exception and sleeps 1.5 s), of a request that was
accepted (the server runs it to its end, and RPC calls have a 5 s time-out), and
of aria2 per task (it starts what waits when it has a slot, and ends it).
`AgentFairness` adds the storage loop, which is of the same form, and the clock.
`ProcessFairness` says that a process goes through its lifespan, that its connections
end or are cut (`manage.sh` kills what does not stop), that its loop ticks, and that
somebody starts the node when none is up (`restart: unless-stopped` in
`docker-compose.yml`).
Nothing makes requests arrive or faults happen, and no strong fairness is used.
aria2's fairness is the one assumption about the outside: without it a download
may hang for ever and so may its row, as in the real system.

## 5. Proofs

Every theorem is for any values of the constants, under the assumptions that the
modules name:

- `TasksAssumption` (tasks are a finite set of naturals: a table is finite, and its
  rows have an order), `LimitAssumption`, `TTLAssumption`, `FaultAssumption` (numbers);
- `StorageAssumption` (sizes and the quota are naturals), `LinkAssumption`;
- `PidsAssumption` (process ids are finitely many positive numbers),
  `CallsAssumption` (calls of `manage.sh` have a command and a target);
- `ValuesAssumption`, `UrlAssumption`, `HealthAssumption`, `NamesAssumption` (the inputs
  have their types; aria2 takes separators out of a name that a server chooses).

There is no bound on tasks, slots, requests, links, invocations, URLs, names or
values, nor on the faults, except where a theorem says so. Of the node processes there
are two.

| Theorem | States | For |
|---|---|---|
| `TypeCorrect`, `SessionsInvariant` | `TypeOK`, `SessionsInv` | `Spec` |
| `SlotsNeverExceeded`, `RowsStayConsistent`, `AddsStayBounded`, `StatusNeverBackwards` | `SlotBound`, `RowsConsistent`, `AddsBounded`, `NeverBackwards` | `Spec` |
| `NodeImplementsTaskQueue` | `ImplementsTaskQueue` | `Spec` without DELETE |
| `AgentTypesCorrect`, `AgentInvariant` | `AgentTypeOK`, `AgentInv` | `AgentSpec` |
| `AgentKeepsLifecycle`, `AgentNeverBackwards` | `SlotBound`, `RowsConsistent`, `AddsBounded`; `NeverBackwards` | `AgentSpec` |
| `AgentImplementsTaskQueue` | `ImplementsTaskQueue`, expiry and quota included | `AgentSpec` without DELETE |
| `OrphansAreCounted`, `AgentOrphansAreCounted` | `OrphansCounted` | `Spec`, `AgentSpec` |
| `CompletedAreServed`, `ExpiredAreFreed` | `ServedUntilPurged`, while `Intact`; `ExpiredIsFreed` | `AgentSpec` |
| `LinksOutliveCleanup`, `LinksServeWholeFiles` | `LinkOutlives`, `ServesWholeFile` | `AgentSpec` |
| `QuotaIsEffective`, `OldestAreEvicted` | `QuotaEffective`, `EvictsOldest` | `AgentSpec` |
| `ProcessInvariant`, `ProcessTypesCorrect` | `ProcessInv`, `ProcessTypeOK` | `ProcessSpec` |
| `RowsConsistentForTwo`, `AddsBoundedForTwo` | `RowsConsistent`, `AddsBounded` | `ProcessSpec` |
| `ScriptInvariant` | `ScriptInv` | `ScriptSpec` |
| `SignalsOnlyService`, `NodeStopsBeforeAria2`, `StartsOne`, `StopsAll`, `StartsTheAnswering` | `OnlyServiceSignalled`, `NodeStopsFirst`, `LaunchIsSingle`, `StopStops`, `StartOwnsPort` | `ScriptSpec` |
| `SettingsInvariant`, `ServicesAlwaysAgree`, `AcceptedSettingsAreKept`, `OldTtlIsKept` | `SettingsInv`, `ServicesAgree`, `WizardKeepsSettings`, `OldTtlKept` | `SettingsSpec` |
| `PostInvariant`, `AnswersAreJustified`, `HeadClientsClosed` | `PostInv`, `AnswersJustified`, `ClientsClosed` | `PostSpec` |
| `VerdictIsRight` | `VerdictWithinRounding` | `HealthSpec` |
| `FileInvariant`, `NamesStayInTaskDir`, `UrlsLeadToFile` | `FileInv`, `FilesInTaskDir`, `UrlLeadsToFile` | `FileSpec` |

`Intact` says that no fault happened yet, or that only RPC calls fail and aria2
restarts: the faults that cost neither a commit nor an rmtree. `ExpiredIsFreed` needs
`Remembered`: that aria2 does not restart either, because it may then take up again what
had completed or was removed.

### The life of a task

`SlotBound` and `RowsConsistent` are not inductive: a commit writes what a
session decided several steps ago. `SessionsInv` adds what must be known of every
open session for its commit to be harmless:

- `SyncSession`: a row the sync session loaded was downloading, can only have
  been cancelled since, and kept its gid; what the session will write is a legal
  end of it.
- `FillSession`: the rows the fill session picked were queued and never had a
  gid, can only have been cancelled since, and all of them *together with* the
  downloading rows fit the slots. `SlotsCounted` is the same between the count
  and the pick. Nothing but the fill session makes a row downloading, so the
  bound is stable under everybody else's commits.
- `Requests`: what a DELETE read limits what the row can be now, and what it will
  write follows from what it read.
- `AddsCounted`: an addUri of a task that waits again was lost by a fault.

The proof has a lemma per action (`TaskLifecycleProofs`), on top of lemmas about
sessions, slots and aria2's records (`NodeStateProofs`). `TaskQueueProofs` adds
`Undisturbed` (without requests nobody writes a row of an open session) and maps
every commit to a step of `TaskQueue`. With requests the refinement is false:
`cancel_overwritten`.

`OrphansCounted` is not inductive either: whether a download will be one that no row knows
of is decided when an answer is lost, long before the commit that says so. `OrphansInv` says
of the table, of the sync and the fill session and of every request that an error other
than `cancelled` was preceded by a fault or by an answer that says that aria2 no longer
works on that gid (`RowErrors`, `SessionErrors`, `RequestErrors`, `SaidEnded`). By
`AddsCounted` a task has at most one download more than there were faults; so if the row or
a session accounts for one of them, or one is over, those that are left are no more than the
faults (`FewWorking`), and a step that makes the number grow is a fault (`FaultGivesSlack`).
aria2 takes up again what was over only with a fault, the restart (`SlackStays`).

### The whole node

`AgentInv` extends `SessionsInv` by what the storage loop, requests and links may
rely on about a row they once read as completed:

- `Settled`: such a row is completed, failed or expired, and in no open session of
  the tick, so that only DELETE and the storage loop will write it again. This is
  why columns written over each other's commits do no harm.
- `StorageSession`, `QuotaSession`, `LinkSession`: the rows of each are settled and,
  if still completed, completed at the time that was read. `QuotaSession` adds that
  the listed rows are worked off in order, and that `freed` counts no more than
  the files that were removed; `QuotaEffective` and `EvictsOldest` follow from it.
- `FilesKept`, while `Intact`: one download at most was started for a task, its
  directory exists while it may be written, and a completed row has the full file
  unless somebody is between its rmtree and its commit. A download that is taken up
  again finds its file whole.
- `FilesFreed`, while `Remembered`: from the moment somebody read the task as completed
  aria2 writes no more, and its directory is gone once it was removed.

A first version of `Requests` was not inductive with the storage loop: a request
whose forceRemove is done (`result`) must be known to have read a downloading row,
or its commit could turn a row that expired meanwhile into a failed one. The
conjunct was added.

What sets of files sum to (`StorageAgentProofs`) is proved by induction over
subsets, as an instance of the library's theorem on least elements of a
well-founded relation, because induction schemes with an operator parameter
cannot be used. `RowsInv` is the part of `AgentInv` that holds through any fault,
`Unrivalled` the form of `Undisturbed` that the refinement without DELETE needs for
storage sessions.

### Two processes

With two ticks `SessionsInv` is false: both may hold the same row, and slots are counted
twice. `ProcessInv` keeps of it what survives the other tick's commits:

- Rows only gain. A row that has a path, a completion time or a gid never loses it, and
  one that was handed to aria2 is never queued again. So what a session has read of a row
  (`Held`) bounds what the row can have become by the time it writes, and a row of which
  one column is from either process is still sound (`RowSound`).
- `AddsOwed`: every addUri that was made for a task or is due is owed to the row, to a
  fault, or to a session that ends with its process. A process that was told to stop ends
  without a further fault, and takes its fill session with it; `Endings` counts those:
  the fault that started the second process pays for the end of one of them. A tick that
  fails loses its session with the fault that made it fail (`AbortedTickInv`).

Both ticks take the same steps on variables of their own. `Moves` states once what a
step does to one session and the table, `FirstMoves` and `SecondMoves` that the actions
of either tick do that, and every preservation lemma is about `Moves`.

### Scripts

`ScriptInv` says of every invocation what it knows of the process it holds (`Busy`:
it is of the service the invocation is busy with, or gone and its id not used
again), that a forked subshell is waited for by the invocation that forked it
(`ForksHeld`), and of one that runs alone that it knows every process of its
service and, in the order of a stop, that the services before it have none (`Knows`).
Without the first, a reused id could be signalled; without the last, a stale pid file or a
crash between two steps could leave a second process. An invocation whose search ended at
its own awk while the service ran knows less (`Sees`): a start believes that the service
runs and starts none, so `LaunchIsSingle` needs no exception, but a stop may leave it.

### Settings, URLs, health, names

`SettingsInv` says that services started since the last edit hold what the sources say
(`DaemonCurrent`, `NodeCurrent`) and which keys the wizard has yet to write
(`WizardCurrent`): between two writes old and new keys must not be seen to
disagree with the answer. `PostInv` says of a POST from the HEAD request on that no
earlier check refuses its URL, and of an answer which reason it has; `ChecksAre`
works out the order of the checks, `AnswersAre` that of the route's table.
`VerdictIsRight` needs arithmetic only: the ratio rounded to four digits is compared
with the bounds for any usage and any limit.

`FileInv` says that names have lost their directories before anybody uses them, that the
name in the row, the one in storage_path and the one on disk are the same once the task is
completed, and that nothing changes it while a link is out. The operators on strings are
not recursive: they cut at the first or last position of a kind, which is a largest or
smallest element of a finite set (`MaxIs`, `MinIs`). `SafeFilenameIs` follows the name
through them, for strings of any length.

### Only model-checked

- Liveness (`EventuallySettled`, `EventuallyExpired`): TLAPS 1.4.5 does not reason about
  ENABLED, which fairness is made of.
- What TLC finds violated.

No module declares a RECURSIVE operator.

## 6. Not modelled

- Registration with the Center: dead code, see section 3. `ping` and `aclose` of the
  worker have no caller.
- The storage loop of a second process: its commits write expired over completed rows
  only, like those of the first, which `storage` checks against every other writer.
- The installer beyond `.env` and the pid files (system packages, venv, pip, uninstall)
  and packaging: sequential file and package operations. `logs` and `check` only read.
- The list of tasks is GET of several; fields of the schemas that are merely copied.
- HTTP clients: each request for health, and each POST and DELETE, makes one that
  nobody closes; nothing in the code observes them.

## 7. Plan

Done: the task life cycle with its abstract specification, the storage loop, links, the
URL check, health, two processes, file names, settings with the wizard, the service
script with both services; and for each of them a theorem for every invariant and every
action property that a passing run checks.

Left:

1. The parts of `SessionsInv` for two processes whose slots are counted once: what
   `NODE_WORKERS` would need to be safe.
2. A form of `TaskQueue` in which a cancelled task may run again, so that the node with
   DELETE requests has an abstract specification too.
3. The race of the health scan with aria2 (`api/node.py:57`), the one hazard without a
   property.
