# Feature flags and their planning tools: TLA+ models, checks and proofs

A verification development for the two programs of this repository:

* `src/feature-flags`, a service that stores feature flags in PostgreSQL, serves
  evaluations of them from the memory of every API process, and keeps those memories
  up to date over Redis publish/subscribe;
* `src/.github/get-shit-done/bin`, the command line tools with which the repository's
  coding agents plan and track work in `.planning/`: a roadmap, a state file, phase
  directories, workstreams and a configuration file.

Paths below are relative to `src/feature-flags/`; names like `phase.cjs` or `core.cjs` are files of
`src/.github/get-shit-done/bin/lib/`. Line numbers are those of the commit in the repository.

## 1. Inventory

| Component | Source | State | Operations |
|---|---|---|---|
| Write API | `src/api/v1/flags.py`, `src/api/v1/environments.py`, `src/api/deps.py`, `src/models/{flag,audit}.py`, `src/infra/database.py`, migration 001 | tables `flags` and `audit_logs`; per request a session with the loaded flag object, its loaded column values and a staged audit entry | create, PATCH, delete a flag; enable/disable an environment; add, replace, delete a targeting rule; flush, refresh, publish, commit, rollback |
| Replica cache | `src/main.py` (lifespan), `src/core/cache.py`, `src/infra/redis.py` | per process: phase, dictionary of flags, listener, connection buffer, handler tasks | load, warm up, serve, subscribe, receive, handle a message, back off and retry, shut down |
| Evaluation | `src/core/{evaluation,hashing,targeting}.py`, `src/schemas/evaluation.py`, `src/api/v1/evaluation.py` | none (reads the cache) | evaluate one flag, or up to 50, for a user, an environment and attributes |
| SDK | `sdk/feature_flags_sdk/{client,cache}.py` | TTL cache, lazily made HTTP client | `is_enabled`, `get_variant`, `close` |
| Webhooks | `src/api/v1/webhooks.py`, `src/models/webhook.py` | tables of webhooks and deliveries; retry coroutines | register, list, remove, deliver with retries |
| Authentication, roles, rate limits | `src/api/deps.py`, `src/main.py` | none of this program's | refuse or admit a request |
| Configuration, metrics, logging, seed script, Alembic, tests | the rest | – | – |
| Phase numbers, roadmap, phase directories | `core.cjs`, `phase.cjs`, `roadmap.cjs`, `milestone.cjs`, part of `commands.cjs` | `ROADMAP.md`, `REQUIREMENTS.md`, three lines of `STATE.md`, `phases/`, `milestones/` | add, insert, remove and complete a phase; update progress; tick requirements; complete a milestone; scaffold |
| Planning queries and validators | `init.cjs`, `roadmap.cjs`, `commands.cjs`, `verify.cjs` | none | find and list phases, analyze, the manager's dashboard, the contexts of the workflows, progress, stats, consistency |
| STATE.md commands | `state.cjs` | `STATE.md` and its lock file; in each process the text it read and edited | ten commands that edit the file, and its readers |
| Workstreams, todos, signals | `workstream.cjs`, `core.cjs`, `commands.cjs`, `state.cjs` | `.planning/workstreams/`, archives, the active-workstream marker, `.gsd/` | create with migration, complete with archiving, set, get, status, list, progress; todo complete; waiting signal |
| Configuration and health | `config.cjs`, `core.cjs`, `verify.cjs` | `.planning/config.json` | set, create, set a profile, migrate while loading, repair |
| Dispatch, other contexts, git, text tools, profile, screening, agents and skills | the rest of `bin/` and `src/.github` | – | see section 7 |

**Interactions.** A write request reads the flag, changes the object in memory and
stages an audit entry; the flush writes both; then it publishes
`{"flag_key", "version", "action"}` on Redis, and only afterwards does the dependency
`get_session` commit. Each replica loaded all flags when it booted; its listener starts a task per
message, and the task drops the flag from the process's dictionary. Evaluations read
only that dictionary. The SDK asks the evaluation endpoint over HTTP and
caches the answer.

The planning tools are processes of their own, started by agents that work in parallel. They share nothing but
files: each reads one or more of them, decides, and writes them back, with a lock file only for the write of `STATE.md`.
The roadmap, the directories and the state file describe the same phases, and every query
joins them anew. Workstreams move all of it one directory further down.

**What is hard here.**

* Requests interleave at every `await`: between the SELECT and the flush, between the
  flush and the PUBLISH, between the PUBLISH and the COMMIT. The unique key, row locks, the
  foreign key of the audit log and the columns SQLAlchemy chooses to write decide what a
  race leaves behind.
* Invalidation precedes the commit, is sent at most once, reaches only connections that
  are subscribed at that moment, and is handled in a task of its own.
* A replica reads the database before it subscribes.
* A transaction can fail in the flush (JSON serialization, foreign key, unique key, row gone), in
  the commit (a DELETE flushes there), or by the death of its process before or after the
  COMMIT took effect.
* Evaluation has five levels of precedence, ties between rules, Python's equality and
  `float()`, and buckets with cut-offs at 0 and 100 percent.
* Phases have numbers with letters and decimals, written with and without padding, in headings, checkboxes, table rows and
  directory names; removing one renames all later ones, one rename at a time.
* `STATE.md` is read before its lock is taken; locks go stale, are stolen, and are left by processes that die. The file is truncated
  before it is written, and its front matter is found by the same searches as its body.
* A migration or an archiving is a row of renames of which any may fail, with a rollback whose renames may fail
  too, while other processes work in the same directories.
* A milestone may number its phases again from 1 while the shipped ones are still in the roadmap and in the archive.

**What makes each part correct.** Write API: no lost or revived rows, every change audited in
its own transaction, untouched columns kept, history protected, every request
answered. Replica cache: a replica is outdated only while an invalidation is on its way;
it always comes back to the channel. Evaluation: the documented precedence, a
rollout that never loses users, a disable that works. SDK: an answer comes from the API or
is the caller's default. Planning tools: the queries agree with each other and with the
disk; no command loses executed work; a file that several agents write is one consistent text; a move of
directories happens as a whole or not at all; a setting changes when it is set and not otherwise.

`PROJECT.json` lists every component and, under "hazards", each of these at its line.

## 2. Modules

| Module | Models | Extends / uses |
|---|---|---|
| `FlagStore` | the write API and its two tables | – |
| `FlagStoreProofs` | type correctness and safety of `FlagStore` | `FlagStore` |
| `ReplicaCache` | the processes as readers: lifespan, cache, listener; Redis as environment | – |
| `SnapshotCache` | abstract specification of what the caches promise | – |
| `FlagPlatform` | requests and replicas together | instances of `FlagStore`, `ReplicaCache`, `SnapshotCache` |
| `Targeting` | conditions, rules, their order, as pure operators | – |
| `Evaluation` | the precedence chain over the table of flags | `Targeting` |
| `EvaluationProofs` | theorems about it | `Evaluation` |
| `SdkClient` | the SDK shared by threads | – |
| `SdkClientProofs` | what it answers, for every instance | `SdkClient` |
| `FlagPlatformProofs` | its types, the two refinements, when a cache may be stale | `FlagPlatform`, an instance of `FlagStoreProofs` |
| `PhaseNumbers` | the order and the forms of phase numbers | – |
| `Roadmap` | `ROADMAP.md` as a sequence of sections, and the edits of it | `PhaseNumbers` |
| `PlanningTree` | the commands that change roadmap, requirements and directories; the agents' files | `Roadmap` |
| `PlanningQueries` | the commands that only read them | `PlanningTree` |
| `PlanningProofs` | theorems about numbers, edits of the tree and the queries | `PlanningQueries` |
| `StateFile`, `StateFileProofs` | `STATE.md` under its commands and its lock; theorems about it | – |
| `Workspace` | workstreams, archives, marker, todos, signal; rename by rename | – |
| `ConfigFile` | `config.json`: commands, migrations on load, repairs | – |
| `PlanningRoot` | both together with the health check | `Workspace`, `ConfigFile` |
| `WorkspaceProofs` | what every step does to directories and jobs, and their types; what a command knows of the tree: nothing lost, all or nothing, sealed archives | `PlanningRoot` |
| `PlanningRootProofs` | settings, the marker, the types of `.planning/` | `WorkspaceProofs` |
| `MC…` | the small instances TLC checks | the module named |

### FlagStore

`flags` and `audit` hold *committed* rows. `work[s]` is a request in flight: its stage, the flag
object its session holds, the column values (`loaded`) the session believes are stored, and the
staged audit entry. `reply[s]` is what the client got.

One handler action per route (`CreateFlag`, `UpdateFlag`, `DeleteFlag`, `EnableFlag`, `DisableFlag`,
`AddRule`, `UpdateRule`, `DeleteRule`) covers the SELECT and everything up to the next
`await`; `CreateConflict`, `NotFound` and `RuleNotFound` are the early returns. Then `Flush`/`FlushFails`
(flush and refresh), `Publish` (whatever its outcome: a failed PUBLISH is swallowed), and
`Commit`, `CommitDelete` or `CommitDeleteFails`. `Abort` is the death of the process or of its connection.
A commit may be `acked` or not: the process may die between COMMIT and answer.

Details of the code that the model keeps, because the properties depend on them:

* SQLAlchemy writes the version and only those columns that differ from what the session loaded
  (`Written`).
* `dict(flag.environments)` copies one level. Enabling and disabling build a new dictionary for the
  environment; the rule routes assign into the dictionary the session loaded, so loaded value and new
  value are equal and the column is left out (`SetRules`). Configuring a new environment through
  `AddRule` is stored.
* An UPDATE whose row is gone raises `StaleDataError`; a DELETE whose row is gone is only
  warned about.
* A DELETE is flushed in the commit, after the announcement.
* The audit entries of create, PATCH and delete contain a UUID and datetimes, which the engine's default
  JSON serializer refuses (`JsonDefault = FALSE` is the code as deployed; `TRUE` is the engine of
  `tests/conftest.py`, which brings a serializer of its own, and lets the races behind the failure be
  seen).
* `ForeignKeys = TRUE` is the migration's `ON DELETE RESTRICT`. Nothing relates the two ORM models, so the order
  of the two INSERTs of a create is the unit of work's choice: the flush of a create may fail or not. `FALSE` is a
  database that does not enforce the key (SQLite, as in the tests).

The database is PostgreSQL at READ COMMITTED: an action that needs a row or a key written by an
open transaction waits (`Blocked`).

### ReplicaCache, SnapshotCache, FlagPlatform

A replica boots (connects, SELECTs all flags), installs them and starts to serve, and its listener
then subscribes. `Broadcast` delivers to the listeners subscribed *now*; `RedisDown` breaks every connection;
what a broken connection held is lost; the listener backs off and retries. `RunHandler` drops the flag,
for "update" and "delete" alike and whatever the version. `FlagPlatform` lets a request's `Publish` be the
`Broadcast` and lets `Boot` read the committed rows. `missed` is a history variable:
the keys of which an announcement went by this replica.

`SnapshotCache` is the abstract promise: what a replica serves for a flag is the row that was
committed when it loaded, or nothing; an entry is never changed in place and never filled again. `FlagPlatform`
implements it with `view[r]` = the replica's dictionary.

### Targeting, Evaluation

JSON values are opaque; constants say which are equal for Python, what `float()` makes of them, which
texts contain or start which, what a list holds. The rules of an environment are a sequence in the order they
were sent; `Sorted` is Python's stable sort by priority, given by the place each rule ends at (those of lower priority and those
of the same listed before it come first). `Hash` is any function to the integers (it stands for
mmh3 with the fixed seed); `ComputeRolloutHash` and `IsInRollout` are the code's arithmetic on it. `Normal` is
`strip().lower()`: contexts apply it to the environment, the routes and bodies do not.
The state is the table `flags` with the parts evaluation reads, and the actions are what committed requests leave
there, one at a time: how they race is the business of `FlagStore`, and how late a replica is of
`FlagPlatform`. Replacing the rules of a configured environment stores nothing (section 5) and is therefore no
action here.

### SdkClient

Each call goes through `Lookup` (the cache, under its lock), `EnsureClient` and `ReadClient`
(`_get_http_client`; `close()` can come in between), and `PostSucceeds` or `PostFails`. `Missing` and `Failed` are the
two `_SENTINEL` objects of `cache.py` and `client.py`. They are different objects, so in the code as it is
only `Start`, `Lookup`, `Close` and `Expire` can ever be taken: this is finding 2, and the
reason why the module has no passing run. Two hazards wait behind it: a `close()` between the test and the read of
`_http`, which the model contains, and a cache key that leaves out the attributes.

### PhaseNumbers, Roadmap, PlanningTree, PlanningQueries

A phase number is a whole number, a letter and a sequence of decimals; `Before` is `comparePhaseNum`. What users and
files write is a reference: a number and whether it is padded. `roadmap` is the sequence of the phase sections of
`ROADMAP.md`; a section has its heading, checkbox, table row, requirements and dependency, and says whether it is in a part
that has shipped, which is how the code's unscoped replacements reach what they should not. `todo` is the line `- [ ] TBD (run /gsd-plan-phase N to break down)`
of a phase that `phase add` or `phase insert` wrote (`phase.cjs:357`, 430): the tools' patterns take it for the phase's checkbox, so `phase complete` ticks it, and
it keeps its number when phases are renumbered (`BoxRef`). The current milestone is what is left without the shipped part: the code first cuts by the version in `STATE.md`
(`core.cjs:813-880`), which gives the same as long as one `<details>` block precedes the current milestone and nothing follows it; a milestone planned
ahead is not modelled. `dirs` maps the name of
a directory (number and slug) to what it holds: plans, summaries, context, research. `archive` holds the directories
of completed milestones.

One action per command that writes: `PhaseAdd`, `PhaseInsert`, `PhaseRemove`, `PhaseComplete`, `UpdatePlanProgress`,
`MarkComplete`, `MilestoneComplete`, `ScaffoldPhaseDir`, `ScaffoldContext`, and `AgentWrites` for what agents put
into a directory between them. Each command runs on its own here; how processes overlap is the
business of `StateFile` and `Workspace`. `PhaseRemove` renames directories in the order the code sorts them and stops at the first name that
is taken, and rewrites headings with the loop of `updateRoadmapAfterPhaseRemoval`
(`RenumberedInt`).

`PlanningQueries` has the commands that read: `phases list`, `find-phase`, `roadmap analyze`, the manager, `init progress`,
`execute-phase`, `plan-phase`, `verify-work` and `phase-op`, `progress`, `stats`, `validate consistency`. They are operators over the state, and the
invariants of `planning` compare them with each other.

### StateFile

`file` is the text on disk: front matter or none, fields (bold or plain lines), the Current Position section, decisions,
blockers, metrics. `pend[p]` is the text a process is about to write. A command reads and edits in one step
(`Issue`), then goes through `Acquire`, `Refused`, `Retry`, `ClearStale`, `GiveUp`, `CannotLock`, `Truncate`, `Write` and
`Unlock`, each one system call; `Crash` may come anywhere. `Shadowed` is the code's search order: a plain line `Status:` is looked
for in the whole text, and the front matter comes first. The front matter that `workstream create` writes (`workstream.cjs:128-131`) has neither status nor
progress (`front.status = None`) and therefore shadows nothing; the first state command replaces it by a derived one, with which its own keys are gone. `forced` is a history variable: somebody went on without a lock or removed
another's. What a command does to a field is what `stateReplaceField` and `updateCurrentPositionFields` do to the text; the counter of plans
has both forms the code knows, two fields or one line "2 of 6".

### Workspace, ConfigFile, PlanningRoot

A directory maps each entry (roadmap, state, requirements, phases, both todo lists, signal) to the pieces of work it holds, so that nothing can get
lost or be doubled unseen. `job[p]` is a process under way, with one action for each time it looks and each time it acts:

* `workstream create`: the early returns and `.planning/workstreams/` itself (`cmdWorkstreamCreate`); a migration checks that there is none (`migrateToWorkstreams`), makes its directory
  (`PlantDir`) and renames one entry after the other (`MigrateMove`, `MigrateRollback`); then `MakeDir`, `FinishCreate`. Between the check and the mkdir another
  migration may do the same.
* `workstream complete`: whether the workstream is there and active (`cmdWorkstreamComplete`), the marker and a free suffix (`ChooseArchive`), mkdir -p
  (`MakeArchive`), the listing (`ListEntries`, `ListFails`), one rename each (`ArchiveMove`, `ArchiveRollback`), rmdir (`FinishComplete`). Two completes may
  choose one archive.
* The other commands settle on a directory when their process starts (`Resolve`: the flag or the environment variable as they come, the marker only while its
  workstream exists) and use it later without looking again: `cmdTodoComplete` and `UnlinkPending`, `cmdSignalWaiting`, `cmdSignalResume`, `ScaffoldPhaseDir`,
  `AgentWrites`, and the health check.
* `workstream set` is one step: a `complete` that comes between its check and its write leaves a marker that names no workstream, and so does a `set` that comes
  while the entries are being archived, which the model has.

`Fault` is a rename that fails, with its effect on the rollback. `before` in a job is the tree the command started from, for as long as no other process has taken a step.

`ConfigFile` keeps the keys the code treats differently (flat or nested, old names). A command's `todo` is the list of texts it will write;
each takes a `Truncate` and a `Write`. `loadConfig` is a command too, because it migrates what it reads. `PlanningRoot` interleaves both, and its
`Health(p, e)` repairs `STATE.md` in the directory `p` settled on and has `e` repair `config.json`.

## 3. Runs

| Run | Instance | Checks | Shows |
|---|---|---|---|
| `races` | 1 key, 3 ids, 2 labels, 2 sessions, 3 requests, foreign key off, serializer on | `TypeOK`, `VersionBounded`, `RowIdentity`, `AuditedChanges`, `ColumnsKept` | every endpoint against every other, with rollbacks and lost processes |
| `fk` | 2 keys, 3 ids, 2 sessions, 3 requests, foreign key on | `HistoryProtected`, `WritersOwnRows`, `Answered` | no audit entry without its flag; mutual exclusion of writers; every request ends |
| `caches` | 2 sessions, 2 requests, 1 replica, 2 boots, 2 outages | `TypeOK`, `StaleExplained`, `ImplementsSnapshotCache`, `InvalidationApplied`, `Resubscribes` | when a replica can be outdated; the refinement; messages that arrive take effect; the listener survives |
| `evaluation` | 1 flag, 2 spellings of an environment, 4 users, 7 JSON values, 7 rule lists, 4 percentages | `TypeOK`, `PrecedenceFollowed`, `RolloutSticky`, `KillSwitch`, `ListOrderIrrelevant` | every table against every context |
| `kill_switch` | as deployed, 2 sessions, 2 requests; production on, staging off with a rule | `TogglesAudited` | violated: finding 1 |
| `sdk_fallback` | 2 threads | `AnswersFromApi` | violated: finding 2 |
| `planning` | 2 commands, 2 agents' files, 2 initial roadmaps | `TypeOK`, `ViewsAgree`, `ExactPhaseFound`, `NoParallelDependency`, `ConsistencySound`, `ContextsCurrent`, `ExecutedWorkKept`, `LastPhaseIsLast` | the queries agree about every tree that commands and agents leave behind, and no command loses executed work |
| `renumber` | the same, fresh roadmap | `RenumberedApart` | violated: finding 3 |
| `state_file` | 2 processes, 2 tries at the lock, 2 commands, 5 initial files | `TypeOK`, `FrontMirrorsBody`, `ReadersAgree`, `OneWriter`, `PlanInPhase`, `StatusSurvives`, `CommandsEnd` | one consistent text whatever races, broken locks and crashes there are |
| `state_lost` | 2 processes, 2 notes, the template | `ToldDecisionsKept` | violated: finding 4 |
| `workspace` | 2 workstream processes, 1 config process, 2 names, 2 failing renames, 1 crash, 3 commands, 1 new piece of work, 2 initial files | `TypeOK`, `CollisionsSeen`, `NothingLost`, `AllOrNothing`, `ArchiveSealed`, `NotResurrected`, `SettingsKept` | moves of a command that nobody disturbs are whole and lose nothing; archives stay; nothing gone comes back through the marker; settings change when they are set |
| `archive_lost` | 2 workstream processes, 1 name, 2 commands, no rename fails by itself, no crash | `ArchivedForGood` | violated: finding 5 |

**Bounds.** Every counter is bounded by a constant: `MaxRequests`, `MaxBoots`, `MaxOutages`, `MaxClients`.
Two concurrent sessions show every pairwise race (the locks and keys involve two
transactions at a time), and the third request of `races` and `fk` meets what two left behind: an uncommitted row, a
deleted key that is created again, an audit history. Two keys matter only where a deletion could be confused with
another flag's history (`fk`). Two boots let a restarted replica load a row whose announcement is already out; replicas do not act on each other, so
`caches` has one, and what the safety properties say of several is proved. `FlagIds` has an id more than a
run of three requests on one seeded key can use up, so no create is cut off. The users' buckets are 0, 4999, 5000 and
9999, on both sides of the thresholds 0, 1, 50 and 100 percent; one hash is negative. Rules 1
and 2 tie and overlap, rule 3 precedes rule 2 and overlaps with it. `SYMMETRY` is used
for sessions, processes and names of workstreams, and only in runs without liveness properties.

`planning` takes two commands with up to two agents' files in between: enough to insert and then remove, to complete and then add, to
finish a milestone after a phase. One initial roadmap is a fresh chain of three phases, the other counts again from 1 beside a shipped
milestone. Whole numbers go up to `MaxInt` = 4, which lets one phase be added, and decimals to `MaxDecimal` = 2, which lets both commands insert. Each phase depends on at most one other; a directory always exists
on disk once made (the tools put a `.gitkeep` there). The proofs about numbers have no such bounds. `state_file` allows two tries at the lock
where the code has ten: what matters is that a process may be refused, wait, and be the last to try. Its five files are
the template, the same after a first command, one without a status, the older bold fields, and that of a new workstream, as `workstream create` writes it. `workspace` allows two failing renames, so that
two commands may fail one after the other, and one crash. `NothingLost` and `AllOrNothing` are about steps in which at most one rename fails
(`SingleFault`): a rollback is one step here, and one whose own renames fail too does lose work (see "Met while modelling").
Two names are enough for a migration into one workstream on the way to another; the three commands are, for instance, a `complete` and a `set` that race and
a command that finds the marker they leave. `config.json` is absent at first, or has keys the loader migrates, a flat key that hides a nested one, and lacks one the health check adds.
With one config process only the health check shares the file with it; the theorem is about any number. All archives are made on one day, so that the suffix matters.
`CHECK_DEADLOCK FALSE` stands in the runs whose clients stop after `MaxRequests` or whose commands end with `MaxCommands`.

**Fairness.** `FlagStore!FairSpec`: a handler that was started is run by the event loop as long as it can
(weak fairness of `Advance` per session); no client has to send, no process has to die. A lock wait
is a disabled `Advance`, so `Answered` also says that the holder of the lock ends. `FlagPlatform!FairSpec`
adds the replica's own steps (connection errors surface, the listener and its tasks run) and that Redis
comes back after an outage (`docker-compose.yml`: `restart: unless-stopped`). Nothing is assumed of boots, stops or the start
of an outage. `StateFile!FairSpec`: the operating system goes on running a command process (weak fairness of
`Continue(p)`); nothing is assumed of when commands are issued or die. That the lock is granted is not assumed: the number of
tries bounds the wait. The other planning modules state no fairness and no liveness.

**Mutants.** Every property of a passing run has one definition in `PROJECT.json` "mutants" that changes the code the way a bug would, and
violates it; the mutated definitions stand next to the real ones and are marked `Mutant:`. They are used by nothing.

In `evaluation` all spellings of the environment mean production: that a disable leaves other environments alone is shown by the theorem `Killed`, not by the run.

**Violations.** Five runs check one property each, stated by a comment or a document of the repository, and TLC finds a behaviour of the code
that breaks it (section 5).

## 4. Theorems

All proofs are for every value of the constants (keys, sessions, environments, hash functions …) under the named
assumptions of the modules: `DeploymentAssumption`, `NullAssumption`, `SeedAssumption` (`FlagStore`), `JsonAssumption`
(`Targeting`), `EvaluationAssumption` (`Evaluation`), `NoneAssumption`, `InitFilesAssumption`, `CountsAssumption`, `TriesAssumption` (`StateFile`),
`NoRefAssumption` (`Roadmap`: "no phase" is not a reference to one), `PlanningAssumption` (`PlanningTree`: the roadmaps a project starts with are
sequences of sections whose decimals count from 1, as `phase insert` counts them, `phase.cjs:411-420`, and whose whole numbers are within the bound; a phase has finitely many plans),
`NamesAssumption` (`Workspace`: a name is text and no number), `BoundsAssumption` (`Workspace`: the initial project's five pieces of work have a number each), `ConfigsAssumption`
(`ConfigFile`: an initial `config.json` is absent or parses), `CommandsAssumption` (`PlanningRoot`), and the
assumptions that absent values are told apart from present ones. TLC evaluates them in the passing runs. No proof depends on how large the bounds on requests, commands, tries or crashes are.

| Theorem | Property | Argument |
|---|---|---|
| `FlagStoreProofs!TypeCorrect` | `TypeOK` | inductive; one step per action (`HandleTypeOK`, `AdvanceTypeOK`) |
| `…!RowsOwned` | `WritersOwnRows` | inductive with `TypeOK`: a commit can only touch a row or key no other writer holds (`WritersRowKept`) |
| `…!HistoryKept` | `HistoryProtected` | an entry is logged only together with a stored row, and `CommitDelete` is disabled by the foreign key; needs `WritersOwnRows` for the row an update logs |
| `…!VersionsAudited` | `VersionBounded` | not inductive alone, because a session may hold any version; it is together with `WorkCounted`: an object in memory is at most its own change ahead of the log, and the log never shrinks (`LogGrows`) |
| `…!IdsFresh` | `FreshIds` | the id of a create is unknown to rows, log and other requests until its commit |
| `…!RowsKeepIdentity` | `RowIdentity` | from `WritersOwnRows` and `FreshIds` |
| `…!EveryChangeAudited` | `AuditedChanges` | only the two commits write (`StepEffect`, `LogEffect`), and each writes row and log |
| `…!ColumnsWrittenOnce` | `ColumnsKept` | `ChangesExplained`: what a request would change is what its entry says, against the columns it loaded before its flush and against the row itself after it |
| `EvaluationProofs!TypeCorrect` | `TypeOK` | inductive |
| `EvaluationProofs!RolloutStable` | `RolloutSticky` | `IsInRollout` is monotone in the percentage for every bucket in 0..9999 (`RolloutMonotone`), and nothing before it in the chain reads the percentage |
| `EvaluationProofs!Killed` | `KillSwitch` | an evaluation reads the default value and one environment (`EvaluationLocal`); a disabled one stops at the second level |
| `EvaluationProofs!ChainFollowed` | `PrecedenceFollowed` | no two rules have the same place in the sorted list and there are as many places as rules, so every place is taken (`PlacesTaken`) and the first match is the matching rule of lowest priority (`WinnerFound`, `OneWinner`); then one link of the chain at a time (`FirstReason`) |
| `EvaluationProofs!ListOrderIgnored` | `ListOrderIrrelevant` | a list with the same rules is a permutation of the old one (`SameRules`), so the same rule has the lowest priority among those that match (`SameWinner`) |
| `SdkClientProofs!ApiNeverAsked` | – | finding 2 for every instance, provided the two sentinels differ: no call gets beyond its lookup (`Stuck`), so nothing is cached and no request is sent |
| `FlagPlatformProofs!ImplementsFlagStore` | – | a step of the platform is a step of `FlagStore` or leaves its variables alone, so every theorem above holds of the deployed system |
| `…!TypeCorrect` | `TypeOK` | inductive, over the types of the store |
| `…!CachesAreSnapshots` | `ImplementsSnapshotCache` | initial states map to initial states; each action is an abstract load, forget, unload or commit, or a stutter |
| `…!StalenessExplained` | `StaleExplained` | not inductive: when the commit comes, the explanation must be there already. `Covered` says that it is from the announcement on, `Unloaded` that a replica that does not serve holds nothing |
| `PlanningProofs!OrderTransitive`, `…!OrderAsymmetric` | – | `comparePhaseNum` is a strict partial order for numbers with any letters and any depth of decimals, so a sort by it means something |
| `…!InsertedInPlace`, `…!SiblingsInOrder` | – | an inserted decimal comes after its phase and its earlier siblings and before every later whole phase |
| `…!ExactPhase` | `ExactPhaseFound` | every number starts with itself (`StartsWithItself`), and whatever starts with it without being it sorts after it (`PrefixIsLater`), so the first entry of the sorted listing is its own; needs decimals that count from 1 |
| `…!ViewsTellTheSame` | `ViewsAgree` | a view looks up a section's directory by number or by heading; both read the same one (`SameStatus`, `ProgressOf`), and the entries of the dashboards are those of the milestone's sections (`EntriesOf`); a line that names another number than its section is the same line for both |
| `…!DependenciesFirst` | `NoParallelDependency` | a dependency that is being executed is not complete, and what is recommended has its dependency complete in the manager's own list, which is that of `roadmap analyze` |
| `…!NobodySentBack` | `ContextsCurrent` | a reference to the current milestone has a section, so `phase-op` drops an archived answer; with a directory on disk, `ExactDirectory` says which one is answered |
| `…!Consistency` | `ConsistencySound` | a heading that is not missing on disk has a directory of its own number, which is the one the manager takes (`DiskStatusIs`) |
| `…!LastPhase` | `LastPhaseIsLast` | ticking and writing the row change no number (`MarkedAlike`), a finite listing that is not empty has a first entry under the order (`FirstOfExists`), so "no next phase" means that no later one is left (`NextPhaseFound`) |
| `…!WorkSurvives` | `ExecutedWorkKept` | summaries are counted as pairs of directory and plan; a directory is only renamed to a free name (`RenamedToFree`) and no two to the same (`ShiftedApart`), so renaming, wherever it stops, is a bijection (`RenamedHold`); archiving moves directories to names the archive does not have (`TakenOut`, `PutBeside`); a removal subtracts one directory (`RemovalTakes`) |
| `…!LaterPhasesCollapse` | – | finding 3 for every number: by the recursion of the loop, a text already rewritten is rewritten again down to the removed number (`RenumberedIs`) |
| `…!TypeCorrect` | `TypeOK` | from `PlanningInv`, below |
| `StateFileProofs!Exclusion` | `OneWriter` | `Owned`: whoever is past the lock owns it, unless somebody forced one |
| `StateFileProofs!Consistent` | `FrontMirrorsBody` | `AllMirror`: true not only of the file but of every text a process is about to write; the front matter of a new workstream, which says nothing of the body, is one case of the initial file |
| `…!PlansCounted` | `PlanInPhase` | `AllGood`: every text on disk or in memory counts plans within the phase, in both forms; each command is an edit that keeps that (`PatchEdits`, `AdvanceEdits`, `BeginPhaseEdits`, …), and so does deriving the front matter (`SyncGood`) |
| `…!StatusKept` | `StatusSurvives` | the same edits never take a status away (`KeepsStatus`), and `SyncGood` keeps the one of the front matter when the body has none |
| `…!ReadersTellTheSame` | `ReadersAgree` | both readers search a text in which `AllMirror` holds, so what a derived front matter says is what the body says; before the first command on a new workstream's file there is none (see "Met while modelling") |
| `…!TypeCorrect` | `TypeOK` | with `Shape` and the texts (`IsText`) of every process |
| `WorkspaceProofs!ArchivesStay` | `ArchiveSealed` | the suffix loop never hands out a name in use (`FreeSuffix`), so a command can only settle on an archive that does not exist yet, or that another command is working on too; every step touches no archive but the one its command settled on |
| `…!NoWorkLost` | `NothingLost` | `Undisturbed`, below: a rollback puts back what was moved before the directory is removed, a new directory is empty (`RollbackKeeps`, `MoveKeeps`, …) |
| `…!CommandsAreWhole` | `AllOrNothing` | the same invariant at the end of a command: undoing the moves gives the tree it began with (`ArchiveRestores`), and nothing is left to be moved when it reports success |
| `…!CollisionsAreSeen` | `CollisionsSeen` | list, status and progress read the same directory; the types say that what they take as a directory is one; without `STATE.md` status says nothing where the others say "unknown" |
| `PlanningRootProofs!CommandsKeepSettings` | `SettingsKept` | `CfgOK`: what a process has still to write keeps the answers of the file it read, migration by migration (`MigrationsKeep`, `KeptSet`, `KeptNyquist`, …) |
| `…!MarkerResurrectsNothing` | `NotResurrected` | a step makes no directory but one its command has the name of (`MadeByName`, `WorksOn`), and only a new command can get the name of a workstream that is gone: by its user's words, or through the marker, which is believed only while the directory exists (`GoneStep`) |
| `…!TypeCorrect` | `TypeOK` | from `WsOK` and `CfgOK` |

**The invariant of the workstreams.** `NothingLost` is not inductive: that a rollback restores everything depends on what the renames before it
did. `WsOK` says what directories, archives, marker and counters are and what each place in a command (`GoodJob`) needs: a command that archives has settled on the number
of an archive, which another may have settled on too; the groups it has still to move are those the code's table lists. `Undisturbed` adds, for each process that nobody has overtaken
(`before` is the tree it found), what the present tree is in terms of that tree (`Knows`): while it migrates, the flat directory without the groups moved so far
(`Taken`) and the workstream with just these (`Brought`); while it archives, the same of workstream and archive; in `todo complete`, a copy that
has not been unlinked. Each step of its own carries that on (`MoveKnows`, `ArchiveMoveKnows`, …), each step of another makes
`before` unknown. Two processes may therefore work at once: the theorems speak of the steps of one that has been alone. Both were first checked with TLC on the instance of `workspace`.

**The invariant of the planning tree.** `PlanningInv` says that the roadmap is a sequence of sections the tools can have written (`GoodSection`: of their type,
decimals counted from 1, whole numbers within the bound), that the directories on disk and in the archive are finitely many, have names of that
kind and hold what agents write (`GoodDirs`), and that `STATE.md` counts no more than the commands that ran. It is inductive, one lemma per command (`AddKeeps`, `RemoveKeeps`, …), over
lemmas about every edit of `ROADMAP.md` (`InsertedSection`, `DroppedSection`, `Renumbered`, …) and of the directories (`Made`, `RenamedDirs`, `Merged`, …). "Decimals count
from 1" is what a type does not say and `ExactPhaseFound` needs: 3 and 3.0 compare as equal, so with both on disk `find-phase 3` could answer 3.0. The invariants
about queries then hold in every state of the invariant, whatever command came last. TLC checked it on the instance of `planning` first.

`OrderIrreflexive` and the lemmas are in the same modules. `StatusLines` bounds what the proofs take a status to be: the texts the
commands write and those a project starts with.

**Only model-checked.** Liveness under fairness (`Answered`, `InvalidationApplied`, `Resubscribes`, `CommandsEnd`), which the prover
does not reach. Every safety invariant and every action property the passing runs check is also a theorem.

## 5. Findings

1. **`kill_switch`** – the whole `environments` column is rewritten: enabling staging, by a request that read the flag before a disable of
   production committed, switches production on again.
2. **`sdk_fallback`** – the SDK compares with the wrong sentinel: it never calls the API, and `is_enabled` is
   always `True` (`ApiNeverAsked` says so for every instance).
3. **`renumber`** – removing a phase rewrites "Phase *old*" to "Phase *old-1*" from 99 downwards over the text it has already rewritten
   (`phase.cjs:549`): all later phases end on the removed number.
4. **`state_lost`** – a state command reads `STATE.md` before it takes the lock (`state.cjs:789`): an `add-decision` and, in the trace, a command that changes another
   field both report success and the decision is gone. The comment above the function names this very race as the one the lock prevents.
5. **`archive_lost`** – `workstream complete` looks for a free archive name, makes it with `mkdirSync(…, { recursive: true })` and lists the workstream in separate steps
   (`workstream.cjs:299-307`): two completes of one workstream settle on the same archive, the rename of one fails on what the other has moved already, and its rollback removes the
   archive with the other's work in it (`workstream.cjs:312-320`). `ArchiveSealed` says what does hold: an archive is safe once no command works on it.

Met while modelling, kept in the models, and without a run of their own. In the service:

* A POST, PATCH or DELETE of a flag is answered 500: UUID and datetimes in the JSONB audit entry do not serialize with the
  engine of `src/infra/database.py:24`. The tests' engine has a serializer (`JsonDefault`).
* Rules added, replaced or deleted in an environment that is already configured are audited and answered, not stored
  (`src/api/v1/flags.py:277`, `SetRules`).
* A replica SELECTs before it SUBSCRIBEs (`src/main.py:147`): a change in between is missed for good.
* An "update" message drops the flag and nothing reloads it (`src/core/cache.py:132`): 404 until a restart.
* The invalidation is published before the commit; a rolled back change is announced (`StaleExplained` holds
  nevertheless, because entries are dropped and never refilled).
* Two racing changes store the same version number twice; `version` is no optimistic lock. Messages carry it, handlers do not read it.
* Nothing resynchronises a replica after an outage of Redis: messages of the meantime are lost (`missed`).
* `EvaluationContext` normalises the environment's name (`src/schemas/evaluation.py:27`), the routes and bodies that configure it
  do not: disabling `Production` configures an environment no evaluation reads. `KillSwitch` is therefore stated for
  normal names.

Around `ROADMAP.md` and the phase directories:

* Headings written with a padded number are not renumbered.
* Removing a decimal phase renames its later siblings on disk, never in the roadmap. A rename onto a name that is taken stops the
  command half-way without a report.
* Both write their section with an open checkbox, `- [ ] TBD (run /gsd-plan-phase N …)`, whose number the renumbering of `phase remove` leaves alone (the loop looks for
  "Phase" with a capital P). Once ticked, such a line makes the next phase that gets its old number complete from the start.
* `phase insert` pads the number in its heading, `phase add` does not; `phase add` adds no table row, and names the
  previous number as the dependency even when that is 0 or a shipped phase. `phase insert` looks for decimals on disk only.
* The replacement of a table row is not scoped to the current milestone (`core.cjs:882`): it also changes rows of shipped phases.
* `requirements mark-complete` ticks a requirement whose table row stays "In Progress". `phase complete` run twice counts twice.
  `phase add` and `phase insert` leave "Total Phases" as it was.
* `find-phase 1` answers the directory of 01.1 when phase 1 has none; `ExactPhaseFound` is stated for phases that have one.
* The contexts of `execute-phase`, `plan-phase` and `verify-work` attach to an archived directory that used the same number;
  `phase-op` checks for that (`init.cjs:537`), though not for a padded number in the request. `ContextsCurrent` says how far they can be trusted.
* `stats` keys phases by text and lists "1" and "01" as two. The manager compares a phase only with active ones when it
  looks for dependencies that run in parallel.
* Completing a milestone again stops without a report at the first directory the archive already has.

Around `STATE.md`:

* The last try at the lock removes whatever lock is there, and the `unlink` at the end removes anyone's.
* A process that dies between truncation and write leaves an empty file.
* `state update Status` and `state update-progress` on a file with front matter edit the front matter, which is then
  derived again from the unchanged body; the command reports success.
* `state json` prints any front matter as it is (`state.cjs:843-853`): for a new workstream, whose front matter has no status, it prints none, while `state snapshot` finds
  "Not started". `ReadersAgree` is therefore stated for the time after the first state command, which derives the front matter.
* The patterns with which `state snapshot` reads decisions and blockers match no heading of the template.

Around workstreams and configuration:

* `NothingLost` and `AllOrNothing` are stated for commands no other process disturbs. Two concurrent `workstream create` that migrate can lose
  work: the rollback of one removes the directory the other has moved things into (`workstream.cjs:54-61`). The model has these behaviours.
  `withPlanningLock` (`core.cjs:495`) would prevent it and is never called.
* With two failing renames, one of them in a rollback, what was moved is removed (`workstream.cjs:57-61`, 313-316).
* Todos are not migrated (`workstream.cjs:18-23`): pending ones become invisible to the new workstream. A crash in a migration leaves the work in two places.
* `signal-waiting` and `scaffold` make an archived workstream's directory again when `GSD_WORKSTREAM` is outdated, or when the process looked at the marker
  (`gsd-tools.cjs:248-257`) before a `complete` and makes the directory after it. `NotResurrected` says that no command that starts later does so through the marker. The manager looks for the signal
  in `.planning/` only (`init.cjs:950`).
* `getOtherActiveWorkstreams` is exported and never called; the workflow filters by itself.
* `workstream status` prints no status for a workstream without `STATE.md`, where `list` and `progress` say "unknown" (`workstream.cjs:257-265`).
* Flat keys hide nested ones, and `validate health --repair` writes flat keys (`verify.cjs:772`), so later `config-set` of the
  nested key has no effect. It also replaces a torn `config.json` by defaults without a copy. Writes of `config.json` have no lock and are not atomic.
* `config-set` on an absent file creates one without `commit_docs`, whose answer then comes from `.gitignore`.

**Hazards without a property.** `PROJECT.json` lists some hazards that no property covers, with the reason. Mostly the code promises nothing there: nothing reloads a flag that
was dropped from a cache, `config.json` can be read torn or hide a nested key, renumbering leaves some lines behind. The models contain these behaviours.

## 6. Plan

Done: the service (`FlagStore`, `ReplicaCache`, `SnapshotCache`, `FlagPlatform`, `Targeting`, `Evaluation`, `SdkClient`) with the theorems
about it; of the planning tools the phase numbers, the roadmap and its queries, `STATE.md`, workstreams, configuration and health.

What would come next:

1. `Webhooks`: registration, soft deletion, three attempts with 1 and 5 seconds between them, a delivery row per attempt in
   a session of its own, the death of the process between attempts: attempts never exceed three, none follows a
   success, rows match attempts. The dispatcher has no caller in the service yet.
2. The remaining contexts of `init.cjs` and the commit commands, with a model of the repository as a set of paths.
3. The batch endpoint over a cache that messages change between requests.

## 7. Not modelled

* Authentication, roles, rate limiting, CORS: they admit or refuse a request and keep no state of this program; the models
  start behind them.
* Read endpoints (list, get, audit): they format committed rows.
* Metrics, logging, Sentry, configuration, the seed script, Alembic's own working.
* The connection pool (30 connections): a request that waits for a lock holds one. `Answered` shows that each wait ends; exhaustion is not
  modelled.
* FastAPI releases that run the code after `yield` only once the response was sent: the model commits before it answers, as
  the releases `pyproject.toml` names as the minimum do.
* `name`, `description` and `default_value` are one label in `FlagStore`; validation of bodies is the set of bodies sent.
* Webhooks, see section 6.
* Planning tools: argument parsing and the search for the project root, which only decide a directory; the contexts that collect
  paths and dates (`new-project`, `new-milestone`, `quick`, `resume`, `map-codebase`, …); commands that run git or one HTTP call; the verification
  of plans, references and artifacts, which searches files for strings; front matter, templates, UAT tables and model profiles, which turn text into text;
  the developer profile, which reads session logs; the pattern lists that screen inputs.
* User-level defaults of the configuration; the file `scaffold` writes for UAT or verification, which no modelled command reads.
* Words, dates and layout of the planning files. A file is what the commands' patterns find in it.
* When two processes write `STATE.md` at the same time, the end of a longer text may stay behind a shorter one. No search
  for a field or section reaches it, so `Write` leaves it out.
* The prompts, agents, skills and workflows under `src/.github`, and the tests, which were read as documentation.
