# Verification of the agent coordinator and its loops

`src/agent-coordinator` lets several coding agents work on one repository: it
keeps file locks, agent sessions, a work queue with issues, a registry of
features, a queue and a speculative train of merges, and a queue of approvals.
Its state is in PostgreSQL tables; its code is Python services, most of them a
thin layer over PL/pgSQL functions in `database/migrations`.  `src/skills` has
the programs that drive an agent: the autopilot takes one change through its
phases, the roadmap orchestrator takes a plan's items through theirs; both keep
their place in files, so as to be resumed after they died.  This directory has
TLA+ models of the parts in which agents, operators, sweeps and restarts
interfere with one another, and of the registry of code-search indexes in
`src/packages/code-search`, whose workers and collections do so as well; TLC
configurations that check them on small instances, and TLAPS proofs of the safety
properties for all instances.

Contents

1. [The system](#1-the-system)
2. [The modules and the code](#2-the-modules-and-the-code)
3. [What each run checks](#3-what-each-run-checks)
4. [Bounds and fairness](#4-bounds-and-fairness)
5. [What is proved](#5-what-is-proved)
6. [Where code and documentation disagree](#6-where-code-and-documentation-disagree)
7. [What is not modelled](#7-what-is-not-modelled)
8. [Plan](#8-plan)

## 1. The system

Paths are relative to `src/agent-coordinator` unless they start with `src/`.

| Part | State | Operations | What is hard | What makes it correct |
| --- | --- | --- | --- | --- |
| File locks (`src/locks.py`, migration 001) | `file_locks`: one row per key with `locked_by`, `expires_at` | `acquire_lock`, `release_lock`, `force_release`, `check`; the DELETE of `cleanup_dead_agents` | sweeps by any caller, a `NOW()` fixed at the start of a transaction that then waits, lost answers, several sessions with one `agent_id` | who counts on a key for longer than a known slack has its row and is alone with it; a crashed holder's key comes free |
| Agent sessions (`src/discovery.py`, migrations 003, 026) | `agent_sessions`: status, last heartbeat | register, heartbeat, `kick_agent`, `cleanup_dead_agents` | the clean-up is three statements, by agent rather than by session; a heartbeat need not name its session | the dead are found and their keys come free; a clean-up deletes only rows of the agents it chose |
| Work queue and issues (`src/work_queue.py`, `src/issue_service.py`, migrations 001, 027) | `work_queue`: status, `claimed_by`, dependencies; issues are rows of the same table | submit, claim, complete, cancel; issue create, update, close | claims race on row locks, the guardrail scan follows the commit, exceptions are swallowed, issue calls write any row's status and bypass the queue's functions, dependencies may be on ids that are no task's | one worker per task and dependencies first, as long as nobody edits the task; every claim is somebody's; ready work is served |
| Merge train (`src/merge_train*.py`, `src/git_adapter.py`) | an entry per feature in the registry's metadata, speculative git refs, main | compose, report a CI result, eject, reset, execute the waves | ejection in the middle of a train, partial merges, other pushes to main, cross-partition entries | what is merged is in main, what is in main was verified |
| Feature registry and merge queue (`src/feature_registry.py`, `src/merge_queue.py`, migration 012) | `feature_registry`: status, claims, a JSON `metadata` | register, deregister, enqueue, pre-merge checks, mark merged | every writer, the train's service included, loads and saves whole blobs | of two features that block one another one is offered for merging |
| Approvals, session grants, watchdog (`src/approval.py`, `src/status.py`, `src/notifications/relay.py`, `gmail.py`, `src/session_grants.py`, `src/watchdog.py`) | `approval_queue`, `notification_tokens`, `session_permission_grants` | request, decide, expire, mail a token, act on a reply, clean up; grant, revoke | a query and an update with other steps in between, in callers, sweeps and mail; two database clients that treat filters differently | an outcome is final; nothing is swept early; a process serves a token once |
| Port allocator (`src/port_allocator.py`) | slots and leases in memory, under one lock | allocate, release, expiry | a bounded pool, leases that outlive their session | slots of live leases do not overlap |
| Sync points and worktrees (`src/sync_points.py`, `src/skills/worktree`) | a JSON registry of worktrees | add, heartbeat, pin, remove; check | processes load and save the whole file | a sync-point operation excludes active worktrees |
| Event bus and notifications (`src/event_bus.py`, `src/event_stream.py`, `src/notifications/notifier.py`) | listeners, a connection | publish, subscribe, reconnect | reconnection with bounded retries, callbacks that raise | one failing callback does not stop the others |
| Policy, guardrails, profiles (`src/policy_engine.py`, `src/guardrails.py`, `src/profiles.py`, `src/trust_resolution.py`) | configuration, a cache | decide | stale cache | decisions follow the configuration |
| Handoffs and memory (`src/handoffs.py`, `src/memory.py`) | append-only tables | write, read, search | - | - |
| Code search (`src/packages/code-search/src/code_search_pkg`, migrations 029 and 030) | `code_search_indexes`: status, lease, attempt, parent; the canonical pointer; per index a table and a manifest | ensure, claim, renew, link a parent, publish, mark ready, promote, fail; collect garbage | leases run out under workers and collections that go on; publication and completion are two statements; the scan, the deletion and its record are three; links are made to what is about to be collected | a ready index's storage is its last attempt's; parents and the canonical index stay ready |
| Autopilot, convergence loop, dispatch (`src/skills/autopilot`, `src/skills/parallel-infrastructure`) | `loop-state.json`, findings, a graph of packages | run a phase, save, resume, escalate; schedule | deaths between a phase and its save, callbacks that raise, old escalations that are resolved | only what was validated is published; the loop ends |
| Roadmap runtime (`src/skills/roadmap-runtime`, `src/skills/autopilot-roadmap`) | `checkpoint.json`, `roadmap.yaml` | pick an item, run its phases, replan, limit a vendor, resume | a death between two writes or in the middle of one, operators and other roadmaps that change statuses | an item is settled once and in order, its phases are neither left out nor repeated |
| Front ends (`src/coordination_api.py`, `src/coordination_mcp.py`, `src/coordination_cli.py`) | none | HTTP, MCP, command line | - | - |
| Dashboards, evaluation, document skills (`src/apps`, `src/packages/gen-eval` ...) | none shared | - | - | - |

How they interact: the clean-up of sessions deletes rows of the lock table;
`POST /discovery/cleanup` and the watchdog start it; a sweeper composes the merge
train every 60 s; issues share the table of tasks; guardrails and trust levels are
consulted inside a claim; the merge
train and the merge queue keep their entries inside rows of the feature registry,
whose claims decide what overlaps; services publish on the event bus, whose
notifier mails the tokens that answer an approval; the roadmap orchestrator
dispatches phases, which an autopilot may carry out.

The repository has two earlier models, `src/formal/parallel_coordination.tla` and
`agent-coordinator/formal/coordination.tla`.  They take each operation as one
atomic step and have no expiry, crash or lost answer.  This project starts from
the SQL and the Python, not from them; section 6 says where they differ from the
code.

## 2. The modules and the code

`PROJECT.json` maps every definition to the lines it translates.

| Module | Is about |
| --- | --- |
| `LeaseLock` | abstract: what the lock service promises about each key |
| `FileLocks` | `acquire_lock`, `release_lock`, `force_release`, the clean-up's DELETE |
| `AgentSessions` | extends `FileLocks` with registration, heartbeats and the clean-up |
| `TaskBoard` | abstract: what the queue promises about a task |
| `WorkQueue` | the claim transaction, the scan, completion, issues |
| `MergeTrain` | composition, verdicts, ejection, the wave executor, git |
| `MergeQueue` | the registry's rows, the merge queue's and the train service's loads and saves of them |
| `Approvals` | requests, decisions, expiry, mailed tokens and their clean-up |
| `Autopilot` | the phase machine, its state file, deaths and resumes |
| `ItemLedger` | abstract: how the items of a plan are settled |
| `Roadmap` | the orchestrator with its checkpoint and its roadmap file |
| `IndexCatalog` | abstract: what an index serves, and when it may be withdrawn |
| `IndexRegistry` | claims, leases and attempts of code-search indexes, their publication and collection |
| `...Proofs`, one for each of the modules that are not abstract | the theorems; those about `FileLocks` are in `AgentSessionsProofs`, which needs them |
| `MC...`, likewise | the instances for TLC |

**FileLocks.**  A row is `holder[k]`, `left[k]`; `left` is `expires_at - NOW()`
and `Tick` lets time pass, so no clock has to be bounded.  `acquire_lock` is three
steps, because READ COMMITTED lets other transactions commit in between: the
transaction starts and fixes `NOW()` (`AcquireStart`); the sweep and the `INSERT ...
ON CONFLICT DO NOTHING` (`AcquireInsert`); after a conflict the `SELECT ... FOR
UPDATE` and the refresh or the refusal (`AcquireResolve`).  `tx[s].age` is how
stale the transaction's `NOW()` is.  `heard` is whether the answer reaches the
session.  `force_release` is a read and a later delete, `force[o]` the key in
between; `Crash` stops a session.  `lease` is a history variable: until when a
*session* counts on a key, by the last answer *it* had.  An answer that was lost, or
that went to another session of the same agent, changes no belief, so the row may
end before the belief does: because the sibling asked for less, or because a refresh
was committed with an older `NOW()`.  `Slack`, (`MaxTTL` - `MinTTL`) + `MaxWait`, is by
how much, and the properties are about sessions that count on a key for that long.
`check()` reports a row while `expires_at > now()`; the refinement to `LeaseLock`
hides what is left of a row after that.

**AgentSessions.**  `cleanup_dead_agents` is one transaction of three statements,
each of which reads what is committed when it begins: the SELECT of stale agents
(`CleanupSelect`), the UPDATE of their sessions (`CleanupUpdate`), the DELETE of
their locks (`CleanupDelete`), and the commit (`CleanupCommit`), with anything in
between.  It goes by agent, `AgentOf[s]`, though heartbeats are of sessions, so a
live session goes with a stale one of its agent, and a lock that is committed after
the DELETE began survives.  What the UPDATE and the DELETE have chosen is locked until
the commit: an acquire, a release or a heartbeat that needs such a row waits
(`Waits`).  A heartbeat is sent (`SendHeartbeat`) and carried out later (`Heartbeat`,
`beats`), whoever is still alive; it names the caller's session, or only its
agent, whose most recent active session is then renewed (`MostRecent`), or neither,
and then the coordinator's own `Default`.  `Kick` is `kick_agent`, which disconnects an
agent's rows and leaves its locks.  Simplified: a heartbeat that waited writes the
time it is carried out, and there is one clean-up at a time (a second one waits for
the first in its UPDATE).

**WorkQueue.**  A claim is `ClaimSelect` (the row lock of `FOR UPDATE SKIP LOCKED`),
`ClaimUpdate` (with the commit), and after it the guardrail scan of
`WorkQueueService.claim`: `ClaimHandOut` or `ClaimRefuse`.  `Faults` names the
exceptions an instance admits: `"guardrail"`, a scan or trust lookup that raises
and is ignored, and `"complete"`, a give-back that raises and is only logged.
`Crash` is a worker's end or a lost answer.  `IssueUpdate` and `IssueClose` write the
status of *any* row by id, whatever its task type and status and whoever works on
it, as `IssueService` does; a status outside its map is passed on, and the column
admits six.  `depends_on` may name ids that are no task's (`Strays`), which count as
met.  `has`, `done`, `lost` and `edited` are history: what a worker was told it got,
what was completed at some time, which claims nobody will act on, whose status an
issue call has changed.  The refinement to `TaskBoard` is about a row as long as no
issue call changed its status; from then on the board only remembers a success.

**MergeTrain.**  An entry's `speculative_ref` is abstracted to the set of this
train's features merged into it.  `Compose` is all of `compose_train` with the
git merges that may conflict; `Successors` is what `MergeTrainService` hands to
the engine's `eject_from_train`, `Requeued` what the engine sends back.
`ExecuteWaveMerge` builds the graph and the waves; then each node is two steps,
as in `fast_forward_main`: the ancestor check (`CheckNode`, `CheckFails`) and the
update of the ref (`UpdateMain`, `UpdateFails`), with `OutsidePush` in between.
`UpdateMain` puts the node's ref in the place of main, so that a push since the check
is gone (`moved`).
The executor runs on one event loop, so no other call of the coordinator comes
between its nodes (`Idle`).  A service call loads every entry, changes some and
saves all: here that is one step, in `MergeQueue` it is several.  Claims are
constant.  Wave
execution and claim validation are engine functions that no service calls yet;
they are modelled as their tests and docstrings call them.  Where several cross
entries meet, the code promises less than its docstrings: a partition starts from one
of those that span it and need not hold the others (`Bypassed`), and a cross entry is
merged without waiting for the ones below it that have not passed (`Smuggled`).  The
properties name both as their exceptions.

**MergeQueue.**  A feature's row is `reg[f]`, `claims[f]` and `mq[f]`, the entry in
its metadata blob, abstracted to status and `eject_count`.  A request, `call[c]`,
loads in one step (`Enqueue`, `Check`, `RemoveFromQueue`, `Compose`, `Report`,
`Eject`) and writes whole blobs in later ones, a `Save` per row, as
`_persist_entries` does; a check reads the rival features in a step of its own
(`CheckConflicts`).  What was loaded is in the call and may be stale when it is
written.  `mark_merged` deregisters without asking for a queue status, so
`Deregister` may come at any time.  What a verdict or a composition yields is
`MergeTrain`'s business; here it is any of the statuses that the engine may give.
`SaveRefused` is the CHECK constraint on `merge_priority`; `eject_count` is counted up
to `MAX_EJECT_COUNT`.  `amended` is history: a
registration changed the claims of an active feature.

**Approvals.**  `decide_request` is `DecideLook`, the query for the pending row, and
`DecideWrite`, the update by id; `ExpireLook` and `ExpireWrite`, `CleanLook` and
`CleanDelete` are a sweep's query and its statement per row.  A mailed reply is
`ReplyLook`, `ReplyMark` and `ReplyDecide`, the last of which goes through
`decide_request`.  `Abort` is an exception or a death in between: a reply that broke
off leaves its token used, a sweep leaves the rest of its rows.  The watchdog expires
pending requests of agents it finds silent, whatever their time: a query for the
agents (`StaleLook`), one for each agent's pending requests (`StalePending`) and an
update by id for each (`StaleWrite`), while the agent may be heard again (`FallSilent`,
`Return`).  It asks a relation, `agent_discovery`, that no migration creates;
`Watched` is whether the database has it.  `Filters` says
which database client the coordinator has: PostgREST applies `lt.` and `is.`, the
direct PostgreSQL client drops them (`db_postgres.py:180-238`), and then `Overdue`
`Valid` and the watchdog's query match every row.  `acted` and `lapsed` are history:
how often a token was served, and which agents have been silent.

**Autopilot.**  `mem` and `disk` are the `LoopState` of the running process and the one
in `loop-state.json`.  An iteration of `run_loop` is a `Phase`, with the callbacks'
results as nondeterministic outcomes (they may also raise, or answer what the table
does not have), and a `Save`, or a `Finish`.  `Die` may come in between, or in the
middle of a save, which truncates the file first: `Torn` cannot be resumed.
`Launch` is a start or a resume, with the flags of that invocation.  `Table` is
`TRANSITIONS`, `Target` and `Apply` what `transition` and `_apply_transition` make
of it.  `validated`, `reviewed` and `prs` are what has happened to the change.
`submit_pr_fn` may open the pull request and raise after it, or report a failure: the
loop does not learn of it, and calls the function again once the escalation is
resolved.  `lost` counts those and the deaths that came before the save.  A
round of the convergence loop is one step: it converges, does not, or raises.

**Roadmap.**  `roadmap` and `checkpoint` are the process's, `file` and `saved` what is on
disk.  `Start` is a run or a resume, `Pick` the head of the loop with
`Ready` as `_get_ready_items` has it, and then each phase is a `Save`, the dispatch
with its three outcomes (`Succeeds`, `Fails`, `Limited`), and the next save.  An
item is settled by a save of the checkpoint and a later `WriteRoadmap`; `Die` may
come at any place, in the middle of a write too.  Half a JSON checkpoint does not
load (`torn`); half a `roadmap.yaml` may not either, or it loads as a shorter roadmap
(`CutShort`): items after some place are gone (`last`), the item at the end may have
lost dependencies, here or on other roadmaps (`deps`, `external`), and a name cut in
two names no item (`Nobody`).  `load_roadmap` looks at the schema only when it can,
and the schema asks for none of that.  Dependencies are a set, so any of them may
be the ones lost; a lost `superseded_by` is not modelled, and nobody repairs a file.
`Approve` is an operator's edit of the file, `CompletedElsewhere` another roadmap's.
`dispatched` and `skipped` are history.  The refinement to `ItemLedger` reads the
checkpoint on disk, what a reader of the file or a resumed run is told is settled,
and the dependencies that `roadmap.yaml` then lists: the ledger's `Lose` lets a list
get shorter, and items are settled after what is left in it.

**IndexRegistry.**  A row is `status`, `attempt`, `holder` (whose token it has),
`left` (`lease_expires_at` - `now`) and `parent`; `table` and `manifest` are which
attempt the storage has.  `work[w]` is where a run of `IndexingRuntime` stands: it
has claimed, planned (`PlanOn` links a parent, `PlanFull` does not), has the row
locked for its publication (`PublishLock`; `Locked` makes other updates of the row
wait), has committed that (`PublishCommit`), is ready and about to be promoted.
`Stop` is a death, a lost lease or a pointer that is not as expected: the row is left
as it is.  `pass[c]` is a collection: `Scan` with the time fixed at its beginning,
`Take` or `Skip` per row, `Erase`, `Tombstone` or `GcFailed`.  Its `age` is by how
much that time lags, and `Tick` advances it together with the leases.  Other
statements pass a `now` that is taken right before and count as immediate.  The
triggers of migrations 029 and 030 are in the steps that fire them: a link is made
to a ready row only and keeps it FOR SHARE, and a row with children does not leave
"ready".  "failed" stands for "not_configured" too.  `Erase` is the deleter that the
caller of `collect_garbage` passes in, and external: nothing stops it when its
collection's lease ends, so it may drop a table after another has taken the row over.
`stray` is history, the indexes whose table was lost that way since they were last
published.  The refinement to `IndexCatalog` shows a row's attempt while it is
"indexing" and its manifest while it is "ready"; it hides leases, workers, collections
and the storage.

## 3. What each run checks

| Run | States | Shows |
| --- | --- | --- |
| `file_locks` | 22 008 | Three sessions of two agents and an operator race for a key.  `LeaseBacked`: what an agent was told is backed by a row that lives as long.  `Exclusion`.  `ImplementsLeaseLock`: with sweeps and two-step transactions the table still is a lease lock.  `Reclaimed`: a crashed holder's key is had, in the end, by an agent that keeps asking. |
| `agent_sessions` | 289 336 | Sessions of one agent register, heartbeat, crash and are cleaned up while they lock.  `LocksRefined`: the lock table behaves as specified on its own.  `CleanedAgentHoldsNothing`, and `DeadAgentDetected`: a crashed session is disconnected in time. |
| `work_queue` | 315 967 | Tasks with dependencies and issues, two agents, a crash, a failing give-back.  `SingleWorker`, `DepsHonoured` (dependencies change while `claim_task` runs), `ClaimAccounted` (nothing stays claimed by nobody, except by a crash or a failed give-back), `NoBlockedWork`, `ImplementsTaskBoard`. |
| `work_queue_served` | 54 360 | Three workers and three kinds of task.  `ReadyServed`: priorities, row locks, filters and a crash do not keep a ready task waiting for ever. |
| `merge_train` | 783 274 | Three features, one of which spans two prefixes, in two trains.  `OverlapSerialized`: entries that share a prefix are verified on top of one another, except across a partition that several cross entries span.  `EjectedNotBuiltOn`: no verification on top of an ejected entry goes on counting.  `MergedLanded`: whatever fails, merged is in main.  `OnlyVerifiedLands`: code comes to main only by its own merge, except that of a cross entry below another one. |
| `merge_queue` | 1 324 799 | Two features that may claim the same keys, two requests at a time.  `ReadyExclusive`: of two features that block one another and kept their claims at most one is ready, though checks read and write in separate statements, sweeps write stale blobs back, and nothing is locked. |
| `merge_queue_eject` | violation | `EjectionRecorded`: the table refuses the priority of every ejection that does not abandon. |
| `approvals` | 669 593 | Two requests, two tokens, two reviewers and a mail listener, with PostgREST.  `OutcomeFinal`: what is settled with no write under way stays so.  `SweptLate`: a sweep takes nothing before its time, whatever was decided since it looked.  `TokenServesOnce`: although replies break off and tokens are deleted in between. |
| `autopilot` | 514 668 | A change through all phases with two deaths.  `PublishesValidated`: a pull request is opened only for code that validation (and its review, if asked for) passed since it was last worked on, also after an old escalation is resolved.  `DuplicatesAccounted`: a second pull request takes a death before the save.  `ReviewBudgetWhole`: three review phases share a counter, and each starts with all of it.  `LoopEnds`. |
| `roadmap` | 1 634 183 | Three items, one after another, one that waits for another roadmap, two deaths.  `ImplementsItemLedger`: on disk, items are settled once, for good, after their dependencies.  `DispatchesAccounted`: a death repeats at most one dispatch of a phase.  `CompletedWhole`: a completed item had all its phases, however it was interrupted.  `RunEnds`. |
| `index_registry` | 323 404 | Two workers and two collections over three indexes, one of which is built on another, one canonical.  `StorageAgrees`: what is stored for a ready index is its last attempt, save for a table that a late deleter dropped, and a deleted one has nothing left, although whoever lost a lease goes on.  `PinnedReady`: the canonical index and every parent stay ready, however late they were linked and however long ago a collection chose them.  `ImplementsIndexCatalog`: to who queries, an index serves its last attempt, is not built again while it serves, and is withdrawn only when nothing refers to it. |
| `roadmap_limits` | violation | `PhasesSucceeded`: a phase that met a vendor's limit is passed over and its item completed. |

Each run also checks its module's type invariant where one is listed.  Every
property of a passing run is broken by a mutant of the code it is about; the
mutants are the definitions commented "Mutant", right before the ones they
replace.

## 4. Bounds and fairness

*Bounds.*  In `agent_sessions` TTLs go up to 2 units (1 in `file_locks`, whose
state space is that of liveness as well) and a transaction waits at most `MaxWait` = 1:
enough for a refresh to write an expiry older than the one before, for a row to
be expired but unswept, and for one transaction's `NOW()` to be older than
another's.  Two sessions with one `agent_id` and one of another agent are the
least that tell sessions and agents apart.  Two tasks give a dependency, a
competing priority and a second row for SKIP LOCKED to go to; one crash
(`MaxCrashes`) loses any one answer.  Two trains (`MaxTrains`) give entries that
stay from an older train; `MaxEjects` = 2 with `MAX_EJECT_COUNT` = 2 reaches
ABANDONED, and `LeastPriority` stops the decrements.  With one cross entry the two
exceptions cannot occur, so `merge_train` checks the properties in full; with
`MCTwoCross` of `MCMergeTrain` for its claims, where they do (1 214 002 states), they
hold too.  `merge_train` sets
`CHECK_DEADLOCK FALSE`, because nothing may be left to do once the trains and
the ejections are used up.  Tasks are interchangeable in `work_queue`, which
checks safety only, so it uses their symmetry; `work_queue_served`, which checks
liveness, does not.

`merge_queue` needs two features and two requests for a check to be overtaken by
another check, and three keys so that one claim list blocks the other without
being blocked; a request more only repeats what `RivalsExcluded` proves.  The
requests are interchangeable.  `approvals` has two requests, so that a sweep has
one row written and one to write, two reviewers who find the same pending row, and
a clock up to `MaxTime` = 2, past the end of a request and a token; `MaxReplies`
= 2 ends the counting of replies after the second, which already violates
`TokenServesOnce`.  `autopilot` allows 14 iterations (`MaxGlobalIterations`), which
takes a change through every phase with reviews on and some cycles, reviews of at
most 2 rounds, and two deaths, so that a resumed run dies again.  `roadmap` has the
least items that give a dependency, a competition of priorities and a prerequisite
elsewhere, a switch of vendors and then none left (`MaxSwitches` = 1), two deaths.
`index_registry` has leases of 1 unit and collections that lag by 1 (`MaxPass`),
so that a lease ends under a worker and a collection's own is over when it is
granted; batches of one row (`Limit`), between which a collection does nothing but
age; and two claims (`MaxClaims`, a constraint) of one index or of two, the least that
lets one attempt be overtaken by another.  A row that is collected before anybody
claimed it is not followed further (`ClaimedFirst`, a constraint): nothing is stored
for it.
These runs set `CHECK_DEADLOCK FALSE`: a loop that has returned and used up its
deaths, a clock at its end or a queue whose features have ended has nothing left
to do.  The proofs need none of these bounds' values.

*Fairness.*  `FileLocks`: time does not stop (`SF` of `Tick`: transactions that
wait disable it, and statements end), the database finishes a statement it began
(`WF`), and an agent that has not crashed asks for a key again and again (`SF`:
it asks between other calls, as agents' retry loops do).  Nothing makes anybody
release.  `AgentSessions`: besides time and statements, somebody keeps calling
`POST /discovery/cleanup`: the watchdog is meant to start the clean-up
periodically, but its query fails (section 6), so the endpoint's callers are what
`DeadAgentDetected` rests on.  `WorkQueue`: a worker keeps asking for work
and finishes its claims (`WF` of `ClaimStep`); no one is obliged to complete a
task or touch an issue.  `MergeTrain` has no liveness property: a sweep composes
all that is not finished every 60 s, passed entries included, and nothing in the
code ensures that all entries of a partition are passed at one time.
`Autopilot`: a running process goes on (`WF` of `Phase`, `Save` and `Finish`):
callbacks return or raise.  It need not be started again after a death: a dead
process is "off" as well, so `LoopEnds` says that no process loops for ever.
`Roadmap`: one thread that goes on (`WF` of `Loop`), whose dispatches return;
operators and other roadmaps do as they like.  `MergeQueue` and `Approvals` have no
liveness property: two features that block one another wait for ever, which is
what the code does, and nothing in the repository calls the expiry of requests.
Neither has `IndexRegistry`: nothing repeats an indexing request that failed, and
nothing calls the collection periodically.

## 5. What is proved

All theorems hold for all values of the constants that satisfy the modules'
assumptions (`LockAssumption`, `StaleAssumption`, `QueueAssumption`,
`TrainAssumption`, `MergeQueueAssumption`, `ApprovalsAssumption`,
`AutopilotAssumption`, `RoadmapAssumption`, `RegistryAssumption`: types, finiteness of
tasks, features,
prefixes and keys, sentinels outside their sets).  TLC evaluates those assumptions in every run.

| Theorem | Says |
| --- | --- |
| `TypeCorrect`, `LeasesBacked`, `LeaseExclusion` | types, and the invariants of `file_locks` |
| `TableImplementsLeaseLock` | the lock table implements `LeaseLock` |
| `LifecycleRefinesLocks`, `LifecycleLeasesBacked`, `LifecycleImplementsLeaseLock` | with sessions and clean-ups the lock table still satisfies its specification, and so the above |
| `LifecycleTyped`, `CleanupTakesAll` | types of the sessions; a session is disconnected together with all rows of its agent |
| `QueueTypeCorrect`, `NoDoubleClaim`, `DependenciesHonoured`, `ClaimsAccounted`, `BlockedWorkStays` | the safety properties of `work_queue`; the last for instances without the `"guardrail"` fault |
| `QueueImplementsTaskBoard` | the queue implements `TaskBoard` for ordinary tasks |
| `TrainTyped`, `MergedIsLanded`, `EjectionIsClean` | safety of the merge train for any claims and priorities |
| `OverlapIsSerialized`, `LandsVerified` | `OverlapSerialized` and `OnlyVerifiedLands`, for any number of cross entries and any claims |
| `OneCrossSerializes`, `OneCrossLandsVerified` | the same without their exceptions, when at most one feature spans several prefixes |
| `MergeQueueTyped`, `RivalsExcluded` | safety of the merge queue, for any features, claims and number of requests |
| `ApprovalsTyped`, `OutcomesFinal` | types and final outcomes, for any number of callers and either database client |
| `SweepsLate` | `SweptLate`, for a client that applies `lt.` |
| `TokensServePerListener`, `TokensServeOnce` | with a client that applies `is.` a token serves at most once per listening process; `TokenServesOnce` for one process |
| `AutopilotTyped`, `OnlyValidatedPublished`, `DuplicatesOwed`, `BudgetsWhole` | safety of the phase machine, for any caps and number of deaths |
| `LoopDescends` | every step of a running autopilot lowers a number that starts at 4 * max_global_iterations + 5 at the most |
| `RoadmapTyped`, `DispatchesBounded`, `CompletedItemsWhole` | safety of a roadmap's execution, for any items, dependencies, policy and number of deaths |
| `RunDescends` | every step of a roadmap's loop lowers a number that starts at 11 * N + 11 at the most, and nothing else raises it |
| `CheckpointsImplementLedger` | the checkpoints on disk implement `ItemLedger` |
| `IndexTyped`, `ParentsPinned` | types and leases of indexes; parents and the canonical index stay ready, for any indexes, workers and collections |
| `StorageInAgreement` | `StorageAgrees`, likewise |
| `RegistryImplementsCatalog` | the registry implements `IndexCatalog` |

The arguments:

- *Locks.*  `LeaseBacked` is inductive together with `TypeOK`: only a row's owner
  refreshes it, a sweep takes rows that are older than any lease on them because
  a transaction's `NOW()` is never ahead of the clock, and whoever else deletes a
  row withdraws the lease.  `Exclusion` follows, as a row has one owner.
- *Queue.*  `QueueInv` adds what the row lock protects between the SELECT and the
  UPDATE: a selected row stays pending with its dependencies met
  (`SelectedStaysPending`), and by one transaction only (`SelectedOnce`).  That a
  pending task that is not an issue has no owner (`PendingUnowned`) is why an old
  claimant cannot complete what is about to be claimed by another.
- *Merge train.*  `TrainInv` says of every entry whose speculation counts, or that
  the executor is about to merge, that it is stacked on the entries of its
  partition placed no later (`Stacked`), and that whatever it is stacked on was
  placed before it in its own train or is in no train (`BuiltBehind`).  The first
  gives `MergedLanded`: the last entry's ref holds the whole partition.  The second
  gives `EjectedNotBuiltOn`: an ejection reaches every later entry of its train
  that shares a prefix.  Both rest on places following the order in which
  `compose_train` visits entries (`PlaceOrder`).  `CrossInv` is about
  the entries that cross partitions: live ones are stacked on one another
  (`CrossChained`), a partition's on those that span it or on one that bypasses them
  (`StackedOnCross`), and whatever else a ref holds is a cross entry that spans the
  partition or lies below one that does (`RefShape`).  `PlanClosed` then says that a
  node's ref holds nothing beside its entries that is not in main, in an earlier wave,
  or a cross entry that has not passed; the waves follow the places (`CrossWaveOrder`,
  `WaveOrder`).  The greatest id among the spanning entries decides which of them a
  partition starts from (`GreatestFeature`).

  With at most one cross entry nothing bypasses and nothing is smuggled, which gives
  the two corollaries; section 6 has what happens with two.
- *Merge queue.*  A feature is `Cleared` when it is ready or a check is about to
  write so.  `GateInv` says that of two rivals at most one is cleared
  (`RivalsNotCleared`), and that what a check has loaded of a feature is still so
  unless it was amended (`LoadedHolds`).  The step that matters is
  `CheckConflicts`: both rivals are in the registry before either is checked, so
  whichever looks second finds the other and is blocked.  Blobs written back late
  never write "ready" of their own, since nobody else plans to.
- *Approvals.*  A settled request changes only by a call that found it pending
  before, so without one it is final: no invariant is needed beyond the types.
  The sweeps need `Late` (what was found is overdue, and time does not go back),
  the tokens `OncePerListener`: a token that was acted on is used or deleted, so that
  no listener begins to answer with it again, and how often it served plus how many
  have validated and not yet marked it is at most the number of listeners.  The
  filters are needed, and so is the single process for `TokenServesOnce`: nothing in
  `validate_token` keeps a second one from validating before the first has marked.
- *Autopilot.*  `LoopInv` says that every state a process may go on from, the one in
  memory and the one on disk, is sound: the phases from SUBMIT_PR on, and any
  `previous_phase` that leads there, take for granted what the change has.  That
  both have it is what makes a resume, and an escalation of long ago, harmless.
  `Distance` weighs the iterations that are left with whether the loop is escalated:
  an escalation by a handler or its exception is not counted as an iteration, but
  what leaves ESCALATE is.
- *Roadmap.*  What is proved of the checkpoint in memory must hold of the one on
  disk too (`Whole`), as a resumed run reads it; the two differ by one settled
  item at most (`Agree`).  Dispatches are counted against deaths (`Counted`): a
  phase that may still come was dispatched at most once per death.  `Distance` has
  eleven steps for every item that is not settled and two for each phase left of the
  present one; that a picked item is not settled yet (`Agree`) makes its settling a
  step forward.
- *Index registry.*  `StorageInv` says what each process may still do: a worker
  whose row has its token is the one whose attempt the row counts, an open
  publication keeps its row from being taken over, and a collection that erased a
  table has the row until it says so.  A process that lost its row fails the
  check of its token, which is why `HoldsAnyToken` is a mutant.  A deleter is the only
  one that acts without a token; what it takes from a row it has lost is in `stray`
  until a publication puts a table back.  The catalogue's steps are then `Claim`,
  `PlanOn`, the completion or failure of a run, a promotion and a collection's `Take`;
  every other step is invisible, the late deletion included.  `PinnedReady` is
  inductive with the types: a ready row only changes by `Take`, which asks for the
  namespace and for children in the step that changes it.

Only model-checked, as liveness is beyond the prover: `Reclaimed`,
`DeadAgentDetected`, `ReadyServed`, `LoopEnds`, `RunEnds`.  Of the last two
`LoopDescends` and `RunDescends` prove the part that is about data: no run can take
more than so many steps.  That a running process always has a next step, which needs
ENABLED, and that it takes it, stay with TLC and the fairness.  The two violating
runs state what does not hold.

## 6. Where code and documentation disagree

Shown by the violating runs, with their lines in `PROJECT.json`: an ejection is
never recorded, because it lowers a priority below what the table admits
(`merge_queue_eject`), and a phase that met a vendor's limit is passed over
(`roadmap_limits`).

Met while modelling, without a run of their own.  Paths of the coordinator's
sources and of `openspec/specs` are shortened.

*Locks, sessions, queue*

- `force_release` deletes by path what it read in an earlier statement
  (`locks.py:438`), so it may delete another agent's lock than the one it reports
  as "the prior lock row" (`locks.py:416-418`): `ForceRead`, an expiry, another
  agent's acquire, `ForceDelete`.
- The clean-up goes by `agent_id` (migration 003:141): a stale session takes its
  agent's live session and locks along, though for an active agent "status and
  locks are not affected" (`agent-coordinator/spec.md:651-654`).
- `claim_task` without task types also claims issues (migration 027:24), which
  "won't be accidentally claimed by get_work()" (`coordination_mcp.py:456-457`).
- A trust lookup or scan that raises is caught and the claim returned as successful
  (`work_queue.py:432`): with `"guardrail"` in `Faults` `NoBlockedWork` does not
  hold.  The docstring (`work_queue.py:218-220`) lets "TrustResolutionError
  propagate".
- `complete_task` does not look at the status, so its claimant may turn a completed
  task into a failed one; `src/formal/parallel_coordination.tla:170-181` states that
  completed tasks stay so.  `DepsHonoured` therefore says that a dependency
  was completed once.
- An issue that somebody works on and that is reopened can be claimed a second
  time; `SingleWorker` excepts issues.
- The self-review exclusion of migration 027 applies only when the caller names
  the review type (`work_queue.py:291`).
- `discovery.py` passes `p_delegated_from` to `register_agent_session`, which no
  migration's version of it accepts.

*Merge train and merge queue*

- An ejection queues every later overlapping entry of the train whatever its status
  (`merge_train.py:752`), an abandoned one included, which is "recoverable only via
  manual re-enqueue" (`merge_train_types.py:74-75`).
- With two cross entries, one that was stacked on a failed or pending one is merged
  without it being waited for (`merge_train.py:921`), and the other's code lands
  unverified; the docstring (`merge_train.py:896`) chains every cross entry to the
  ones before.  `OnlyVerifiedLands` excepts this as `Smuggled`, and `LandsVerified`
  shows that there is no other way.
- `update-ref` is given no old value (`git_adapter.py:364`): a push between check
  and update is overwritten.
- Once one independent partition has been merged, the next one's ref does not
  descend from main any more, and its merge fails with a message that another
  process must have advanced main (`merge_train.py:1074-1075`).
- A partition starts from the spanning cross entry with the greatest
  `feature_id`, not from the last in the chain (`merge_train.py:495`), so that it may
  be verified without another that it overlaps: `Bypassed` in `OverlapSerialized`.
- A failed speculation is set to BLOCKED; the specification of the train says it
  is ejected.
- A CI report has no train id, so a verdict on an older train's ref counts for the
  present one (`merge_train_service.py:367`).
- Nothing sets `original_priority`, so `reset_abandoned_entry` does not restore it.
- Executing a train with nothing ready deletes its refs.
- A removal from the queue is undone by a check or a sweep that loaded the blob
  before (`merge_queue.py:320`, `merge_train_service.py:188`), although the
  endpoint "SHALL remove a feature from the queue" (`agent-coordinator/spec.md:1978`);
  in the same way a sweep takes a ready feature back to speculating.
- Registering a completed feature again changes nothing and is reported as
  "updated" (migration 012:71-76).  Registering an active one with other claims
  leaves it ready; `ReadyExclusive` excepts such features.
- Two features that block one another both stay blocked until one is deregistered.

*Approvals*

- The direct PostgreSQL client drops the filters `lt.` and `is.`
  (`db_postgres.py:180-238`).  With it a used token validates again
  (`status.py:63`), which "MUST NOT" be (`agent-coordinator/spec.md:1652`), the expiry
  expires whatever is pending and the clean-up deletes every token: `Filters`
  without `"is"` or `"lt"` breaks `TokenServesOnce` and `SweptLate`.
- `start_imap_listener` and `expire_stale_requests` have no caller in the
  repository, and `decide_request` does not look at `expires_at`: a request may be
  approved any time after it should have expired.
- Two decisions under way at the same time overwrite one another, and both callers
  are told that theirs was recorded; `OutcomeFinal` starts when no write is left.
- A decision by mail is recorded as made by "email-relay", not by its sender.
- A reply that breaks off after its token was marked is lost, and cannot be sent
  again.
- Session grants are written and never consulted; the revocation counts by a query
  what a later DELETE removes (`session_grants.py:94`).
- The watchdog queries a table `agent_discovery` that no migration creates.

*Autopilot*

- Transitions to ESCALATE of the table itself (`failed`, `max_iter`) do not set
  `previous_phase` (`autopilot.py:454`): resolving one raises, or returns to the
  phase of an older escalation; "the system SHALL persist `previous_phase`"
  (`skill-workflow/spec.md:2334`).
- `run_loop` gives the convergence loop no `fix_callback`, so that a review fixes
  nothing by itself, although the comment on it (by `autopilot.py:733`) says so.
- An unconverged round is retried while iterations are left; the specification
  (`skill-workflow/spec.md:2205`, `2233`) escalates in the third.
- `save_state` truncates the file before it writes it (`autopilot.py:119-133`); a torn
  file cannot be resumed.  The specification (`2151`) has the state persisted after
  every transition, "enabling resumability".
- `total_iterations` is persisted, so a change that reached the cap ends at once
  whenever it is started again.
- An outcome the table does not have raises out of `run_loop` without a save.
- What a human changes while an escalation is open is not validated when it
  returns to a later phase.

*Roadmap*

- A process that dies between the checkpoint that settles an item and
  `save_roadmap` leaves `roadmap.yaml` behind for good: items of other roadmaps go on
  waiting, and the dependents of a failed item are not blocked.
- A resumed run may first turn to an item that became ready meanwhile; it then
  starts the interrupted one from "planning" again, although it "SHALL skip
  phases already marked complete" (`roadmap-orchestration/spec.md:50`).
- An exhausted policy marks the item failed, where the specification (`:93`) has
  blocked.  `switch_attempts` is in memory only, so a resume starts it again.
- A failure reaches direct dependents only; a failed item is never tried again.
- An item that is "completed" in `roadmap.yaml` but not in the checkpoint does not
  satisfy dependencies.
- Both files are written in place; and `save_roadmap` overwrites what an operator
  changed since the run loaded the file.

*Code search*

- A collection's `now` is fixed at its beginning (`registry.py:296`), so the lease of a
  later row may be over when it is granted, and a deleter that is awaited for longer
  than its lease is not stopped: a second collection takes the row over, its deletion
  raises and the row is "failed"; a worker claims it, builds it and marks it ready; then
  the first deleter drops the table, and the index is ready without one.
  `StorageAgrees` excepts it as `stray`.
- The row of a child that was deleted, or failed for good, keeps its parent link and
  so pins the parent for ever (`registry.py:341-364` has no status in its NOT EXISTS),
  although expired terminal feature indexes "SHALL" be collected
  (`code-search/spec.md:223-228`).
- A deleted row is never claimable, and its identity stays taken: that index cannot be
  built again.
- A full rebuild keeps the parent link of an older attempt (`PlanFull`).
- When the canonical pointer is not as expected the newer index stays ready without
  being canonical; a later request for an older revision may promote that one
  (`Reuse`).
- The staging tables of workers that died are not dropped by anything.
- A collection that lost one row's lease raises and leaves the rest of its batch
  (`EndPass`).  `collect_garbage` has no caller but the tests.

## 7. What is not modelled

- *In the modelled parts.*  Calls that a policy, a scan or a CHECK constraint
  refuses change nothing and are left out, except for the priority of an ejection;
  so are metrics, audit rows, traces and texts.  Deadlocks between two sweeps of the
  lock table (PostgreSQL aborts one) are not modelled, the sweep being one step.
  `attempt_count` and `max_attempts` are written and never read.  In `MergeTrain`
  priorities are unbounded, every entry has a branch and a service call is one step;
  `MergeQueue` has those steps apart, with the engine's verdicts abstracted.  The
  garbage collection of refs is left out, as is the identity of CI runs.  In
  `Approvals` the texts of mails and commands that decide nothing have no effect;
  session grants, which nothing consults, and the watchdog's reminders are left out.
  In `Autopilot` handoffs, memories and risk scores are left out but for what they
  decide; findings inside a convergence round are not told apart.  In `Roadmap`
  learning entries, vendor profiles and the summary are left out.  In
  `IndexRegistry` what is embedded into an attempt, the verification of a staging
  table and `retention_until` are left out; rows are there from the beginning.
- *Not modelled yet, planned*: see section 8.
- *Not to be modelled*: policy decisions and guardrail patterns (stateless; a verdict
  is an input of `WorkQueue`), handoffs and memory (append-only), the
  front ends (their effect is that of the services), retrieval, ranking and the
  authorization of queries in code search, dashboards and evaluation tools (no shared state).

The modules cover the parts where several actors share state.  They are a small
part of the repository's lines: most of it is front ends, dashboards, evaluation
harnesses, converters and single-use scripts, which keep no state of this kind.

## 8. Plan

Done, in this order, each with its proofs: `LeaseLock`, `FileLocks` and
`AgentSessions`; `TaskBoard` and `WorkQueue`; `MergeTrain`; `MergeQueue`;
`Approvals`; `Autopilot`; `ItemLedger` and `Roadmap`; `IndexCatalog` and
`IndexRegistry`.  Left:

1. The package scheduler (`dag_scheduler.py`) and the vendors' dispatch: no package
   before what it needs, limits of concurrency, vendors that fail.
2. `SyncPoints`: the worktree registry, which processes load and save as a whole,
   and the check that reads it fail-open.
3. `PortAllocator`: slots of live leases do not overlap; proofs for all sizes.
4. Session grants, once something consults them.
5. The event bus's reconnection; the cache of `policy_sync.py`.
6. The identity of CI runs in `MergeTrain`, and the engine's verdicts in `MergeQueue`
   by composing the two.

As models join, runs that ask related questions are put together, so that the set
stays one run per question.
