# Verification of bettor-arena

TLA+ modules, TLC configurations and TLAPS proofs for the parts of
bettor-arena that decide something: the ledger that drives a LoopX task, the
store that keeps that ledger on disk, the bootstrapper that installs files in
other repositories, the fleet that decides which Worker runs where, the gateway
that runs one, the dual-agent lane that requests and commits effects, and the
migration that mirrors the MCP configuration. Every definition is translated
from the source;
`PROJECT.json` ("map") names the lines of each. Paths below omit `src/`;
`loop_wiki/loopx-X` is written loopx-X.

## 1. Inventory

bettor-arena is a monorepo of Python, TypeScript and shell. Most of it is
tooling around one idea, the LoopX harness: workers (agents) do tasks, and what
happened is decided by reducers over recorded events, never by the workers.

| component | state it keeps | operations | what is hard | what makes it correct |
|---|---|---|---|---|
| ledger reducer, `loopx-ledger/scripts/ledger_reduce.py`, `ledger_event.py` | task lifecycle, current Todo, per Todo status, attempts, gate results and exception, quota | eleven event types folded by `apply_event`, each ended by `update_quota_state` | the events come in any order; one event moves several Todos; the quota step overwrites what the branch decided | completion is gated, total and a finished Todo stays so; exceptions are granted; an exhausted task is never ACTIVE |
| ledger store, `ledger_cli.py`, `ledger_store.py`, `ledger_common.py` | `events.jsonl`, `snapshot.json`, `.writer.lock` | `append`, `verify`, `replay`, `recover [--apply]` | several processes, crashes and power losses between system calls, torn lines, retries of an append of unknown fate | one writer; an append-only hash chain; receipts that stay true; torn tails are repaired |
| ledger initialisation, `ledger_cli.py initialize` | contract, events, snapshot, manifest | `init` | racing inits, a check outside the lease, a crash between four files | one init passes; the manifest is the commit point; the contract is immutable |
| project bootstrapper, `scripts/project_transaction.ts`, `project_types.ts` | the generated files, the managed manifest, the embedded clone, plan and receipt files | `plan`, `apply`, `rollback`, `verify` | stale plans, user edits, failures and kills between two files | what the user wrote is never touched; what did not die leaves the target as its manifest says |
| kernel contracts, `loopx-kernel` | none | validators of task states, packets, receipts | nothing runs; its rules are the reducer's specification | every reduced state is admitted |
| dual-agent workflow, `loop_wiki/dual-agent-offload-workflow` | the event history of a job | a reducer (28 events) and three boundaries: retry and cancel, human wait, compensation | retries, waits and cancellations cross in one table | no free dispatch; a cancelled job is never taken up again |
| dual-agent effect ledger, `loop_wiki/dual-agent-effect-ledger` | an event history per request, reservations, authorisations, links | reserve, authorise, attempt, read back, commit, compensate | lost answers, packets that are sent again, duplicated keys, readbacks and attempts in any order | a commit is reserved, authorised, answered and read back, with one attempt on record; reservations agree; a compensation has a committed parent |
| MCP production migration, `mcp/production/migrate.py` | managed mirrors, backups, a chain of receipts | `apply`, `rollback`, `verify`, `plan`, `check`, `check-receipts` | a failure between two files, a restore that fails itself, edits and commits meanwhile | what people wrote is kept; a mirror is what the last receipt says; success means in sync |
| worker fleet, `loopx-worker-fleet` | none between calls: queue, leases, heartbeats and what runs are arguments, workspaces are directories | `cycle` (schedule, admit, report), `gc` (inventory, plan, execute) | results are applied when the fleet has moved on; expiry and silence; Workers start and write during a gc | no two Workers' leases collide; the fleet's limits hold; a gc deletes no work it has seen; the queue drains |
| runtime fabric and resource gc, `loopx-runtime-fabric`, `loopx-resource-gc` | leases, inventory | admit a lease, choose and delete resources | plan and deletion apart in time | only unheld resources go |
| strategy and HITL, `loopx-strategy-hitl`, `services/hitl-api` | decisions, consumed tokens, request log | accept, fold, resume | duplicated and reordered decisions, expiry | one decision is used once, in time |
| worker gateway, `loopx-worker-gateway` | one run's process and output | run, timeout, kill | a timeout racing the end of the process; helpers that outlive or escape the kill; a death or failure at any point | PASS is earned; the diff is within the roots; a run ends |
| decision memory, `loopx-decision-memory` | decision records | admit, expire, supersede, tombstone | content that outlives its tombstone | a retracted decision is not recalled |
| language server pool, `loop_wiki/lsp-pool` | slots | select, warm, mark stale, evict | the limit with idle, stale and busy slots | the limit holds and a request finds a slot |
| knowledge pipelines (source-ingest, knowledge-compiler, knowledge-foldback, notes-retrieval, context-assembly), benchmark, observability, skill-evolution, code-truth-graph | none between runs | transformations and validators | data, not order | - |
| control plane, parallel-agent plan, research and seed factories | none | admission tables, prompts, checkers | - | - |
| loopctl, the context pack server, kb-ingest, notebooklm, proof_workflow, gates, harness console, docs | external | I/O and user interface | - | - |

How they interact. A worker produces an observation; the host turns it into an
event and calls `ledger_cli append`; the store takes the writer lease, replays
the log through the reducer, appends and syncs the line, replaces the snapshot
and writes a receipt; the kernel's validator rejects a state that breaks a
rule. Humans enter as `HUMAN_DECISION_RECORDED` events. The fleet, the gateway
and the fabric decide who runs where and hand results to the ledger. The
dual-agent lane is two reducers over two histories that know each other by
identities and digests only: the workflow requests effects and compensations,
the effect ledger alone commits them. All
sharing is through files: there is no shared memory and, the two `flock`s of
the ledger apart, no lock. The bootstrapper and the MCP migration are
separate: a person runs them on a repository.

The hazards, each at its line and with the properties that watch it, are in
`PROJECT.json` ("hazards"), those of components that are not modelled included.
A hazard without a property, or with one that covers part of it, has a note
that says why.

## 2. Modules

| module | models | extends |
|---|---|---|
| `KernelTaskState` | the task state and the kernel's rules about it | |
| `LedgerTask` | the reducer | `KernelTaskState` |
| `MCLedgerTask` | its small instances | `LedgerTask` |
| `LedgerTask_proofs` | its theorems | `LedgerTask`, `FiniteSums` |
| `LedgerTypes` | events, chain heads, receipt summaries | |
| `LedgerHistory` | what the store promises: an append-only history and receipts about it | `LedgerTypes` |
| `LedgerStore` | files, lease, processes, crashes; implements `LedgerHistory` | `LedgerTypes`, instance of `LedgerHistory` |
| `MCLedgerStore` | its instance for the run with symmetry | `LedgerStore` |
| `LedgerStore_proofs` | its theorems, refinement included | `LedgerStore` |
| `LedgerInit` | `init` on a directory that is not a store yet | |
| `LedgerInit_proofs` | its theorems | `LedgerInit` |
| `ProjectTransaction` | the bootstrapper | |
| `MCProjectTransaction`, `ProjectTransaction_proofs` | its instance and theorems | `ProjectTransaction` |
| `WorkerFleet` | the fleet's cycle and garbage collection, among a host, Workers and people | |
| `MCWorkerFleet` | its instance | `WorkerFleet` |
| `EffectLedger` | what the effect ledger's reducer accepts | |
| `EffectPlane` | gate, reservation, provider adapter, compensation and the canonical writer, on top of the reducer | `EffectLedger` |
| `MCEffectPlane` | its instance | `EffectPlane` |
| `OffloadWorkflow` | a job's workflow under its three boundaries | |
| `DualAgent` | the two together | `EffectPlane`, `OffloadWorkflow` |
| `MCDualAgent` | its instance | `DualAgent` |
| `DualAgent_proofs` | the theorems about the plane, the ledger and the job | `DualAgent` |
| `McpMigration` | `apply` and `rollback` of the MCP migration | |
| `MCMcpMigration`, `McpMigration_proofs` | its instance and theorems | `McpMigration` |
| `WorkerGateway` | runs of the gateway, their Workers and helpers | |
| `MCWorkerGateway` | its instance | `WorkerGateway` |
| `Workers_proofs` | the theorems about the fleet and about the gateway | `WorkerFleet`, `WorkerGateway`, `FiniteSums` |
| `FiniteSums` | lemmas about sums over finite sets | |

### LedgerTask

One action is one committed event. `TodoStep`, `InitializeTask`,
`RejectCommand`, `DebitQuota` and `RecordDecision` are the branches of
`apply_event`; `STATE_TRANSITION_COMMITTED` is split by what its target does
into `Advance`, `Escalate`, `Stop` and `Complete`. Each ends in `Commit`, which
is `update_quota_state` and the assignments every branch shares: an exhausted
quota takes an ACTIVE task, and its current Todo whatever that Todo's status
is, to HITL_PENDING. A rejected event changes nothing and is the absence of a
step. Left out is what no branch reads (evidence, `last_failure_ref`,
`depends_on`, timestamps); the revision is kept as "is it past zero", the one
question the reducer asks of it. The store hands the reducer events one at a
time in log order, so the store and the reducer are modelled apart: in
`LedgerStore` the reducer is the choice to refuse a fresh event.

### LedgerStore and LedgerHistory

Each process runs one command at a time, one action per system call that another
process, a crash or a power loss can come between: the `flock`, the replay, the
write of the line (in part or whole), the `fsync`, the replacement of the
snapshot, the receipt; for `recover --apply` the truncation, its sync, the
rewritten snapshot. `verify` and `replay` read without the lease: `verify` the
log and the snapshot in two steps, `replay` the log (`Scan`), which it then
writes out and reports in a receipt of its own (`Report`). Since that receipt
may be about a line that is not synced yet, `replays` keeps its summary apart
from those of the other `receipts`. The digest of the whole file, which receipts
name beside the head of the chain, is left out. The disk is the page cache
(`log`, `torn`) and how many lines are known to be on it (`durable`): a `Crash`
ends one process, a `PowerLoss` ends all of them and may lose what was not
synced. The snapshot is the sequence of the events it was reduced from, since
reduction is a function; a digest is an event's position in the chain it commits
to. A client builds an append on what it has last been told (`view`), and
repeats an append it was not told the fate of.

`LedgerHistory` is the abstract specification: `Commit` appends a fresh event,
`Certify` issues a receipt for a prefix, `Report` tells a reader a prefix, or
the whole history and one event more, which may never come to be.
`LedgerStore!ImplementsHistory` maps the history to the durable part of
`events.jsonl`.

### LedgerInit

`initialize` from its check that the directory is empty (outside the lease)
through the lease and the four files to the receipt, with early appends that
create the lock file or use a finished store, and crashes.

### ProjectTransaction

A plan names the manifest it was made on by digest, so a plan is the sequence
of the changes that lead to it, the manifest is the plan that was applied, and
a receipt is its plan. What a release generates for a path is the constant
`Generates` (`project_resolver.ts` computes it from the requirements).
`BeginApply` is the checks of `applyProject`; then one step per file, the
manifest, the receipt; `FailApply` enters the restore that `BeginRollback`
shares. `Crash` is a death at any step, or a restore that itself fails.
`Edit` is the user; `edited` remembers what they wrote last. One command runs
at a time: it is a command line tool that nothing else calls.

### WorkerFleet

`Cycle` is `run_cycle`, one step since it is a function of its arguments. The
two loops in it are stated by what they choose: `IsSchedule` says of each ready
task that it is dispatched exactly when it fits beside what runs and what was
dispatched before it, `IsAdmission` that a dispatched task is admitted exactly
when its lease may be granted beside the held ones and those admitted before it;
the order makes both unique (`CycleIsDetermined`). A lease that nobody defined,
for which the cycle returns nothing, is excluded by `ItemsAssumption`. What the
cycle returns waits in `admitted`, `expired` and `stale` until the host has
started and killed the Workers it names (`Start`, `Stop`, `EndCycle`); Workers
go on meanwhile. The repository has no host: these three actions are external,
as are the Worker's writes and failures. What a Worker's end does (`Leave`) is
what `build_receipt` demands of it: an empty process group and a removed
workspace. Time is `late` (leases whose expiry has passed) and `silent` (leases
without a heartbeat for two intervals).

A path is the sequence of its names, so `PathsOverlap` is the prefix test of the
code. The worktree of a lease is both that (`Worktree`) and the string that the
lease writes (`WorktreePath`), since `conflicts` compares the strings. A gc is
told which directory to collect (`Roots`) and knows a workspace by its bare name
there (`Name`). `joined` is a history variable, the tasks started since the
inventory. `gc` is its inventory and plan in one step (`Sweep`, refused if
anything leased, dirty or unreadable was admitted), then per workspace the
recheck and the removal, with every other actor in between. Its dry run, a
cycle's own gc proposal (which removes nothing) and the report of a removal that
left the directory change no state and are left out.

### EffectLedger and EffectPlane

`EffectLedger` is `reduce_effect_history`: per request a state, the attempts and
the latest readback, and one step per event the reducer accepts; an event it
refuses is no step. It is loose on purpose, as the code is: an attempt or a
readback is accepted before any authorisation, and a transition names its
attempt result freely. `EffectPlane` adds what the other files keep: which
requests were reserved (`reservation_batch`, `classify_duplicate`), authorised
(`authorize_effect`), sent and answered (`build_attempt_packet`,
`classify_attempt_result`), and linked (`build_compensation_link`). Its actions
are the ledger's operators `Transition`, `RecordAttempt` and `RecordReadback`
under the evidence their file demands, or change evidence only. An authorisation
is good for any number of packets, which the adapter builds and classifies as
often as it is asked to: `observed` is the set of what the answers to a
request's packets were, and each event follows any one of them. All packets of a
request carry one attempt identity, which the ledger takes once. Policy,
approval and precondition observations that agree with the request are the
guard-free case of `Authorize`; those that do not are `Admit`'s refusals.
Identities are sequences of labels, as a compensation suffixes them with
`:comp`. That the writer takes each transition when the adapter proposes it, and
no other, is the contract of `CANONICAL_EFFECT_WRITER`; the repository holds no
program that is this writer, so `PlaneStep` is marked external.

### OffloadWorkflow and DualAgent

One action is one event that `reduce_history` accepts and the boundary modules
do not refuse: `RetryRequested`, `HumanDecision`, `CompensationRequired` and
`CompensationAnswered` have guards of theirs, `PlainEvent` is every event whose
payload no boundary keeps. The table is the code's. `licensed` and
`cancelRequested` are history variables. In `DualAgent` the workflow's
`EFFECT_REQUESTED` makes a request presentable, and that is all that passes
between the two histories. A `COMPENSATION_REQUIRED` names any effect, requested
or not, in the state that its caller claims, and a `COMPENSATED` is compared with
no link, as in `workflow_compensation.py`: so no property relates what a job
compensates to what the ledger committed. The histories advance independently,
in any interleaving.

### McpMigration

`apply` is `BeginApply` (branch, plan, clean destinations), `Prepare` per
mirror (read, back up, read the source), `Write` per mirror, `WriteReceipt`,
and on failure `Restore` in reverse order; each has its failing twin, and
`_atomic_write` may fail before its `os.replace` or after. `rollback` is
`BeginRollback`, `Revert` per mirror with its checks, and a receipt. People
edit targets and sources, commit and switch branches between any two steps,
and the process may die. Contents have a value and a layout, which is what
`json` and `bytes` comparison tell apart. History variables say what people and
receipts claim of each target (`told`), what people last wrote (`authored`), and
which targets are excepted: `raced` (edited under the command's hands) and `torn`
(left behind by a death or an undo that failed or stopped). That no source is
itself a target is `SourceAssumption`; the profile of the repository satisfies
it.

### WorkerGateway

A run claims its output exclusively, adds a worktree, launches the Worker in a
session of its own, waits for its end and for its streams, or kills the group
at the timeout and waits again without one; it checks paths and events, takes
the diff, removes the worktree and writes the receipt. A change is an entry of
`git status -z`: the path it names, and for a rename the old one after it.
`AsRead` is what `changed_paths` makes of an entry: it cuts three characters
from every field, also from the old name, which has no prefix (`Cut`), and takes
what follows an arrow (`AfterArrow`). Failures (`FailCommand`,
`FailToAdd`, `FailToClean`) and `Crash` strike between any two steps. The Worker
may write, report any exit, fork one helper that keeps or closes the streams
and stays in the group or leaves it, and end. Output over the budget is
`RejectWork`, which may strike whatever the paths are. `MaxMishaps` bounds
crashes and failures.

## 3. Runs

| run | instance | shows |
|---|---|---|
| `ledger_task` | 2 Todos, one critical gate, limits on attempts and tokens | type invariant; the current Todo is unfinished; completion is gated, total, and excepted only where granted; an exhausted task is not ACTIVE; attempts are charged; finished Todos are final |
| `ledger_store` | 2 processes, 2 event ids, 2 events, 2 crashes | one writer; an intact chain; a snapshot at most one event behind; receipts kept through power losses, but for the last event of a replay's; the refinement |
| `ledger_repair` | the same with short writes, 1 operator, 1 crash, fairness | a torn tail is repaired |
| `ledger_init` | 3 processes, 2 contracts, 2 events, 2 crashes | one init passes; the manifest is last |
| `project` | 3 paths, a remote and an embedded release, 3 plans of up to 3 changes | the user's files are kept; plans are chains; the manifest holds |
| `fleet` | 4 tasks, 4 leases, 2 worktrees (one under two spellings), 2 collected directories, 2 slots, 1 fault, fairness | Workers' leases do not collide; the limits hold; a gc spares the Workers it has seen, and work it has seen; the queue drains |
| `kernel_admits` | as `ledger_task` | refuted, see 5 |
| `stale_snapshot` | as `ledger_store` | refuted, see 5 |
| `effect_plane` | 3 requests (two of one identity, one that collides), 2 readbacks, 3 kinds of answers in any number | reservations agree; commits are earned; compensations are grounded |
| `dual_agent` | a job with 2 attempts and one reversible effect | a cancelled job is not taken up again; dispatches are licensed |
| `mcp_migration` | a JSON mirror and an ignored byte mirror of one source, 3 commands, 2 faults, 2 acts of people | targets are receipted; what people wrote is kept; success means in sync |
| `worker_gateway` | 2 runs, 1 output directory, 4 changes, 2 mishaps, fairness | PASS is earned; the diff is leased; a run ends |

Bounds and why they are enough.

- `AttemptCap` 2 and `UsedCap` 3 bound the counters of `LedgerTask`. Two
  attempts give a retry; the limits (3 attempts, 1 token) lie inside `UsedCap`,
  so exhaustion is reached by attempts and by debits, with Todos in every
  status. Two Todos give a current and an other one, and both orders of
  completion. One delta is malformed, which a reducer that forgot the sign
  check would accept.
- `MaxEvents` 2 gives a chain with a link to break; `MaxCrashes` 2 a crash
  during the recovery from a crash. Two processes are a writer and whoever it
  races; two ids are a retry and a different event under the same parent. Clients
  are alike and so are ids, so `ledger_store` takes states that differ by a
  permutation of them for one; the runs with liveness use no symmetry.
- Three racing inits: one that passes, one that waits at the lease, one that
  is late. Two contracts tell whose contract is on disk.
- Three paths: one that both releases generate, one only the embedded
  release drops and one only the remote release drops, the last executable;
  so a change of release writes, replaces and deletes. Three changes go
  forth, back and forth again. `MaxPlans` 3 leaves an old plan and an old
  receipt around while another is applied.
- Four tasks: one that needs all of one resource, one beside it, and two that
  wait for the first. One of these names the worktree of another task, and one
  writes it in another way. So two tasks of one cycle collide, two run side by
  side in one tree, and one is deferred for a budget that another uses up. Of the
  two directories that are collected, one lists a workspace by the name its
  leases use and one by another. `MaxFaults` 1 is a failure, a Worker that falls
  silent or a directory that cannot be read; leases may expire in any number
  and at any time, and a Worker of an expired lease is killed too, which
  leaves the workspace that a gc finds. Two faults give 4 times the states and
  no new kind of step.
- Three requests give a first one, its retry, and another use of its key; the
  one that declares a compensation gives a child. Two readbacks tell a child
  of one readback from a child of the next. Of the four kinds of answers the
  runs take those that the properties tell apart: SUCCESS, FAILURE and TIMEOUT
  in `effect_plane`, where CONNECTION_LOST is treated like TIMEOUT everywhere,
  and SUCCESS and TIMEOUT in `dual_agent`; the proofs are for all of them.
  The two readbacks are alike, and `effect_plane` takes states that differ by a
  swap of them for one.
- Two attempts are one retry within the budget and one over it; one effect is
  enough, since the properties of the composition relate a job to one effect.
- Two mirrors put a failure between them, before and after; three commands are
  an apply, its rollback, and another one that meets what they left; two faults
  are a failed write and the restore of it that fails too. Three contents are
  two layouts of one value and another value.
- Two runs race for a directory; runs with different directories share nothing,
  so one directory is enough. The four changes are a new file within the roots,
  one outside, a rename from outside to within whose old name is misread, and a
  file outside with an arrow in its name; two mishaps are, for instance, a
  failed check and a cleanup that fails after it. A helper has all combinations
  of group and streams.
- Deadlock is checked in every run but `effect_plane`, `dual_agent`,
  `mcp_migration` and `worker_gateway`: there every request, job, run or budget
  of commands may come to its end, and nothing is left to do.

Fairness. Safety runs use `Spec`. `ledger_repair` and `stale_snapshot` use
`FairSpec`: weak fairness of every step of a command that has begun (a process
that does not crash goes on; no step waits, since the lease is a non-blocking
`flock` and a busy lease is an error), and, for the operator, strong fairness of
starting `recover --apply` while the lease is free and of getting the lease. The
latter is what "recover is run again until it does not answer LEASE_BUSY" means;
nothing in the code schedules it, so only the operator's process has it, and
clients need not ever start a command. No fairness is assumed of crashes, which
`MaxCrashes` bounds: repair needs that crashes end. `fleet` uses its own
`FairSpec`: cycles go on and the host applies them, a gc that has begun ends, a
Worker that is not silent ends, and an admitted Worker is started. Nothing is
assumed of Workers that are silent: the cycle reports them, and the host kills
them. `worker_gateway`: weak fairness of the steps of a run that has begun (the
gateway is one sequential program, `communicate` returns when the streams have
ended, and the timeout comes); none of Workers, helpers, failures or of
beginning a run. `Drain` is not enabled while an escaped helper holds the
streams, which is why `RunsEnd` has its second disjunct.

## 4. Proofs

The theorems hold for every number of Todos, gates, resources, decisions,
processes, events, crashes, paths, releases, plans, tasks, leases, requests,
answers, retries, mirrors, runs and faults. Every safety property that a run
checks is stated by one; `PROJECT.json` ("theorems") says which by which. The
assumptions are the ones that the modules state of their constants and the
hypotheses named below, and each of these is one that the code does not
establish: without it the property fails, as the entry or section 5 tells.

- **LedgerTask_proofs**. The inductive invariant is the type invariant,
  `Coherent` (lifecycle, current Todo and statuses agree), `CompletedIsGated`,
  `ExceptionsBacked` (every exception reference is in the decision log, granted
  to this Todo) and `ExhaustedIsNeverActive`. `CompletionIsTotal` and
  `CurrentIsUnfinished` support each other: the quota step overwrites the status
  of the current Todo, which is harmless only because that Todo is not
  finished. As every action ends in `Commit`, one lemma about `Commit` (a
  coherent branch commits a coherent state, with the finished Todos untouched)
  carries all of them. `FinishedIsFinal` follows from the invariant and that
  lemma. `AttemptsAreCharged` is an account kept beside the invariant: what a
  step adds to the sum of the attempts it adds to the usage, and no step gives
  usage back, because `DEBIT_QUOTA` refuses a negative delta.
- **FiniteSums** is what the accounts need of sums over finite sets: a sum does
  not depend on the order, splits over disjoint sets, grows with the set and
  changes with one summand by that much. A sum is recursive and induction over
  the set is out of reach, so each lemma is proved by the smallest counterexample:
  strict inclusion is well founded on the subsets of a finite set.
- **LedgerStore_proofs**. Two inductive invariants. The stronger one, `IInv`,
  assumes `ShortWrites = FALSE` (a write that reports no error has written the
  line) and gives `SnapshotTracksLog`, `ReceiptsAreKept` and the refinement. To
  the checked invariants it adds `AheadIsSynced` (a durable line whose snapshot
  is still to come leaves the file synced, so nothing else can be lost) and
  `Working(p)`, what a process has learnt at each of its steps and may rely on
  while it holds the lease. `StoreImplementsHistory` uses it to show that the
  durable prefix grows only by one fresh chained event, at an `fsync` or when a
  power loss happens to have kept the line, that each receipt is a `Certify`,
  and that each replay is a `Report`: what it reads is the durable part, or that
  and the one fresh chained line that a writer has not synced.
  The weaker one, `SafeInv`, needs no assumption: what an append means to write
  fits what it has read, and what it and a recovery have read is what the file
  holds. So a short write costs the snapshot and the receipt of the event that
  was lost, but not the type invariant, the exclusion of writers, the chain, nor
  a line that is on disk: `DurableIsAppendOnly` says that no append, recovery,
  crash or power loss takes back or changes a durable line.
- **LedgerInit_proofs**. The invariant says which files exist at each point of
  the lease holder: `events.jsonl` is created exclusively, so one init only gets
  past that point, and only it writes the manifest.
- **ProjectTransaction_proofs**. The invariant adds `Working` (the files before
  `next` are as the plan wants them, the others as it found them, those excepted
  that the user edits meanwhile), `Settled` (files agree with the manifest but
  for edits), `CloneFollows` (which clone there is) and that the manifest is a
  chain: what a plan found was generated by the change before it. It holds also
  while a user edits under the command's hands, and so do `PlansAreChains` and
  `ManifestHolds`, which the run checks for edits between commands only.
  `AuthoredIsKept` alone assumes `ConcurrentEdits = FALSE` (nobody edits the
  target while a command runs): with it TLC refutes the property in six states,
  an edit between the comparison, `project_transaction.ts:211`, and the write,
  `:229`. Without such edits no step can meet a file that the user wrote.
- **Workers_proofs**, the fleet. `WorkersStayApart` has no premise. The invariant
  says that running Workers hold their leases and that what is admitted and not
  yet started is apart from what is held and from each other. Held leases become
  fewer until `Start`, which is why a result may be applied late.
  `GcSparesSeenWorkers` has none either: a workspace that the gc may still remove
  was not leased at the inventory under the name it has there, and a lease that is
  held now was held then or belongs to a task that joined since. `GcKeepsWork`
  assumes `WorktreesDoNotNest`, for a directory goes with everything under it;
  it needs that a workspace found clean is not dirty unless `raced`.
  `CapacityIsKept` rests on the order of the queue: the last task of a schedule
  was measured against all the others and all that run, so what it left room
  for is the whole; what runs and what is admitted then only becomes less, or
  passes from the one to the other. `CycleIsDetermined` shows that the model's
  cycle is a function, as `run_cycle` is: in every state there is exactly one
  schedule and exactly one admission of it, so the two conditions neither leave
  the cycle a choice nor block it.
- **Workers_proofs**, the gateway. `GatewayInv` says what a run knows at each
  phase: what led it out of the wait (`WaitInv`), that who was killed is gone
  and the helper of its group too (`KillInv`), that what was checked stays so
  until it is recorded and that a verdict stays true (`VerdictInv`), that a
  directory is claimed once (`ClaimInv`), and that a receipt agrees with its
  run, which is over (`ReceiptInv`). `DiffsAreLeased` holds of any reading of
  the paths: what was checked is what was read, and the property excepts the
  misread. The difficulty is what goes on after a check: a helper that
  `Unnoticed` describes may still write. `ReceiptsAreOwn` is an action property:
  no receipt of a run that was carried out is replaced by another one's, except
  by a `DECLINED`.
- **DualAgent_proofs**, the effect plane. The invariant ties a request's state to
  the evidence the plane holds (`Evidence`): from its reservation on it is
  reserved, from its authorisation on authorised, at most one attempt is on
  record and with the outcome of some answer, and a readback comes after an
  answer that did not fail. A request cannot be committed without it, which the
  ledger alone would allow. That the packet was sent once is neither assumed nor
  shown: it is the ledger that takes an attempt identity once, on which
  `CommitsAreEarned` rests. What the ledger alone does give, whoever writes to
  it, is `LedgerRecordsAttempts`: no effect is beyond its execution without an
  attempt on record, nor committed without a readback.
- **DualAgent_proofs**, the composition. `DualAgentImplementsPlane` makes the
  plane's invariant available under a workflow. `WInv` says that a job in a state
  from which a dispatch may follow (`LicensedStates`) is licensed; that, and
  `CancelIsHonoured`, are inductive because of what the table's edges are
  (`WorkflowSources`).
- **McpMigration_proofs**. The invariant splits the targets of a command into
  those it has read and backed up (`Prepared`) and those it has changed and not
  yet accounted for (`InTransit`): outside the latter every target is as it is
  told to be (`Recorded`), inside it the file is what is being written or put
  back (`Underway`), and what people wrote is either in its place or saved
  (`AuthoredIsSaved`), also where an apply has yet to overwrite it
  (`PreparedIsSaved`). The assumptions are those of the module: mirrors are
  distinct, no source is a target.

Only model-checked: `TornTailIsRepaired`, `QueueDrains` and `RunsEnd`, which are
liveness under fairness and out of the prover's reach, and the two refutations
of section 5.

## 5. Where the code departs from what it says

Two are runs whose one property states a line of the repository and which TLC
refutes:

- `kernel_admits`: the reducer leaves the states that the kernel's validator
  admits. The shortest way: a Todo is cancelled, which makes the task
  CANCELLED, and `COMMAND_ACCEPTED` (`ledger_reduce.py:53`) then gives the
  terminal task a current Todo. The other conjuncts fail too, later: a live
  task without a workable current Todo, a completed Todo with an exception, a
  gate result of attempt 0.
- `stale_snapshot`: a crash between the sync of an event (`ledger_cli.py:198`)
  and the replacement of the snapshot (`:199`) leaves a store in which every
  append and verify reports a mismatch; `recover --apply` rewrites the snapshot
  only when there is a torn line. The README calls the snapshot a rebuildable
  cache. A person can bring the store back: `replay --snapshot-out` writes the
  snapshot of the log, once the old file is out of its way, as it refuses to
  replace one (`ledger_cli.py:262`). No command does both.

The others are steps, exceptions or premises of the models; no run is kept for
them.

- A failed or cancelled Todo is not final: `update_quota_state`
  (`ledger_reduce.py:192-195`) overwrites it with HITL_PENDING while it is the
  current one, from where a transition makes it READY, and its task may still
  complete. `CompletionIsTotal` therefore says only what a task is at any one
  moment, and `FinishedIsFinal` speaks of completed Todos.
- `replay` reads the log without the lease and writes a PASS receipt for what it
  read (`ledger_cli.py:256-281`). When a writer's line is in the file and not
  synced, a power loss may take it and leave the receipt: `ReceiptsAreKept` and
  `LedgerHistory!Report` except the last event of such a receipt.
- `append_fsync` (`ledger_common.py:274`) ignores how much an unbuffered `write`
  has written, so a short write is receipted as committed (`ShortWrites = TRUE`
  in `LedgerStore`).
- `initialize` checks for an empty store before it takes the lease
  (`ledger_cli.py:95`), and writes the contract before the exclusive creation
  that would stop it: a losing init replaces the contract.
- Nothing removes the embedded clone when a remote release replaces an embedded
  one (`project_transaction.ts:214`); a restored file of the bootstrapper gets
  the mode of the new file, not its own; an apply that is killed leaves a target
  that plan, apply and rollback all refuse.
- The fleet compares worktrees as the leases write them (`wf_lease.py:106`):
  `validate_lease` (`:59`) computes the normalised path and discards it, and
  `normalise_path` (`wf_common.py:118-129`) accepts several spellings of one path.
  So `ws/one` and `./ws/one`, or a worktree inside another, are admitted side by
  side and two Workers share a tree, against "One Worker, one branch, one tree,
  one path set". `WorkersAreApart` is the comparison that the code makes.
- The fleet's inventory asks whether a workspace is leased with the bare name of
  its directory (`wf_cleanup.py:90-95`), and leases name it by its path
  (`workspaces/...` in `tests/fixtures/good/leases.json:15`). So a gc of
  `workspaces` may remove the tree of a running Worker that has not written yet,
  although a worktree with an active lease is one of the "things [that] are never
  auto-removable" (`wf_cleanup.py:11`). The recheck (`:176-177`) does not look for
  leases, so a Worker that started since the inventory loses its tree too.
  `GcSparesWorkers` excepts these two cases, and that a Worker under another
  spelling ends and takes the tree along. `GcKeepsWork` assumes that no
  workspace lies inside another. The cycle reserves slots before it admits
  leases, the reverse of what its docstring calls load-bearing, so a task with
  an expired lease can keep the fleet idle: the second disjunct of `QueueDrains`.
- The effect plane may send one packet several times: `build_attempt_packet` and
  `classify_attempt_result` (`effect_provider_adapter.py:52-144`) keep nothing
  of the packets before. Of several answers the one that is recorded as the
  attempt need not be the one that the commit follows: an attempt may be on
  record as a failure when a later answer did not fail, and then be committed.
- The workflow takes its caller's word for a compensation: neither that the job
  requested the effect nor that the ledger committed it is looked up
  (`workflow_compensation.py:47-68`), and `test_workflow_compensation.py:37-79`
  compensates an effect that was never requested.
- The gateway's check misreads some paths (`gateway_runtime.py:158-169`). With
  `-z` a rename is two fields, of which the second, the old name, has no status
  before it; three characters are cut from it all the same, so that with the root
  `lib` a staged rename of `my-lib/x` to `lib/x` is read as a change of `lib/x`
  alone. A name with ` -> ` is cut at the arrow, which `-z` does not write.
  Both end in the receipt's diff, although a path is "accepted only when it equals
  an allowlisted root or is a descendant of that root" (`DIFF_BOUNDARY.md:3`):
  `Misread` in `DiffIsLeased`.
- `apply transaction failed and was restored` (`migrate.py:685`) is also said
  when the write that raised had replaced its target (`FailWrite`), which is not
  put back. A rollback that is refused at its second target has reverted the
  first, and no receipt says so (`RefuseRollback`).
- `PROCESS_BOUNDARY.md:3` of the gateway says that the output-limit path
  terminates the whole group before cleanup; only the timeout does
  (`gateway_runtime.py:293`, `:300`). A helper that has closed the Worker's
  streams survives, also a normal end, although the README (`:95`) allows no
  descendants after cleanup: `Unnoticed` in `DiffIsLeased`. A killed Worker has
  no `PROCESS_EXIT` to report, so the timeout, which `POLICY.md:8` makes a
  mandatory observation, normally ends without a receipt (`RejectEvents`). A
  declined run replaces the receipt of a run that was executed in the same
  directory (`Decline`).
- A human wait can be left without a decision (`PlainEvent`), and a
  compensation is answered without a look at the child's history
  (`AnswerCompensation`).

## 6. Not modelled, and why

- The pipelines, validators, servers and user interfaces of the last rows of
  the inventory: they transform data, share no state between runs, and what
  could be wrong with them is in the data. They are most of the repository's
  lines, which is why the modules map a small share of them.
- The resource gc and the runtime fabric: functions of recorded plans and
  leases; nothing in the repository applies what the fabric says, and the gc is
  a plan and its execution without a second look, so that a lease taken in
  between is not noticed. There is no promise to check beyond that hazard.
- The strategy engine and the HITL service: packets are validated, expiry and
  consumed tokens are the caller's arguments. What a decision does to a task is
  in `LedgerTask`.
- Decision memory persists nothing. The language server pool selects from a
  list that its caller keeps; it could be modelled and is not.
- Inside the modelled components: the generator of the bootstrapper, formats,
  digests and schemas, `verify` of the migration (it reads, and may add a
  receipt that no decision depends on), and two commands of the bootstrapper or
  the migration at the same time.
