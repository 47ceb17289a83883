# SQL_PerformanceSchulung: TLA+ models, checks and proofs

This directory models the programs of the repository that coordinate something:
the demo framework, which runs SQL sessions against a server
(`src/Demos/00_Framework`), and the AI foundation, which coordinates chats,
providers, capabilities, evidence and registries through persisted state
(`src/.ai/foundation`). Everything is plain TLA+; TLC checks small instances,
TLAPS proves theorems for every value of the constants.

To check a run: `tlc -config MC_HostedJobs.cfg MC_HostedJobs.tla`.
To check proofs: `tlapm MultiSession_proofs.tla`.

## 1. The system

### Demo framework

| Part | State | Operations | What is hard |
| --- | --- | --- | --- |
| Multi-session orchestrator, `orchestrate_sessions.py`, `sqlcmd_process.py` | pending, running and completed sessions, failure flag, deadline | `run_manifest`: launch in order and after a delay, poll, collect, fail-fast, global timeout, kill of process trees | full pipes, processes that end while they are looked at, failure and deadline in one iteration, exceptions |
| Signals, `FWK_MultiSessionControl.sql` | rows of `fwk.SessionSignal` | `USP_Signal`, `USP_WaitForSignal`, `USP_ClearSignals` | every statement interleaves with the other sessions; wait timeouts; a batch survives its client |
| Runtime harness, `run_demo.py` | phase results, verdict, cleanup flag, time budget | safety gate, SQL and multi-session phases, cleanup | a shared budget, phases that are killed, skipped or raise, cleanup after anything |
| Lifecycles of the test database, Query Store and Extended Events (`Sql/`) | server objects with ownership markers | create, verify, change, restore, drop | ownership, half-done changes |
| Result contract, measurement, data generator | none | evaluation, set-based queries | boundaries |
| Demos 01 to 12, test tooling (`src/Tests`), builders (`src/Tools`) | scripts and reports | run once | lock protocols of CON-004, CON-005 and CON-006; the DGN-007 session channel |

### AI foundation: what runs something

| Part | State | Operations | What is hard |
| --- | --- | --- | --- |
| Hosted chat control, `orchestration_control.py` | one state file: job records and shared budget ledgers | `control` with ten events, acknowledgement of granted actions | late snapshots, lost responses, effects of unknown outcome, handoff to a successor chat, pause |
| Provider orchestration, `ai_orchestrator.py` | one checkpoint per orchestration id | `plan_or_execute`: plan, announce, invoke, validate, conclude | death between any two steps, ambiguous provider outcomes, changed input |
| Work executor, `ai_executor.py` | sealed checkpoint per plan, file lock, cancellation marker | `Executor.execute`: recover, approve, invoke, fall back, validate | death around an external effect, alternatives, evidence of several validators, cancellation beside a running adapter |
| Stdio adapter, `stdio_adapter.py` | threads, pipes, two buffers | `_call` | a program that stops reading or writing, ends early, or leaves a child with its pipes |
| Adapter protocol, `adapter_protocol.py`, `reference_adapters.py` | failure count, open until | `handle`, circuit breaker | which classes of error count, a client that repeats |

### AI foundation: what is written by several

| Part | State | Operations | What is hard |
| --- | --- | --- | --- |
| Provisioning, `host_preparation.py` | target, staging file, checkpoint and lock of each plan | `plan_provision`, `provision` | death around an installer, a target that two plans share, expiry |
| Runtime configuration, `runtime_configuration.py` | configuration and rollback record | assistant, configure, remove, rollback | two files and no lock; interrupted saves |
| Client integration, `client_integration.py` | a client's file, backup and manifest of each plan | detect, plan, apply, verify, rollback | the user and other integrations edit the same file between the steps |
| Artifact registry, `registry_semantic.py` and its workflow | the registry of each branch | edit, gate, merge | a semantic merge of base, main and head; the gate's verdict grows old |
| Artifact references, `artifact_reference.py` | registry, artifact files, lock file | `init`, `new`, `register` | death between registry and artifact; the lock file of a dead process |

### AI foundation: what is observed, remembered and decided upon

| Part | State | Operations | What is hard |
| --- | --- | --- | --- |
| Model evidence, `ai_orchestrator.py` | evidence file, refresh schedule, lock | `refresh_evidence`, `accept_evidence` | merge of several writers, rate limits of sources that fail or kill |
| Cost evidence, `host_preparation.py` | a record and a lock per source | `refresh_cost_evidence` | rate limits, fallback to the last good answer |
| Model router, `model_router.py` | catalog, session binding, `runtime-state.json` | `route`, `record_outcome`, reservations and settlements of trials | tariff windows, chains of fallbacks, when a decision ends; a lock file with a timeout |
| Fragment routing, `router_v2.py` | last good fragment per provider, index | `aggregate_fragments`, `route_v2` | two files without a lock, stale fragments |
| Rule context cache, `rule_context_cache.py` | record file, lock file | `check`, `record`, `capture_snapshot` | the worktree changes while it is read |
| Work planner and session lifecycle, `ai_work.py` | none | `plan`, `session_lifecycle` | when a plan stops being true; counts the client does not have |
| Manual dispatch, `client_integration.py` | handoffs and receipts | handoff, attest | receipts that anybody may write |

### How the parts interact

- The harness calls the orchestrator for a multi-session phase (a function call
  that may raise), and `sqlcmd` for every other phase.
- The orchestrator and its sessions share nothing but processes: exit codes and
  pipes. The sessions share the signal table of the test database.
- The host of the chats calls `control` with a snapshot it wrote earlier; the
  controller answers with actions, and learns from a later snapshot what became
  of them. All jobs share one ledger.
- `plan_or_execute` and `Executor.execute` meet their own past through the
  checkpoint: a process that died and a process that starts are two actors.
- `plan_or_execute` lays the evidence over the fragments of the providers, lets
  `route_v2` choose a chain, and invokes it through adapters; an adapter is a
  program behind `stdio_adapter.py`, whose classes of error decide whether the
  next route may be tried.
- Planners, evaluators and refreshers are processes of their own that meet in
  files; each file has its own lock, or none.

## 2. Modules

| Module | Models | Uses |
| --- | --- | --- |
| `SessionRun` | the promise of `run_manifest` to its caller (FWK-006): abstract specification | |
| `MultiSession` | orchestrator, sqlcmd clients, SQL batches and signal procedures; implements `SessionRun` | `INSTANCE SessionRun` |
| `DemoHarness` | `run_demo` on top of the abstract run | `INSTANCE SessionRun` |
| `JobControl`, `HostedJobs` | `control`; controller and host together | `HostedJobs EXTENDS JobControl` |
| `ProviderExecution` | `plan_or_execute` | |
| `WorkExecutor` | `Executor.execute` | |
| `StdioAdapter` | one call of the stdio adapter with its threads, its program and a descendant | |
| `AdapterProtocol` | `ProtocolServer.handle`, the circuit, the classes of outcome of the reference adapters | |
| `Provisioning` | `plan_provision` and `provision` with download, installation and verification | |
| `CostEvidence` | `refresh_cost_evidence` | |
| `RuntimeConfiguration` | `ConfigurationStore` and the commands that edit it | |
| `ClientIntegration` | plan, apply, verify and rollback of an entry in a client's file | |
| `DispatchEvidence` | manual handoffs and their receipts | |
| `ArtifactRegistry` | edit, gate and merge of the registry | |
| `ArtifactAllocation` | allocation of references by processes that die | |
| `EvidenceStore` | `refresh_evidence` and `accept_evidence` | |
| `ModelRouter` | `route`, use of a session | |
| `EvaluationLedger` | the trials in `runtime-state.json` | |
| `FragmentRouting` | `aggregate_fragments`, the fragment store, the overlay before it | |
| `RuleRecords`, `RuleCache` | what a record says and lets reuse; the processes that make records | `RuleCache EXTENDS RuleRecords` |
| `WorkPlanner`, `SessionLifecycle` | `plan`; `session_lifecycle` | |
| `Executions` | demos, a provider, a plan, a stdio program and a circuit side by side | `EXTENDS StdioAdapter`, instances of the others |
| `SharedFiles` | allocation, registry, provisioning, client integration and configuration side by side | `EXTENDS ArtifactAllocation`, instances of the others |
| `Evidence` | the evidence and the decisions made from it, side by side | `EXTENDS EvidenceStore`, instances of the others |
| `MultiSession_proofs`, `HostedJobs_proofs`, `StdioAdapter_proofs`, `ArtifactAllocation_proofs`, `EvidenceStore_proofs` | theorems about one component | TLAPS |
| `Executions_proofs`, `SharedFiles_proofs`, `Evidence_proofs` | theorems about the parts of a composition | TLAPS |
| `MC_MultiSession`, `MC_HostedJobs`, `MC_Executions`, `MC_SharedFiles`, `MC_Evidence` | instances for TLC | |

`MultiSession` and `DemoHarness` meet in `SessionRun`: the first is checked to
implement it (`KeepsRunPromise`), the second is checked against it. So the
harness is verified for every orchestrator that keeps the promise, and the state
spaces are not multiplied.

`Executions`, `SharedFiles` and `Evidence` put several components side by side
that share no state. `part` says which of them a behavior is about; the variables
of the others keep one value. The reachable states are the sum, not the product,
of those of the instances, and each property is about the variables of its own
instance. A cfg chooses the instances by `Parts`. The theorems are about these
compositions, so that they speak of the properties under the names the runs check
them by; the `MC` modules only give the constants their values. (`MC_HostedJobs`
puts several questions about one job side by side in the same way.)

Some definitions carry the comment "Mutation": they are what a plausible mistake
would make of the definition that follows, and serve to show that a property
notices it. No specification uses them.

### MultiSession

`pc` follows `run_manifest`: `loop` (144), `launch` (146-157), `poll` (159-166),
`check` (168-173), `stop` (175-189), `result` (199-205), `returned`, `raised`.
`now` is the `time.monotonic()` taken at the top of an iteration, `sweep` the
copy `list(running.items())`, `draining` the session inside `collect_process`
after the loop; `failureDetected`, `globalTimeout`, `rc`, `timedOut` are the
variables of the same meaning. A session has a client (`client`, `exitCode`,
`pipe`: output nobody has read) and a batch on the server (`batch`, `ip`).
`sub` is the place inside a framework procedure: `SignalUpdate`, `SignalInsert`
and `SignalRetry` are the three statements of `USP_Signal`; `WaitExists` and
`WaitElapsed` the two looks of the wait loop. Killing a client leaves the batch
running until the server notices (`ServerAborts`). `Work` is any other statement
of a demo script and may fail. Exceptions: a start that raises
(`LaunchRaises`), a descendant that keeps the pipe open (`PollRaises`,
`StopRaises`), Ctrl+C (`Interrupt`).

Abstracted: the text of output (only that it fills the pipe), the command line,
and waits shorter than a tick. Polling reads one process per step, because
processes go on while others are polled.

### DemoHarness

`pc` is `gate`, `regular` (the loop head), `sql` or `multi` (a phase is under
way), `cleanup`, `returned`, `raised`. Time passes in ticks of half a second, so
that `max(1, int(...))` can be told from its argument. An SQL process ends in
one of the ways of the constant `Ends`, a record of timeout, failure and the
markers printed; `Matches` is the order in which `extract_summary` finds them.
A multi-session phase takes steps of `SessionRun`. The harness and the
orchestrator compute two deadlines from the same budget; a global timeout of the
orchestrator is possible only when its own has passed (`SessionStep`).
`PhaseRaises` is every exception of a phase, the cleanup included: `run_demo` has
no `finally`. `begun` holds the phases that began, by number; the cleanup is the one
after the last regular phase.

### JobControl and HostedJobs

`jobs[j]` is the stored record; its fields are those of the state file with
identifiers and hashes reduced to the generation and the checkpoint they stand
for. One call of `control` is one step, since it holds the state lock from the
read to `atomic_write` (236-252, 568-572). Inside a call, the helpers of the code
are operators on the record `w` (the state of the call): `Emit`, `Notify`,
`Reserve`, `RouteStart`, `ResumeOrStart`, `Acknowledge`, `Observe`, `AfterAck`,
`Decide`, each with the early returns of the function it is named for. `used` is
the ledger's dispatch counter.

`HostedJobs` adds the environment as `control` can see it: chats that are
running, idle or retired, the snapshot file (`view`), which may lag behind the
host, also over a handoff (`PublishLate`), actions that are granted but not yet
executed (`tray`), and the acknowledgement the host last reported. A response
may get lost (`Respond`), an effect may be executed and reported UNKNOWN, and
the operator may reconcile or resume. The models use two promises of the host,
which the documentation of the controller requires: it re-checks an action before
it executes it (`MayExecute`), and it executes an action id at most once and, when
it has given one up, for good (`settled`). `Rotate` is the event as `control`
accepts it: of a job that has an owner.

### ProviderExecution

One call per runner: `read` the checkpoint, `plan`, then per route `attempt`,
`invoke`, `wait`, `judge`. `invoked` is the history of all invocations with
their fate, over all calls, with the version of the input file each of them read.
`hash` is the version the digest was taken of when the call began (411), and
`edited` remembers whether the file changed since: the provider gets the file as it
is at 477. A caller dies anywhere; what it had sent goes on.
`NoRef` stands for a file that does not exist and is no checkpoint.

### WorkExecutor

`call` is the one call that holds the lock: `steps` (loop over the plan's steps),
`pending` (an attempt that an earlier call prepared), `try` (loop over the
candidates), `send`, `invoke`, `wait` (inside `_invoke_attempt`), `succeeded`,
`failed`, `out`. The checkpoint is `state`, `attempts`, `evidence`; every
assignment to them is followed by a save in the code, so the variables are the
file. `lost` records attempts whose caller died between the announcement and the
saved outcome. Cost and resource limits are one nondeterministic outcome.

### StdioAdapter and AdapterProtocol

`parent` is the place in `_call`: `start`, `poll` (the loop), `kill`, `join`
(the threads), `done`. `workers` are the three threads, `"in"` for the one that
writes the request. Output is counted in units; `FrameParts` units are a whole
answer, `Limit` is where `overflow` is set. The program reads, takes effect,
writes, stops at any point, or leaves a `descendant` with its pipes: nothing
makes it go on; a killed program may leave one too. A thread whose read or write
raises sets `io_failed` (`ReadFails`, `BrokenPipe`). Whether the bytes are a valid answer is the verdict `PROTOCOL`
or `ok`.

In `AdapterProtocol`, `remaining` is `open_until` minus now. `Outcomes` lists per
operation and adapter the classes a call may end with; `Settle` says which of
them `handle` counts, and for which operations.

### Provisioning and CostEvidence

`files` maps targets to the artifact they hold; two plans may have one target,
and each has its own checkpoint, staging file and lock, as in the code. A
caller's `pc` goes through `provision` from the lock to the report. A crash keeps
checkpoint, staging and target and gives the lock back; `Reconcile` is the user
who removes a foreign or half-installed target.

In `CostEvidence` a call takes its time once and goes through its sources in turn,
each under its own lock. An error of a kind that the code handles keeps the last
evidence as a fallback; any other ends the call. A call without sources makes no
contact and is left out (`validate_cost_sources` refuses an empty list).

### RuntimeConfiguration, ClientIntegration, DispatchEvidence

A command reads the document, decides and saves: first the record of what is
replaced, then the document. `replaced` is what the last save found on the disk,
kept as history. In `ClientIntegration` a document is a map of entries and "the
rest"; its digest is itself; `pretty` tells the bytes that `apply` writes from a
layout of the user's own, since a digest does. `Edit` is the user or another
integration. In `DispatchEvidence` receipts are records of an issuer that is
trusted, and then says what happened, or not, and then says anything, also about
another handoff. `ran` is what the host really executed: for which handoff, which
model, when. A handoff stands for its `handoff_id`.

### ArtifactRegistry and ArtifactAllocation

A registry maps references to records of identity, state, parent and alias, which
is what `Valid` looks at. A pull request has `base`, `head` and, in `approved`,
the commit of main that its gate has seen. `actions/checkout` of a `pull_request` event checks out
the test merge, so the merge base the workflow computes is main at the time of
the event. `ArtifactAllocation` has one step per file operation of the tool.

### EvidenceStore, EvaluationLedger, FragmentRouting

`EvidenceStore` has one action per step between taking and giving back the lock:
read, ask a source, write the evidence, write the schedule. `EvaluationLedger`
keeps in `at[p]` the state that a caller has loaded; the callbacks (`Reserve`,
`Settle`) are functions from state to state. The lock file is created exclusively,
survives a creator that dies (an operator removes it), and is waited for with a
timeout.
In `FragmentRouting` the fragment file and the index are written one after the
other without a lock, and the answers of the providers are fetched, overlaid and
judged before. Providers take their turns in the order of the sequence `Providers`
(the code sorts them); `todo` holds the positions still to come.

### ModelRouter, WorkPlanner, SessionLifecycle

Pure decisions of the code are operators over small catalogs (`Eligible`,
`Economics`, `Better`, `Boundaries`; `Best` and `ValidUntil` of the planner);
the state is the time and the decision somebody holds. The head of the planner's
sorted candidates is the best of a set (`Best`); the economics of a chain of models
are a recursive function. A probability is a number of quarters, so that expected
values of chains are integers. What is checked is the relation of a decision to a
later time at which it still claims to hold.

### RuleRecords and RuleCache

`RuleRecords` holds what one pass derives from a worktree, as operators:
discovery, fingerprints, reasons, the plan of what to reuse. `RuleCache` runs
passes step by step, one file at a time, while `Edit`, `Stage` and `Commit` change
the worktree; `history` is the sequence of all worktrees. Listing the instruction
chain is one step. A digest is the value it is the digest of. A snapshot that
agrees with its first pass carries the reasons of the second one (661-668).

## 3. Runs

| Run | Question | Result |
| --- | --- | --- |
| `multi_session_crowd` | handshake, fail-fast, duplicate signals and termination with three sessions, one blocked on its pipe | holds |
| `multi_session_faults` | what survives stale signals, a concurrent clear, starts that raise, open pipes and Ctrl+C, without fail-fast; refinement of `SessionRun` | holds |
| `hosted_jobs` | pauses and failed sources (`hold`), notifications (`notify`), continuations and reconciliation (`continue`), handoffs (`rotate`), under lagging snapshots, lost responses and unknown outcomes | holds |
| `executions` | demos, a provider, a plan, a stdio program and a circuit | holds |
| `shared_files` | allocation, registry, provisioning, client integration, runtime configuration | holds |
| `evidence` | model evidence, evaluation ledger, cost evidence, receipts, rule cache, router, fragments, planner, session lifecycle | holds |
| `jobs_pause` | "Pause/cancel prohibit new automatic grants" | violated |
| `demo_exception` | FWK-010: cleanup after a started setup "unabhängig vom vorherigen Ergebnis" | violated |
| `executor_cancel` | cancellation "is observed before invocation and between bounded adapter calls" | violated |
| `circuit` | "adapter circuit is temporarily open" | violated |
| `stale_gate` | "merge-time revalidation" of the registry | violated |
| `stale_overlay` | evidence overlays fields "only when a record is fresh" | violated |

### What the properties say

- **Sessions.** A returned verdict leaves no `sqlcmd` process
  (`NoProcessAfterReturn`); PASS means that every script ran to its end on the
  server (`PassMeansEveryScriptRan`); nobody passes a wait without a signal
  (`HandshakeOrder`); simultaneous signals neither fail nor get lost
  (`SignalSticks`); no session starts after an observed failure
  (`FailFastStartsNothing`); a run ends although a session is blocked on a full
  pipe (`EveryRunEnds`); and the whole is a `SessionRun` (`KeepsRunPromise`).
- **Harness.** The cleanup never runs beside a session that still lives
  (`CleanupRunsAlone`).
- **Jobs.** At most one effect is outstanding, at most one continuation is
  granted per checkpoint and one research per failure
  (`OneOutstandingEffect`, `NothingGrantedTwice`); a successor comes after the
  retirement of its predecessor, which is then neither continued nor able to
  change the record (`SuccessorAfterRetirement`, `RetiredNeverContinued`,
  `PredecessorIsFenced`); nothing is granted in the state PAUSED (`PauseHolds`).
- **Providers.** Only definite failures are followed by another invocation
  (`OnlyDefiniteFailuresAreRetried`); who is told COMPLETED, also by a replay, is
  told of an invocation that was answered by an attested model and whose output
  passes, and that read the version of the input he asked about, unless the file was
  edited between the digest of the call and its hand-over (`CompletedIsProved`).
- **Executor.** No repetition of, and nothing beside, an attempt whose outcome is
  open (`NoBlindRepeat`); the checkpoint never becomes one that
  `validate_checkpoint` rejects (`CheckpointStaysLoadable`); COMPLETED implies
  passed and independent validation also after a fallback
  (`CompletedIsValidated`); calls end (`EveryCallReturns`).
- **Stdio.** A call succeeds only with the effect taken and the whole output
  read (`OkIsTheWholeAnswer`), and returns whatever the program does
  (`StdioCallReturns`).
- **Registry and references.** No artifact has two references, and none is given
  away again, whoever dies where (`OneReferencePerArtifact`,
  `ReferencesAreNotRecycled`); main stays valid if branches have to be up to
  date (`MainStaysValid`); a merge loses no addition, removal or change that either
  side made since the branch started, and drops no record that both have
  (`NothingIsLost`).
- **Files.** An installer that may not be repeated is not
  (`InstallerNeverReplayed`); apply and rollback change nobody else's entries
  (`OthersAreUntouched`); a rollback restores what the save had replaced, after
  interrupted saves too (`RollbackUndoesTheSave`).
- **Evidence.** A record that holds is replaced only by what the replacing caller
  brought (`HeldEvidenceStays`); no update of the ledger is lost, whoever dies
  under its lock or gives up waiting (`NoLostUpdate`); an observation stands for a pair whose
  arms were all settled (`EvidenceIsPaired`); sources of costs are asked once a
  period (`ContactsAreSpaced`); what is attested did run, for this handoff, after it
  was made and while it held (`AttestedDidRun`).
- **Rules.** A complete snapshot is one worktree that existed during the call, in
  its files, its index and its HEAD, and that lacked nothing
  (`SnapshotIsOneWorktree`); what is reused was analysed under its present key (`ReuseIsFresh`).
- **Decisions.** A route that has not expired is the one that would be made now, as
  long as the session it was made for is alive or there is none: `valid_until` takes
  no account of the session's own `expires_at` (`DecisionIsCurrent`); a good stored fragment is not hidden by bad answers or
  unfinished stores (`StoredIsFound`); an executable plan rests on evidence that
  is good until it expires (`PlanHoldsUntilItExpires`); a session is never told
  less than before (`LifecycleNeverWeakens`).

### Disagreements between code and documentation

1. `jobs_pause`: PAUSE, then any observation that is late (or an outstanding
   action that expires) makes `manual` write NEEDS_INPUT over PAUSED; the next
   SOURCE_FAILED is granted RESEARCH although nobody resumed the job.
   `PauseHolds` is what remains: in the state PAUSED itself nothing is granted.
2. `demo_exception`: PREFLIGHT and a SQL SETUP have ended, and the next phase raises
   (a nested manifest that cannot be read, a pipe that stays open): it leaves
   `run_demo` without the cleanup that FWK-010:37 promises.
3. `executor_cancel`: a successful adapter call is followed by the adapter of
   the next step without a look at the cancellation marker.
4. `circuit`: a refused call counts as a failure and sets `open_until` anew. A
   client that asks again within each cooldown never gets through, although the
   error says that it may be retried.
5. `stale_gate`: the workflow does not run when main moves. Two pull requests
   approved against the same main can both be merged and together be invalid.
   With up-to-date branches (`UpToDate`), `shared_files` shows `MainStaysValid`.
6. `stale_overlay`: the fragment is stored after the overlay, and routed on after
   the evidence has expired.

Three have no run. AI_ORCHESTRATOR.md:51 binds the checkpoint to the input: the
input file is digested when the call begins (`ai_orchestrator.py:411`) and handed
over by its path after catalogs, evidence and routing (477), and nothing looks at it
in between. A version that was written in that window is processed, and COMPLETED is
reported, stored and replayed under the digest of the version before it; without the
words `\/ Last.edited`, TLC finds `CompletedIsProved` violated so. AI_ORCHESTRATOR
says that every attempt at a source is rate limited; a caller killed while it asks
has not written the schedule (`AttemptsAreSpaced` holds without kills, section 6).
And RULE_CONTEXT_CACHE_POLICY.md:59 lets any later relevant change of the Git state
invalidate an analysis; `rule_context_cache.py:1066-1075` ignores one that comes
with a change of line ends.

## 4. Bounds

No run uses a state constraint: the bounds are in guards and sets. Deadlock
checking is off where the modelled call may return for good, or the bound of a
counter may be reached.

| Instance | Values | Why it is enough |
| --- | --- | --- |
| Sessions, crowd | 3 sessions, `Timeout` 2, `MaxClock` 3, `PipeCapacity` 0 | two race for a signal, the third fails while one is blocked and one pending; one tick more than the deadline |
| Sessions, faults | 2 sessions, `Timeout` 3, `MaxClock` 4, `PipeCapacity` 1 | clear against signal, a wait that expires before, with and after the deadline |
| Jobs | 1 job, `MaxDispatches` 2-3, `MaxSequence` 2-3, `MaxWork` 1-2, `MaxChats` 1-2 | an action, its repetition after an acknowledgement, and an exhausted ledger; a checkpoint that advances while a snapshot lags; a predecessor and its successor. Each part takes the events and reports of its question |
| Harness | four demos of two or three phases, budget of two seconds | every kind of phase, an optional phase, no SETUP, a multi-session SETUP, phases after a SQL SETUP, every safety class |
| Provider | `MaxAttempts` 2, `MaxInvocations` 3, 2 inputs, 1 caller | a chain is used up within a call and begun again after a restart; the input changes at any point and changes back |
| Executor | two workers, three validators, `MaxAttempts` 4 | a fallback worker that is a validator, a validator without binding, one that is independent, two candidates per step and one attempt more than fits |
| Stdio | `FrameParts`, `RequestParts`, `Limit` 2, `Capacity` 1, `MaxOutput` 3, `Deadline` 1 | a frame and a request larger than the pipe, output beyond the limit, a program that is late |
| Circuit | `Threshold` 3, `Cooldown` 2 | closed, opening and open; a client that asks during the cooldown |
| Allocation | 2 processes, 2 artifacts, 3 references | two calls for one artifact, two for different ones, each interrupted |
| Registry | 2 pull requests, 3 references, 1 edit each after opening, 2 merges | parent cycles and duplicate aliases that need both sides |
| Provisioning | 2 callers, 4 recipes, `MaxCalls` 2 | an interrupted call and the one that resumes, or two at once on one target |
| Client integration | 2 callers, 3 requests, `MaxEdits` 1, `MaxCalls` 3, `MaxPlans` 3 | apply, foreign change, rollback; two plans for one file |
| Configuration | 1 editor, `MaxSaves` 3, `MaxCommands` 4 | an interrupted save between two others, and a rollback |
| Model evidence | 2 callers, 2 models, 2 sources, interval and validity 2, `MaxTime` 3, `MaxCalls` 4 | merges of two writers, records that expire between two reads |
| Ledger | 2 callers, `MaxPairs` 2, `MaxCalls` 4, a day of 2 ticks, `MaxClock` 3 | reservations that outlive their date, arms settled late and by different callers |
| Cost evidence | 2 callers, 2 sources, `Refresh` 2, `MaxNow` 5, `MaxCalls` 4 | two periods; the one call meets the other's lock |
| Receipts | 2 models, 2 handoffs, 1 run, validity 2, `MaxNow` 3 | a run for one of two handoffs, within and after its validity; receipts for the other handoff, for another model, of either issuer, from any time. An attestation rests on one run |
| Rules | 3 files, chains of two references; two recorders, or a checker, and 1-3 changes | a change between any two reads of a pass and between the two passes; a change of a distant dependency; a death before and after the write |
| Router | days of 4 hours, weeks of 3 days, `MaxClock` 13 | windows that span midnight and the end of the week |
| Fragments | 2 providers, 1 caller at a time, `MaxTime` 2, `MaxCalls` 2 | a crash between the two files and a later call |
| Planner | three capabilities in variants, `PlanTime` 3, `MaxTime` 4 | evidence that ends before, with and after the plan |
| Lifecycle | `Window` 5, `Soft` 2, `Hard` 4, `CheckpointDelta` 3 | below, at and above every limit, and unknown |

Three instances leave out interleavings that the code does not exclude, since the
code gives no guarantee there: `Windows = FALSE` (nobody writes the client's file
between the digest check and the replacement, `client_integration.py:476-509`),
`Overlap = FALSE` (two commands never edit the configuration at once; there is no
lock), and one caller at a time in `FragmentRouting` (the index is read and written
without a lock, `router_v2.py:189-193`). Without these restrictions the
properties of the three instances fail; the hazards are listed in `PROJECT.json`.

## 5. Fairness

- `MultiSession!FairSpec`: the orchestrator is a running loop that sleeps
  50 ms, the clock advances, and a batch that can take a step takes it. Weak
  fairness of a batch gives nothing to a batch that is blocked on its pipe or in
  a wait whose signal is missing: its step is not enabled, or leads back.
- `WorkExecutor!FairSpec`: only that the call goes on. An adapter call ends
  because `adapter_call` passes a timeout to `subprocess.run`. Crashes,
  cancellation, the deadline and new calls have no fairness.
- `StdioAdapter!Spec`: the parent's loop, its threads and the clock. The program
  and its descendant have none: they may stop for good at any point.
- `AdapterProtocol!Spec`: time passes. The client need not ask.
- Nothing is assumed of users, hosts, providers or operators, so the other models
  have no liveness property.

## 6. Proofs

Eight modules hold theorems, for every value of the constants that satisfies the
assumptions of the module they extend; the assumptions are named `ASSUME`s, which
TLC evaluates in the runs. Every safety invariant and every action property of a
passing run is stated by a theorem. Where an invariant is not inductive it is
strengthened, with one lemma or step per action, and the property follows.

| Module | Theorem | Statement |
| --- | --- | --- |
| `MultiSession_proofs` | `Invariance`, `TypeCorrect` | `Spec => []IInv`, `Spec => []TypeOK` |
| | `ReturnLeavesNoProcess` | `Spec => []NoProcessAfterReturn` |
| | `PassIsEarned` | `Spec => []PassMeansEveryScriptRan` |
| | `FailFastHolds` | `Spec => FailFastStartsNothing` |
| | `RunPromise` | `Spec => KeepsRunPromise`: `MultiSession` implements `SessionRun` |
| | `SignalsOrder` | `[]HandshakeOrder`, if `StaleSignals = {}` |
| | `SignalsStick` | `[]SignalSticks`, if no script clears (`NoClears`) |
| `HostedJobs_proofs` | `InductiveInvariant`, `TypeCorrectness` | `Spec => []IInv`, `Spec => []TypeOK` |
| | `OneEffectOutstanding` | `Spec => []OneOutstandingEffect` |
| | `NoGrantIsRepeated` | `Spec => []NothingGrantedTwice` |
| | `PausesHold` | `Spec => PauseHolds` |
| | `PredecessorsAreFenced` | `Spec => PredecessorIsFenced` |
| | `OwnersStayLinked` | `Spec => []OwnersInv` |
| | `SuccessorsFollowRetirement` | `Spec => SuccessorAfterRetirement` |
| | `RetiredIsLeftAlone` | `Spec => RetiredNeverContinued` |
| `Executions_proofs` | `CleanupAlone` | `PartSpec => []CleanupRunsAlone` |
| | `RetriesAreSafe` | `[]OnlyDefiniteFailuresAreRetried`, if there is one runner (`OneCaller`) |
| | `VerdictsAreProved` | `[]CompletedIsProved`, if `OneCaller` |
| | `WorkInvariance` | `PartSpec => []WorkInv` |
| | `LoadableForever` | `PartSpec => []CheckpointStaysLoadable` |
| | `CompletionIsEarned` | `PartSpec => []CompletedIsValidated` |
| | `NothingIsRepeatedBlindly` | `PartSpec => NoBlindRepeat` |
| `StdioAdapter_proofs` | `Invariance`, `TypeCorrect` | as for the sessions |
| | `OkIsWhole` | `Spec => []OkIsTheWholeAnswer` |
| | `DefiniteIsHarmless` | an outcome that may be retried means that nothing was started |
| `ArtifactAllocation_proofs` | `Invariance`, `TypeCorrect` | as for the sessions |
| | `OneReference` | `Spec => []OneReferencePerArtifact` |
| | `NotRecycled` | `Spec => ReferencesAreNotRecycled` |
| `SharedFiles_proofs` | `RegistryStaysValid` | `[]MainStaysValid`, if `UpToDate` |
| | `MergesLoseNothing` | `PartSpec => NothingIsLost` |
| | `InstallersRunOnce` | `PartSpec => []InstallerNeverReplayed` |
| | `IntegrationsTouchTheirOwn` | `OthersAreUntouched`, if not `Windows` |
| | `RollbacksUndoTheSave` | `RollbackUndoesTheSave`, if not `Overlap` |
| `EvidenceStore_proofs` | `Invariance` | `Spec => []IInv` |
| | `HeldStays` | `Spec => HeldEvidenceStays` |
| | `AttemptsSpaced` | `AttemptsAreSpaced`, if `"killed"` is not an ending |
| `Evidence_proofs` | `SessionsAreToldMore` | `PartSpec => LifecycleNeverWeakens` |
| | `AttestationsAreTrue` | `PartSpec => []AttestedDidRun` |
| | `SourcesAreSpared` | `ContactsAreSpaced`, if a contact is answered or refused |
| | `UpdatesAreNotLost` | `PartSpec => NoLostUpdate` |
| | `ObservationsArePaired` | `PartSpec => []EvidenceIsPaired` |
| | `PlansHold` | `PartSpec => []PlanHoldsUntilItExpires` |
| | `ReuseStaysFresh` | `PartSpec => []ReuseIsFresh` |
| | `DecisionsStayCurrent` | `PartSpec => []DecisionIsCurrent` |
| | `StoredFragmentsAreFound` | `StoredIsFound`, if there is one aggregator |
| | `SnapshotsAreOneWorktree` | `[]SnapshotIsOneWorktree`, if `NothingReturns` |

### The hypotheses

A hypothesis is there because the property is false without it, and each is
satisfied by the values of the run that checks the property.

| Hypothesis | What breaks the property otherwise |
| --- | --- |
| `StaleSignals = {}`, `NoClears` | rows of an earlier run, and `USP_ClearSignals`, are what the two properties are not about |
| `OneCaller` | `plan_or_execute` takes no lock; the documentation leaves exclusive use of an id to the host |
| `UpToDate` | the finding `stale_gate` |
| not `Windows`, not `Overlap` | a write between a digest check and the replacement; two commands that edit at once (section 4) |
| `"killed"` is no ending; a contact is answered or refused | who dies while asking has not written the schedule |
| one aggregator | the index is read and written without a lock (section 4) |
| `NothingReturns` | a file that gets back what it held before (section 7) |

### The arguments

**Sessions.** `NoProcessAfterReturn` is not inductive: that the result is reached
with live processes is excluded only by what happened before. `IInv` adds the
bookkeeping of `run_manifest`: a live process is in `running` (`AliveIsRunning`);
the result is reached with empty dictionaries (`NothingLeft`); while no exception
struck, a session without a return code is pending or running (`Accounted`); a
pending one has no process yet (`Started`); a zero exit code stems from a batch at
its end (`CodesAreEarned`), hence so does PASS (`VerdictIsEarned`); and an
observed failure is remembered until the loop is left (`FailureIsSeen`).
`FailFastHolds` follows from `FailureIsSeen`: in a state with an observed failure
no launch is enabled. The refinement needs `CodeInv` besides: a verdict is
there exactly at the return (`VerdictAtReturn`), a process that lives or never
started has no exit code (`NoCodeYet`), and what is recorded of a session is the
code of its process (`Reported`). Each step is then a step of `SessionRun` or a
stutter. For the signals, a row names a session that is past the statement raising
it (`RowsAreRaised`); a signal that was raised is in the table, and the second
UPDATE of `USP_Signal` finds the row its INSERT collided with (`RowsStay`); so a
batch that fails does so at another statement than a signal (`FailsElsewhere`).

**Jobs.** The lemmas say of each call of the controller what it may grant and
which effects it leaves (`Quiet`, `Emits`). `IInv` is `TypeOK`; a job has one
effect outstanding at most, of its owner, with a current continuation key
(`JobsConsistent`); a checkpoint a snapshot names as progress came after the one
before it (`ProgressIsReal`); and the record remembers every continuation and
every research it granted (`GrantsAreRemembered`). `NothingGrantedTwice` is a
conjunct of its own: what is granted next is compared with what is remembered.
`OwnersInv` relates the record of a job to its host and its chats. Pending actions
have ids of their own (`Numbered`); the host holds or has settled ids that were
given out, never both (`Delivered`); the record is behind the host by at most the
start it waits for, and only a handoff retires a chat (`Linked`); an
acknowledgement tells what became of its action (`AckIsTrue`), and a snapshot is of
the host as it is or of an earlier generation (`Told`).

**Executions.** A phase of the harness begins when the sessions of the one before
are over (`SessionsAreOver`). For a provider, `ProviderInv` says that a
doubt is in the checkpoint before it can arise and leaves it only with a definite
failure (`DoubtIsSaved`), that a saved COMPLETED is true and is what the caller is
told (`VerdictIsTrue`), and that an invocation under way read the version of the
digest unless the file was edited (`ReadsWhatIsAsked`); all need that the caller knows what the file holds,
hence `OneCaller`. For the executor,
`WorkInv`: at most one attempt is open (`OpenOnce`); a call knows at each place
which steps are done (`Placed`); a lost attempt goes on only if its repetition is
harmless (`LostIsHarmless`); evidence is about work that was done, and by somebody
else if required (`EvidenceIsIndependent`); COMPLETED stands for steps done and
scopes passed (`StateIsEarned`).

**Stdio.** `ReadersEnd` (a reader ends only at the end of its stream, or on a
flag), `ActsFirst` (output implies the effect), `ReadWasWritten` and `NotStarted`
carry `OkInv`: when the loop decides for success, what was read is what was
written, and nobody is left to write.

**Allocation.** The argument is that of a lock: `LockInv` says that whoever is
between lock and release is the one holder, `RegistryInv` that the registry is
valid and filled in the order of its sequence numbers, `WorkInv` that what the
holder has read is what the registry still says, and that the reference a process
is about to write into an artifact is the one the registry holds for it. The lock
file of a dead process only stops everybody; a person removes it when no process
holds it.

**Shared files.** Main is valid, and what was approved against the main of
now may be merged (`ApprovalHolds`). Every base, head and main holds records
(`RegistryTypeOK`), so that a merge without conflict is, record by record, one of the
sides or their fields put together, which loses nothing (`MergeLands`). Of provisioning, the holder of the plan's lock is alone
(`AloneInThePlan`), an installer is announced in the file before it starts
(`AnnouncedFirst`) and was started once at most (`StartedOnce`). Of client
integration, one caller works at a time (`OneIntegrates`), manifests and backups
say what their plan replaced (`StoreIsTrue`), and what a caller is about to write
is what its plan comes to (`KeepsToThePlan`). Of the configuration, one command
edits (`OneEdits`), the record names what the applied document replaced
(`RecordIsTrue`), and what the editor has read is current (`ReadIsCurrent`).

**Model evidence.** The lock is given back by a death, and `IInv` (`Shapes`,
`LockInv`) says that one caller is past it and that the copy it works on is the
file. `SpacedInv` adds, for the rate limit, that the schedule that counts (in the
memory of who refreshes, else the file) is an interval past each contact; a kill
in between is what breaks it. `CostInv` is the same for costs, in a model where
the clock stands while a call is under way (`CallsTakeNoTime`). The evaluation
ledger is sound in all its entries (`Sound`), and who writes has loaded the file
that is there (`WritersHaveLoaded`).

**Decisions.** What is held was computed at some time until now (`RouterInv`,
`PlanInv`): the theorems then say that the computation gives the same at any time
until the stated expiry. For the router this is arithmetic of the calendar: the
tariff windows that are open stay open until the next boundary, and no quota or
price changes before. For the planner, candidates expire only at the time the
plan names, and the best of a set (`Best`) stays the best when no member leaves
it. `LifecycleInv` orders the advice to a session by weight (`Heavier`),
`DispatchInv` says that what is attested was run for that handoff. `FragmentInv`: who is on the
way to the index carries every usable published fragment in what it has selected
or still has to ask for (`Finds`).

**Rules.** `ReuseIsFresh` rests on `AnswersInv` (what a call returns compares the
record it read with what it saw) and on `ReuseKeepsKeys`: a record that is
reused has the key of what was seen (`SameKey`).
`SnapshotIsOneWorktree` is about a call that reads one file at a time while
somebody edits, stages and commits. `HistoryInv` says that versions only go
forward; of each pass the invariant records that its chain was listed in one
worktree, that its sources were each read in some worktree of the pass, and that
their references were followed (`PassSound`: `Listed`, `FirstSeen`, `SourcesRead`,
`Followed`). Two passes that agree saw each
file with the same contents, once before and once after the second listing; since
no version returns, the file had these contents then (`Between`). The same holds
of the index and HEAD. Thus there is one worktree, that of the second listing,
with all the contents of the snapshot; what the code discovered by following
references is the least closed set of that worktree (`DiscoveryIsClosed`,
`DiscoveryIsLeast`), so that nothing is missing from it either.

### Only model-checked

The liveness properties `EveryRunEnds`, `EveryCallReturns` and `StdioCallReturns`:
fairness and `ENABLED` are out of the prover's reach. The findings are
counterexamples and stay with TLC as well. Induction over data is not available as
a rule, because the library states it with an operator as its parameter; where a
property depends on a recursive function or a choice (the reservations
of the ledger, the instruction chain, the best candidate of a plan), the proofs argue by a least
counterexample (`LeastNatural`), so that no invariant of a passing run is left
out.


## 7. What is not modelled

- Reports, formats, argument parsing, JSON framing, the two MCP servers and
  logging.
- The ownership markers of the test database and the three lifecycles.
- The hard budgets of `control` (`orchestration_control.py:316-334`): `Reserve`
  knows the dispatch bound only. A refusal by a budget takes the same way out,
  NEEDS_INPUT and no action, under another reason; it is not among the choices of
  the model. Nor is the truncation of a job's notifications to 32 keys (305), after
  which an old notification may be repeated.
- The merge base of a pull request that merged main into itself: `Gate` uses the
  main its branch started from.
- The three calls of git that tell the state of a worktree
  (`rule_context_cache.py:438-448`), and the listing of an instruction chain
  (267-330), are one step each.
- Costs of an arm beyond the reserved amount: `LedgerAssumption` bounds them, the
  code does not, and no property is about them.
- AdapterSynthesis and the role plans of client integration: they write one fresh
  directory or nothing. A check of their inputs would be a copy of the code.
- The directories `ai-runtime-adapters` and `model-router` that
  `client_integration.py:891,934` and `ai_orchestrator.py:326-327` name exist with
  underscores in the repository; what those lines load is taken as present.
- The SQL of the demos, their measurement profiles; `src/Tests` and `src/Tools`.
- Two concurrent callers of `plan_or_execute` with one orchestration id: the
  code takes no lock. With two runners TLC finds
  `OnlyDefiniteFailuresAreRetried` violated; the documentation leaves exclusive
  use to the host, so this is recorded as a hazard.
- After an exception of `run_manifest`, nothing is promised about the processes
  that still run (`SessionRun!Throw`).
- Contents that come back, in the rule cache: versions of a file only go forward.
  Where a file gets back what it held before, between the reads of one pass and
  again between those of the other, both passes can see the same mixture of two
  worktrees, and comparing digests (`rule_context_cache.py:661-668`) does not
  notice it: with such contents TLC finds `SnapshotIsOneWorktree` violated.

What was noticed while modelling, and is covered by no property:
PAUSE and RESUME make a cancelled or completed job run again
(`orchestration_control.py:461`); a restart from PREPARED has a fresh attempt
count (`ai_orchestrator.py:424`); the timeout of a lock escapes
`plan_or_execute` (`ai_orchestrator.py:428`); a refresh may replace a newer
accepted record of its own source (`ai_orchestrator.py:316-318`); an expired
`resource_cost` removes its model (`router_v2.py:342`); an evaluation recorded
under another task class cannot be settled (`model_router.py:355-362`); the cost
limit of a plan is applied to each capability by itself, and failed attempts cost
nothing; absent ownership markers are NULL and pass the comparison
(`FWK_MultiSessionControl.sql:99`); a clear between the two statements of a signal
removes it (`:134`); a start that raises leaves the earlier sessions running
(`orchestrate_sessions.py:157`).

## 8. Plan

Done: sessions and signals, their abstract run, the harness, the job controller
and its host, provider execution, work executor, adapters, provisioning,
configuration and client integration, the registry and its references, evidence,
router, rule cache, planner; theorems about every safety property that a run
checks, with the hypotheses named in section 6, and the refinement of
`SessionRun`.

Next, in this order:

1. Proofs: the remaining hypotheses made weaker where the code allows it, such as
   `StoredIsFound` for callers that overlap without meeting in the index, and
   `ContactsAreSpaced` with deaths that lose no record.
2. An abstract ledger of external effects (announced, sent, settled, in doubt)
   that `ProviderExecution`, `WorkExecutor` and `Provisioning` all implement.
3. The lifecycles of the test database, Query Store and Extended Events with
   their ownership markers (three-valued comparison included), composed with the
   harness.
4. The lock protocols of CON-004 to CON-006 and the DGN-007 session channel.
