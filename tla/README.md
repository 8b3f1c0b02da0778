# A TLA+ development for codewith

codewith is a Rust fork of the Codex agent. Its own core logic, on top of the
upstream agent loop, is durable multi-agent coordination: several app-server
processes of one user share one SQLite state database and use it to schedule
prompts, to pass mail between threads, to run background agents and workflows,
and to survive crashes while doing so. Nothing but leases, heartbeats and
transactions coordinates the processes. That is the part modelled here, because
it is the part that tests reach least: most of its failures need two processes,
a crash and a late answer.

Paths below are relative to `src/codex-rs/` unless they say otherwise.

## 1. The system

| component | state | operations | interacts with |
|---|---|---|---|
| thread schedule store (`state/src/runtime/schedules.rs`) | tables `thread_schedules`, `thread_schedule_runs` | create, update, resume, delete, claim (due, now), mark started, extend, defer, finish, expire | called by the runtime and by requests; reads goals and sessions |
| thread schedule runtime (`app-server/.../thread_schedule_runtime.rs`) | a polling loop, one task and one heartbeat task per claim | tick, execute claim, submit turn, heartbeat, defer, finish | store, thread manager, goal service |
| thread schedule requests (`.../thread_schedule_processor.rs`) | none of its own | create, update, pause, resume, delete, runNow, get, list | store, runtime |
| cadence arithmetic (in the store's caller) | none | next run after a completion, failure backoff, circuit breaker | runtime |
| local active sessions (`state/src/runtime/local_active_sessions.rs`) | table: thread, owner, last seen | heartbeat, prune | both claim queries |
| mailbox store (`state/src/runtime/mailbox.rs`) | messages, attempts, dead letters, receipts, target leases | enqueue, claim (client, dispatcher), ack, fail, sweep, release | dispatcher, requests |
| mailbox dispatcher (`.../thread_mailbox_dispatcher_runtime.rs`) | a polling loop | tick, deliver (resume or look up), durable transition, advertise, release, wake | mailbox store, sessions, thread manager |
| mailbox requests (`.../thread_mailbox_processor.rs`) | none | enqueue, claim, ack, fail, list, read | mailbox store |
| pending input of a thread (`core/src/session/input_queue.rs`) | in-memory queue | enqueue, drain, start a turn for pending work | dispatcher, agent loop |
| background agent store (`state/src/runtime/background_agents/runs.rs`, `interactions.rs`) | runs with owner and generation, process leases, questions to the user | admit, claim, heartbeat, set status, bind a thread, orphan, stop, delete, finalize; ask, deliver, answer, expire | workers, daemons, requests, workflow orchestrator |
| background agent workers and daemons (`app-server/.../background_agent_live.rs`) | worker tasks or worker processes, handles of spawned processes | reconcile, claim, spawn, start or resume the thread, submit the prompt, wait for the user, finish, fail, prune, rehydrate, shut down | store, thread manager, operating system |
| background agent requests (`.../background_agent_processor.rs`) | none of its own | start, stop, delete, attach, respond | store, workers of the same process |
| workflow orchestrator (`state/src/runtime/workflow_orchestrator.rs`, `workflows.rs`, `workflow_verifiers.rs`) | runs with owner, generation and lease; steps, approvals, verifiers | claim with fence, advance, reconcile, admit branches, claim and record a verifier, pause, resume, cancel, approve, reject | background agents, goal plans |
| workflow activation (`ext/workflows/src/activation.rs`) | one supervisor task per run and process | activate, drive a generation, execute a verifier, retry | orchestrator |
| goal-plan projection (`state/src/runtime/workflow_goal_plan_projections.rs`) | the plan a run is projected to | project, block, pause, resume | requests, supervisors, the session |
| thread pending interactions | questions of interactive threads | create, deliver, respond, time out | agents, requests |
| goals and goal plans | goal of a thread, plan nodes | set, hold, complete, advance | agent loop, schedules |
| managed worktrees, agent jobs, memory jobs | rows with leases and watermarks | assign, claim, complete | agents |

The rest of the repository (the agent loop, sandboxing, model providers, MCP,
the terminal UI, the JSON-RPC transport) is listed in `PROJECT.json` with the
reason for which it is not modelled.

### What is hard here

* **Several processes, no coordinator.** Two dispatchers or two schedule
  runtimes poll the same rows. Ownership is a lease column and a fresh id; a
  process that was merely slow keeps acting on a lease another one has taken.
* **Crashes.** A crash leaves rows `leased`, `running` or `claimed`; the next
  claim of any process must tell them from work that is going on.
* **State read before an `await` and used after it.** Updates of a schedule
  read the row outside of the transaction that writes it; the finish of a run
  computes the next run time from a row it read earlier; a tick claims with
  the time it took at its start.
* **Repeated and late calls.** Acknowledgements are repeated until they get an
  answer; terminal events of a turn come twice; clients answer after the lease
  of their claim has lapsed.
* **Timers against leases.** A heartbeat must come before the lease ends, and
  a dispatch must hand its target lease over to a session row with no gap.

`PROJECT.json` lists these as hazards, each at its line, with the properties
that would catch it.

### What makes each component correct

* Schedules: a schedule has at most one run in progress and its lease names
  it; outcomes are final; a healthy run is not stolen; a one-time schedule is
  done once; every run ends; an active schedule will run or is stopped; a goal
  on hold stops its loop; repeated failure stops a schedule.
* Mailbox: a message and its attempts agree; no more attempts than permitted;
  a settled message stays settled; dead letters and receipts tell the truth; a
  thread is not run twice by delivery; every message settles; an acknowledged
  message reaches the model.
* Background agents: a run has one owner per generation and a fenced owner
  changes nothing; a stop wins over everything the worker does later and is
  carried out whoever crashes; nobody's run is forgotten; admission keeps the
  capacity; a question is answered at most once and dies with the generation
  that asked it; the initial prompt is submitted once.
* Workflows: nothing runs without the consent and the results it depends on;
  limits on branches, worktrees and agents are kept by all generations
  together; a step succeeds only with its verifiers; a late result is not
  recorded; a cancelled run is quiet and an ended one final; a cancel is
  carried out, and a run settles or visibly waits for somebody.

## 2. Modules

    ScheduleCadence          operators: run times, backoff, breaker
      CadenceTrain             long sequences of completions         (TLC)
        CadenceTrainProofs                                           (TLAPS)
      ThreadScheduleStore      the tables and their transactions
        ThreadScheduleStoreProofs                                    (TLAPS)
        ThreadScheduleRuntime    polling loops, tasks, heartbeats, crashes
          ThreadSchedules          + requests; the whole subsystem
            ThreadSchedulesProofs    (implements the store)          (TLAPS)
            MCThreadSchedules        instances                       (TLC)

    MailboxStore             the tables and their transactions
      MailboxStoreProofs                                             (TLAPS)
      MailboxDispatcher        dispatchers, target threads, clients
        MailboxDispatcherProofs  (store refined, one owner)          (TLAPS)
        MCMailbox                instances                           (TLC)

    AgentLifecycle           what a roster of agents promises        (abstract)
    BackgroundAgentStore     the tables and their transactions
      BackgroundAgentStoreProofs     (implements AgentLifecycle)     (TLAPS)
      BackgroundAgents         workers, daemons, requests, crashes
        BackgroundAgentsProofs   (implements the store)              (TLAPS)
        MCBackgroundAgents       instances                           (TLC)

    WorkflowRuns             a run, its supervisors, requests, agents
      WorkflowRunsProofs                                             (TLAPS)
      MCWorkflow               instances                             (TLC)

The first three subsystems have the same two layers. The *store* module describes
the tables and gives one action per transaction; its own specification lets any
caller issue any transaction with any arguments in any order, at any time, so
what holds of it holds whatever the callers do. The module above composes those
actions into the callers the code really has, one action per stretch of code
between two awaits, and adds processes, crashes, time and clients. The
properties of the store are proved for the most general callers, and the
composition is proved to implement the store; the properties that depend on what
the callers do are stated, checked and, where section 4 says so, proved of the
composition. A workflow
run is one module: its transactions have a single caller each, and it sees of a
background agent only the status.

### Schedules

`sched[s]` and `run[r]` are the rows. A claim makes a fresh lease id and a fresh
run id together; the model has one identifier for both, and issues ids in order.
`session` is the `local_active_sessions` row of the thread and `goal` its goal
(the goal service is external: the store sees only whether the goal is on hold).
One thread is modelled, since no transaction relates the schedules of two.

A transaction is one step: the code runs each one under `BEGIN IMMEDIATE` and
repeats it from the start when the database is busy. Two are more than that. A
claim that reaps the run of a goal, and the finish of such a run, look the goal up
in `goals.db`, another database, and commit to `state.db` afterwards; the look
holds no lock that lasts until the commit (`schedules.rs:954`, `1522`). They are two
steps: `probe` is the transaction that has looked, with what it saw. While it
is open nothing else writes the schedule tables (`WriteLock`), since `BEGIN
IMMEDIATE` has the lock of `state.db`, but the goal may be held or released.

| code | action |
|---|---|
| `create_thread_schedule`, `update_...`, `resume_...`, `delete_...` | `CreateSchedule`, `UpdateSchedule`, `ResumeSchedule`, `DeleteSchedule` |
| the two claim functions, with their goal-hold branch | `ClaimDue`, `ClaimNow`, `ClaimHeld` |
| `mark_..._started`, extend, defer, finish, expire | `MarkStarted`, `ExtendLease`, `DeferRun`, `FinishRun`, `ExpireSchedules` |
| `tick` | `TickBegin`, `TickLook`, `TickClaim`, `TickClaimHeld`, `TickEnd`, `TickResume` |
| `execute_claim`, `submit_claimed_schedule` | `ReadGoal`, `PrepareGoal`, `StartRun`, `StartHeartbeat`, `CheckOwnership`, `SubmitTurn`, and for their error paths `SubmitError`, `WaitForUsageProfile`, `RejectTurn` |
| heartbeat task | `Heartbeat`, `HeartbeatError` |
| terminal events, `finish_scheduled_run_state` | `TurnEnds`, `RecoverRun`, `FinishRead`, `FinishLook`, `FinishWrite`, `FinishMiss`, `DeferWrite`, `FinishError` |
| request handlers, split where they await | `CreateCheck`/`CreateInsert`, `UpdateLoad`/`UpdateRead`/`UpdateWrite`, `PauseLoad`, `ResumeLoad`/`ResumeWrite`, `Delete`, `RunNowLook`/`RunNow`/`RunNowHeld` |

Abstractions worth knowing: dynamic loops are interval loops; a change of the
time zone is a patch that names the same cadence kind; the two reads at the
start of a finish are one step; a graceful shutdown is a crash; error texts,
`last_run_at`, `updated_at`, turn ids and the legacy claims with no owner are
left out, and so is the nesting of schedules (parent columns and triggers).
Heartbeat timers are punctual within `HeartbeatSlack`, and the model assumes
what the constants of the code give: interval plus slack is less than the lease.

`ScheduleCadence` holds the arithmetic of next run times; the evaluation of a
cron expression is external. `CadenceTrain` drives it alone through every train
of completions and failures.

### Mailbox

`msg[m]`, `attempt[a]`, `dead[m]`, `receipts[m]` and `tlease[t]` are the rows of
the five tables. An attempt and its lease share an identifier, as above. A
message stands for its idempotency key, so a repeated enqueue is a stutter.

| code | action |
|---|---|
| `enqueue_message` | `EnqueueMessage` |
| `expire_stale_mailbox_leases_in_tx`, `expire_due_messages_in_tx` | part of every claim: `Swept`, `SweptAttempt`, `SweptDead`, `SweptReceipts` |
| `claim_next_message` | `ClaimForTarget`, `ClaimNothing` |
| `claim_next_due_message` | `ClaimForDispatch`, `DispatchNothing` |
| ack, fail (retry or terminal), `release_dispatch_target_lease` | `AckMessage`, `FailForRetry`, `FailTerminal`, `ReleaseTarget` |
| `heartbeat_session` (of the listener a resume starts), the refresh with `prune_owner_sessions` | `HeartbeatSession`, `ShowSessions` |
| dispatcher `tick` | `TickBegin`, `TickClaim`, `TickError`, `TickEnd` |
| `deliver_claim` | `Lookup`, `Resume`, `ResumeFails`, `Enqueue`, `DeliveryFails` |
| `dispatch_claim`: durable transition and hand-over | `Transition`, `LostReply`, `GiveUp`, `Advertise`, `AdvertiseFails`, `Release` |
| wake task, running turns | `Wake`, `WakeGivesUp`, `UserTurn`, `Drain`, `TurnEnds` |
| unloading (`thread_lifecycle.rs:545`) | `UnloadBegin`, `UnloadComplete`, `UnloadFails` |
| mailbox requests | `EnqueueRequest`, `ClientClaim`, `ClientAnswer` |

A copy of a message in memory is identified by the attempt that enqueued it: the
queue does not remove duplicates by message id. The policy `"queue"` is a payload
that parses as queue-only but carries a marker the claim's filter looks for;
`"manual"` is a payload with no marker, which dispatchers never claim. A process
handles one dispatch at a time, as in the code. An unload has two phases: from
`UnloadBegin` on the thread is in `closing`, no refresh shows it as live and it is
still loaded; it then goes, with its queue, or its shutdown fails and it is live
again. `stranded` holds the copies that are in memory with nobody to wake their
thread: those of an acknowledgement given up after it may have committed
(`GiveUp`), and those whose turn the task policy refused (`MayRefuse`,
`core/src/tasks/mod.rs:576`). Left out: listing and reading, redaction, the cascade when a
thread is deleted, the status `canceled`, which nothing writes, and the feature
flag that switches a dispatcher off (`thread_mailbox_dispatcher_runtime.rs:145`).

### Background agents

`run[r]`, `lease[r][g]` and `ask[q]` are the rows. A claim takes a free run, raises
its generation and names the supervisor; every later write of that owner carries
both and is refused when either has changed. A process is an app-server, whose
workers are tasks of its own, or a daemon, which claims a run and then spawns a
worker process that outlives it.

| code | action |
|---|---|
| admission with its count, terminalization of runs of other builds | `Admit`, `Terminalize` |
| `claim_background_agent_supervisor_inner`, worker handle, heartbeat, status events, thread binding | `Claim`, `RecordHandle`, `Heartbeat`, `SetStatus`, `FinishLease`, `BindThread` |
| the sweeps of stale runs | `Orphan`, `CancelStale` |
| stop, delete, finalize | `RequestStop`, `RequestDelete`, `Finalize` |
| pending interactions | `Ask`, `Deliver`, `Answer`, `CancelQuestions`, `Close` |
| `reconcile_background_agents` and a worker up to its first turn | `ReadRun`, `ClaimRun`, `Boot`, `AwaitReceipt`, `ReceiptTimeout`, `Configure`, `Defer`, `Starting`, `OpenThread`, `Bind`, `Running`, `SubmitPrompt`, `StartupBeat` |
| the event loop of a worker, questions, the end | `GoalTurn`, `TurnEvent`, `TurnEnds`, `Tick`, `Cancelled`, `Stop`, `AskUser`, `WaitPoll`, `Expire`, `WaitCancelled`, `Answered`, `Ending`, `WorkerError`, `MarkFailed`, `Failing`, `BusyExit` |
| `reconcile_background_agent_worker_processes` and its cleanup | `DaemonClaim`, `Spawn`, `SpawnFails`, `RecordSpawn`, `WriteReceipt`, `BookkeepingFails`, `Cleanup`, `FailClaimed`, `WriteFailed`, `FinishFailed`, `FinalizeRead`, `StopTracked`, `Prune`, `Rehydrate` |
| agent requests | `StartSweep`, `StartRun`, `StopRead`/`StopFence`/`StopQuestions`, `DeleteRun`, `CancelWorker`, `CancelFinalize`, `Attach`, `Respond` |
| the environment | `Age`, `Stall`, `Crash`, `WorkerCrash`, `Shutdown`, `Leave` |

`AgentLifecycle` is the promise without statuses, leases and heartbeats: a run is
absent, free, held or over, taken only when free and wanted, and its epoch grows
with every take. `BackgroundAgentStore` maps its rows to it
(`INSTANCE AgentLifecycle WITH phase, holder, epoch, wanted`).

Abstractions: the age of a heartbeat is the flag `stale`, which `Age` sets for a run
that nobody attends and `Stall` for one whose worker is merely slow; the two
waiting statuses are one; events, receipts of repeated calls and status snapshots
are left out; a pass of the reconcile reads `PassLimit` rows, those updated last in
the code (200) and any of them in the model (`ListRuns`); a thread is named after the generation that created it and is a
count of the initial prompts in its rollout; a restarted process has a new
supervisor id, so it is another process; a reconcile pass that is still going on
when its process shuts down starts nothing new; builds of another version appear
only through the admission that ends their runs; a stop call that fails is one
that is made later. The snapshot of the configuration a worker is admitted with,
and `fail_unclaimed_...`, are left out.

### Workflows

`run`, `step`, `approval`, `agent` and `ver` are the rows of one run, `sup[p]` is the
supervisor task of a process and `owed` holds the goal-plan updates whose request
has committed and which are still to be made.

| code | action |
|---|---|
| `activate_thread_runs` and `activate`, `run_supervisor`, `drive_generation` | `Activate`, `ClaimRun`, `SupervisorEnds`, `Beat`, `LoseFence` |
| `advance_workflow_run`, and the plan it blocks | `AdvanceRun`, `AdvanceCancel`, `AdvanceEnded`, `BlockPlan` |
| `reconcile_workflow_run_branches`, `admit_workflow_run_branches` | `Reconcile`, `AdmitBranches`, `AdmitRefused`, `AdmitBlocked`, `AdmitNone` |
| verifiers | `ClaimVerifier`, `Execute`, `Record` |
| requests, with the second transaction on the plan | `CancelRequest`, `PauseRequest`, `ResumeRequest`, `UpdatePlan`, `Approve`, `Reject` |
| session and background agents | `CompleteGoal`, `AgentClaimed`, `AgentOrphaned`, `AgentEnds`, `AgentStopped`, `UserStops` |
| the environment | `Expire`, `Stall`, `DbFails`, `Crash` |

Abstractions: a lease is the flag `live`, since a heartbeat extends only a lease that
is still live; an agent is `queued` when it is queued or orphaned and `ended` when
it failed or was cancelled; a step has one agent, because a step that was
admitted never becomes ready again; a supervisor is started when the run is started
or resumed, which is the second half of the request (`UpdatePlan` of `"create"` and
`"resume"`), and when its thread is loaded and the run is not paused (`Activate`);
an admission whose workspaces cannot be provisioned is rolled back and tried again
(`AdmitRefused`), as often as it happens; a plan has a status and blocked nodes or
none, and of its status only an active one becomes blocked (`"shelved"` is a paused
plan and `"stuck"` an active one with blocked nodes); verifiers are the `run_commands` ones; the
session completes goals of the steps in `Worked` only. Not modelled: workflow
timers and automations, monitor links, `publish_workflow_run_verifier_effect`
(notifications), and the parsing of a specification, whose result is the
constants.

## 3. Runs

A run is `tlc -config <name>.cfg <module>`. Behaviours end at the bounds, so
deadlock is not checked. The sizes of the instances are chosen so that the events
named below all happen; `Max...` and `Last...` are bounds, everything else is a
parameter of the system with its real meaning and a small value.

| run | instance | checks | shows |
|---|---|---|---|
| `schedules_core` | 2 processes, one of which may show the thread as live, 1 schedule (expiring loop or one-time), 2 runs, a crash by time 1, time to 3 | `TypeOK`, `LeaseMatchesRun`, `OnceCompletesOnce`, `OutcomesAreFinal`, `HealthyRunIsKept`, `EveryRunEnds` | leases lapse, are taken over, and the first owner comes back: nothing it does later is applied, a run with a beating heart is left alone, and also the runs of a crashed process end |
| `schedules_requests` | 1 process; 2 requests, one after the other, of update, pause, resume and delete, each loaded before and written after steps of the process | `LeaseMatchesRun` | requests with stale reads do not break the tables |
| `schedules_goals` | a /goal loop, runNow, a crash by time 1 or a failed database call, time to 3, goals held and released, also between the look of a transaction and its commit; no resume | `ActiveIsArmed`, `HeldGoalStopsSchedule` | every way a run ends stops the schedule or arms it; a run that is finished or reaped on a held goal stops its loop, unless the hold came after the look of that very transaction |
| `cadence_train` | completions to time 40 | `NextIsFirstBeat`, `StopsAtMaxFailures` | drift-free next run times, and the breaker of the finish path |
| `mailbox_core` | 1 dispatcher and clients claim 2 messages of 2 policies, 3 attempts, leases of 1, expiry, unloading that may fail, time to 2 | `TypeOK`, `ClaimMatchesAttempt`, `PoisonedIsDeadLetter`, `ReceiptsTellStatus`, `SettledIsFinal` | the four tables tell the same story although answers come late, never or after a take-over |
| `mailbox_live` | 2 punctual dispatchers, 1 message of 2 attempts for an unloaded thread, a crash by time 1, a database error or a lost reply, turns of the user, turns refused by policy, no unloading, time to 7 | `OneOwnerPerThread`, `EveryMessageSettles`, `AcknowledgedIsConsumed` | lease and session row leave no gap for a second owner; retries and lapsed leases end in a settled status; no wake-up is lost between the wake task and a turn that is ending, and an acknowledged message is drained unless there was a crash or it is `stranded` |
| `agents_store` | 2 runs for 1 place, 2 supervisors, 2 builds, any transaction at any time | `StoreTypeOK`, `CapacityKept` | orphaned, stopping and released runs stay counted until they are over |
| `agents_core` | an app-server with tasks and a daemon with worker processes, 1 run of 2 generations, 1 question, 1 stall, 1 stop or delete, a shutdown of the app-server (1.1 million states) | `AgentsTypeOK`, `LeaseNamesOwner`, `NoInheritedQuestion`, `FailureIsOwn`, `AnsweredOnce`, `StopWins`, `ImplementsLifecycle` | a worker that lost its run and does not know it changes nothing; the whole system implements the lifecycle |
| `agents_live` | 2 daemons, 1 run of 2 generations, 1 fault (a crash with or without the workers, a busy database, a usage limit), 1 request (340 thousand states) | `PromptOnce`, `StopCompletes`, `NobodyIsForgotten` | every point at which a daemon can die is recovered from, while no more rows are kept than a pass reads; worker processes that do not stall submit the prompt once |
| `workflow_core` | 2 processes with different keys, 3 steps of which one is gated, verified and needed by another, limits of 2 branches, 1 worktree and 2 agents, goals of 2 steps, 1 fault, 1 request (2.8 million states) | `WorkflowTypeOK`, `NothingRunsWithoutConsent`, `BranchLimits`, `CancelledRunIsQuiet`, `SuccessIsVerified`, `ResultIsCurrent`, `EndedRunIsFinal` | takeovers, approvals and completed goals between any two transactions. `NothingRunsWithoutConsent` is about agents and direct dependencies; `BranchLimits` counts active branches for branches and worktrees, and agents at work for agents |
| `workflow_live` | 2 processes, 2 independent steps one at a time, 1 verifier, 1 fault, 2 requests (634 thousand states) | `CancelCompletes`, `RunSettles` | a run that has a supervisor is not left behind by a crash of another one, a lapsed lease, a lost verifier, an admission refused for a while or a pause and resume |

Two claimants are enough for take-over, since a claim does not distinguish a
third owner from a second; for the mailbox tables a client is as good a second
claimant as a dispatcher, and a dispatch that takes any time it likes as good as
a crash. Two ids per row cover a take-over, a third one a retry after it. A
lease of one or two units lapses well within the clock, so its holder acts
before, at and after its end. Two generations
of an agent are a take-over; a third would repeat it. One fault and one or two
requests in any place meet every window between two transactions once; the
properties that a second fault could break (`StopWins`, `LeaseNamesOwner`,
`AnsweredOnce`, the lifecycle, `NoInheritedQuestion`, `FailureIsOwn`) are proved
for any number of them. No symmetry is declared: ids are ordered, and the
processes differ in what they may do (crash, show the thread).

One run is expected to be violated. `agents_prompt` checks `PromptOnce` with
two app-servers whose workers are tasks: such a worker opens the thread of the row
it read before its claim, and when another worker has bound a thread, submitted
the prompt and lost the run in between, it starts a second thread and submits the
prompt again. `background-agent/ARCHITECTURE.md` says that the prompt can be
neither dropped nor duplicated. Worker processes read the row after the claim:
for them `agents_live` shows that it holds.

### Known divergences

The models take the following steps because the code does, and the properties
above are stated or instantiated so that they do not rule them out. Each is a
sequence of ordinary calls with unlucky timing that differs from what a
comment or a document says, or from what a reader would expect.

* The claim that reaps a run of a crashed process adds to the failure count,
  but only the finish path compares it with the maximum: a schedule whose
  process keeps crashing is never stopped (`schedules.rs:1036`).
* An update of the prompt alone writes back the status and run time it read
  outside of its transaction; if the one-time run completed in between, the
  schedule is active again and runs twice (`schedules.rs:298`).
  `OnceCompletesOnce` is checked without such updates.
* A resume validated before a one-time run completes leaves the schedule active
  with no run time (`thread_schedule_processor.rs:534`). `ActiveIsArmed` is
  checked without resumes.
* The limit of 50 schedules (`app-server/README.md:1183`) is counted before the
  insert and outside of its transaction, so two requests can pass it together
  (`thread_schedule_processor.rs:891`).
* When the finish of a scheduled run is given up after a database error, the
  heartbeat task of the run goes on extending the lease and no claim ever reaps
  it (`thread_schedule_runtime.rs:1174`). `EveryRunEnds` is checked without
  database errors.
* Between the extension of a schedule's lease and the submission of its turn a
  pause may cancel the run: the turn starts all the same
  (`thread_schedule_runtime.rs:898`).
* Enqueuing a mailbox message wakes nobody, but a turn that is already running
  drains it before it is acknowledged; after a crash at that point it is
  delivered and drained again (`thread_mailbox_dispatcher_runtime.rs:502`, against
  the comment at 271).
* A worker process that exits because the database stays busy leaves its run to
  the sweep, but the daemon that tracks it may prune it first and fail the run
  (`background_agent_live.rs:5199`).
* A pause overtaken by a resume leaves a running workflow with a paused plan:
  each request updates the plan in a second transaction
  (`workflow_orchestrator.rs:562`), while `app-server/README.md:167` says that the
  plan is kept in sync.
* While a thread is being unloaded it is no longer shown as live and is still
  loaded, for up to ten seconds and for good when its shutdown fails: another
  process may load it meanwhile (`thread_lifecycle.rs:545`).
  `OneOwnerPerThread` is checked and proved without unloading.
* An acknowledgement that commits and whose reply is lost on every repetition
  leaves a message acknowledged and its thread not woken, and so does a policy that
  refuses the turn (`thread_mailbox_dispatcher_runtime.rs:264`,
  `core/src/tasks/mod.rs:576`); the message waits for the next turn.
* A reconcile pass reads the 200 rows that were updated last, ended ones too, and
  nothing deletes rows: a run that waits for a worker behind 200 later rows waits
  for ever (`background_agent_live.rs:1906`, `2003`).
* A cancel request starts no supervisor (`thread_workflow_processor.rs:371`,
  `manager_tool.rs:462`), and loading a thread passes over its paused runs
  (`activation.rs:255`): a run that is paused, survives a restart and is then
  cancelled stays `cancel_requested` until its thread is loaded again.
* An admission that cannot provision a worktree, for instance because the thread
  is outside of a git repository, is rolled back and tried again for ever
  (`workflow_orchestrator.rs:707`); the run neither fails nor blocks.
* A verifier that fails for good fails the run and stops none of its other
  agents (`workflow_verifiers.rs:779`); `CancelledRunIsQuiet` is about cancelled
  runs only.

### Fairness

Fairness is used by `schedules_core`, `mailbox_live`, `agents_live` and
`workflow_live`. Schedules: weak fairness of
each polling loop (an interval timer), each task that waits for nothing, each
heartbeat timer, the end of a turn (the agent loop always emits a terminal
event), and time. Mailbox: weak fairness of each dispatcher's loop, of wake
tasks, of turns, and of time. Background agents: weak fairness of what a worker
or a daemon does next without waiting for anybody, of the steps of a reconcile pass
for a row that every pass reads (`EachLists`: no more rows are kept than
`PassLimit`), of the timeout of a question,
of the ageing of a heartbeat nobody renews, and of the sweep, which every
process runs on a timer; nothing is assumed of turns, which may never end, nor of
clients. Workflows: weak fairness of each supervisor once it has been started, since
it polls until its run is over, of the agents that have a worker or
wait for one, and of the expiry of a lease that nobody extends. Crashes, restarts,
loads of threads, database errors, requests, approvals and users' turns are never
owed: the workflow properties are about runs that some process supervises
(`Supervised`), and say nothing of one whose supervisors have all crashed and whose
thread is not loaded again. In the runs with a clock crashes stop at `LastCrash`,
early enough for a lease left behind to lapse before `MaxClock`: after the last
moment of the bounded clock nothing could be expected of anyone.

`AcknowledgedIsConsumed` has three exceptions, which the formula names: a crash, a
turn refused by policy, and an acknowledgement that commits although every
repetition reports an error, after which `dispatch_claim` returns before the wake.

`DispatchTime` and `RefreshTime` say how long a dispatch may take and how often
sessions are refreshed. `mailbox_live` and the theorem `OneOwner` assume them; the
code enforces neither, so `OneOwnerPerThread` is a statement about processes
that keep up and do not unload. `mailbox_core` lets a dispatch outlive its lease
and threads be unloaded.

## 4. Proofs

`tlapm <module>.tla` checks the eight modules that hold them. The theorems of
the three store modules hold for any sets of schedules, messages, ids, processes
and times that satisfy the named assumption of the module, and for any
callers; those of the four system modules for any instance of the whole
subsystem, with any number of processes, crashes and requests.

**Schedules.** `TypeCorrect`, `LeaseIntegrity` (`[]LeaseMatchesRun`) and
`OutcomesFinal`. The inductive invariant is `StoreInv`: the types, `LeaseAgrees`
(`LeaseMatchesRun` together with the nullness of the lease columns, without which
marking a run started would compare with a missing expiry) and `UnissuedUnused`
(an id that was not issued is on no row, without which a claim with a "fresh" id
could adopt an old run). Each transaction has a lemma that it preserves the
three parts; `OutcomesFinal` then reads off each transaction that it touches
only runs in progress.

**Schedule system.** `ScheduleSystemImplementsStore`: when `Times` is all of `Nat`,
`SystemSpec => Spec`; the tables are the same variables, and every action of the
polling loops, tasks, heartbeats, requests and crashes is one transaction of the
store or leaves the tables alone. `MemoryOK` is what this needs beside the
store's invariant: what a task, a tick or a request remembers between two
awaits is of the right kind when it is used. `SystemLeaseIntegrity` and
`SystemOutcomesFinal` follow. Four theorems are about what the callers remember:

* `HealthyRunsAreKept` (`HealthyRunIsKept`) for every interval, slack and lease
  duration with interval + slack < duration, the inequality that the constants of
  the runtime satisfy (`RuntimeAssumption`). The invariant is `HeartbeatsOnTime`:
  no beat is overdue, the lease of a run whose heartbeat is on lasts past its next
  beat, and the time a tick claims with, taken when it started, is not in the
  future.
* `HeldGoalsStop` (`HeldGoalStopsSchedule`): a schedule survives the end of a run on a
  held goal only if the transaction that ended the run looked at this goal before
  the hold. A claim that reaps looks the goal up in the row of the run, a finishing
  task in its own memory; `GoalRemembered` says that the task of a running run has
  the goal of the row, and the rows cannot change between look and commit
  because of `WriteLock`. A deferred run, which has not started a turn, leaves its
  schedule active and meets the hold at its next try.
* `ActiveStaysArmed` (`[]ActiveIsArmed`) under `NoActivation`: no request resumes a
  schedule, sets its status to active or clears its run time. Without it the
  property is false, by the resume that is validated before a one-time run ends
  (see Known divergences). Requests may pause, expire, re-time and delete, and the
  stale row that an update writes back is covered: `ArmedInv` says that what a
  request has merged and will write is itself armed or not active.
* `OnceIsOnce` (`[]OnceCompletesOnce`) under `NoReactivation`: patches only pause or
  expire. Without it an update writes back the status from before the completion
  (see Known divergences). `OnceInv` says that a completed one-time schedule is not
  active, that a task about to finish one has no next run for it, and that no
  pending edit makes a schedule active or changes its kind.

**Cadence.** `PhaseIsKept` (`[]NextIsFirstBeat`) and `FailuresStop`
(`[]StopsAtMaxFailures`), for every period, origin, limit, base and cap. The
invariant `TrainInv` counts the periods since the origin (`OnBeat`): the remainder in
the property is not preserved by a step that adds a multiple of the period, a
witness for the multiple is.

**Mailbox.** `TypeCorrect`, `ClaimIntegrity` (`[]ClaimMatchesAttempt`),
`DeadLetters` (`[]PoisonedIsDeadLetter`), `SettledFinal` and `ReceiptsFaithful`
(`[]ReceiptsTellStatus`). The inductive invariant adds to
`ClaimMatchesAttempt` that the lease of a claimed message is also its
`last_attempt_id`: the sweep ends the attempt, and names it in the dead letter,
through that column and not through the lease. A claim sweeps every message and
grants one, so the proof treats the sweep as an operation of its own and the
grant as a second one on its result.

**Mailbox system.** `DispatcherImplementsStore`: when `Times` is all of `Nat`,
`SystemSpec => Spec`, with the identity as refinement mapping since the tables
are the same variables. Every action of the dispatchers, the threads, the
clients and the environment is shown to be a transaction of the store or to
leave the tables alone. The invariant this needs, beside the store's own, is
`LoopsOK`: what a dispatcher remembers between two calls (the message, the
attempt, the retry time) is of the right kind whenever it is used, across
crashes and restarts. `SystemClaimIntegrity` and `SystemSettledFinal` carry two
of the store's theorems over to the system; the others follow in the same way.

`OneOwner` (`[]OneOwnerPerThread`) is about the directory of sessions and the
target leases together. Its hypothesis `KeepsUp` is what separates processes that
keep up from those that do not: no client loads threads by itself, no thread is
being unloaded (an unloading thread is loaded and not shown, so another process
may load it; see Known divergences), a dispatch and
the time between two refreshes are shorter than a lease, and a session row is not
stale before its next refresh. The code polls every second, leases for 60 and
calls a row stale after 30, and `mailbox_live` is an instance. The inductive
invariant is `OwnerInv`: a loaded thread
is covered at every moment, by a session row as new as the last refresh (`Shows`) or by a
target lease that outlasts the next one (`Leases`); between claim and load the
target is reserved, with a lease that outlasts the dispatch, and nobody else has it
(`Reserved`); at the release of the lease the thread is already shown; and no
dispatcher calls a row stale before it is (`InTime`). A claim that passes
the two filters of `claim_next_due_message` has therefore met neither kind of
cover, which is `ClaimIsSole`. Steps that write no session, load nothing and
delete only lapsed leases are `QuietStep`s and are dealt with once; a refresh, a
claim, a load, a release and the clock have a lemma each.

**Background agents.** `StoreTypeCorrect`, `LeaseNamesOwnerHolds`,
`StopWinsHolds`, `AnsweredOnceHolds`, `CapacityHolds` and
`StoreImplementsLifecycle`, which is a refinement: under the mapping of rows to
phases every transaction is a step of `AgentLifecycle` or a stutter. The
inductive invariant is `StoreInv`: `RowsOK` (types; an owned run has an owner and a
generation; a free run is wanted and not marked for deletion), `LeasesOK` and
`AsksOK` (types of the other tables) and `LeaseNamesOwner`. The facts about owned
and free runs are what makes the count of `count_live_or_recoverable_...`, an
expression of status, owner and intent, equal to the set of runs that are not
over; `CapacityHolds` rests on that and on facts about cardinalities. Each
transaction is first shown to have one of six effects on one run (admitted,
claimed, kept, released, finished, withdrawn); the theorems about steps and the
refinement are then read off these effects.

**Background agent system.** `AgentsImplementStore`: `Spec => StoreSpec`, with the
tables themselves as the mapping. From it `SystemLeaseNamesOwner`,
`SystemStopWins`, `SystemAnsweredOnce`, `SystemCapacity` and
`SystemImplementsLifecycle`: what `agents_core` checks with one fault holds with
any number of crashes, stalls, busy databases and deferrals, of any processes.
`AgentsTypeCorrect`, `NoInheritedQuestionHolds` and `FailureIsOwnHolds` are about
the workers. Neither of the last two is inductive, nor a consequence of the
store: a caller that set its run `running` while its question is open, or that
claimed a run it already has a worker for, would break them. The invariant
`AgentsInv` therefore says who is alive:

* `Ownership`: a living worker past its claim, whose process is the recorded
  owner, has the current generation; a daemon that is up tracks each of its living
  worker processes, by the generation it was spawned with; a daemon that has
  claimed and not yet spawned has no living worker for the run, which is why the
  process it spawns is alone.
* `AskerWaits`: while a question of a waiting run is open, the worker of its
  owner waits for that very question, is on a path that can only end, or is gone.
* `WorkInv`: the store's invariant, what the columns say of each other
  (`Columns`), and what each worker, daemon and request holds at each point.

Nearly every step is `Ordinary`: it claims nothing, spawns nothing, asks nothing,
closes questions rather than opens them, and a worker that moves keeps its
generation. That an ordinary step keeps `AgentsInv` is proved once; each of the
fifty actions is then shown to be ordinary, except the five that are not
(`ReadRun`, `ClaimRun`, `DaemonClaim`, `Spawn`, `AskUser`). `AgentsAssumption` says
of the constants only what they are (`NULL` is neither a process nor a handle).

`PromptOnceHolds` (`[]PromptOnce`) has two hypotheses, and both are needed: every
process is a daemon (`Daemons = Owners`), because in-process workers violate the
property (`agents_prompt`), and no worker stalls (`"stall" \notin Faults`), because
the prompt is submitted after the last fenced write: with the constants of
`agents_live` and a stall in place of its faults, TLC finds a worker that is taken
over between `Running` and `SubmitPrompt` and submits beside its successor.
`agents_live` is an instance of the theorem. On top of `AgentsInv`, `PromptInv` says

* `Holders`: whoever works on a run, or has claimed it for a worker, is its owner
  in the current generation, and the run cannot be taken over: its status is an
  owned or an ended one, and its heartbeat is fresh (a heartbeat grows old only
  when nobody attends the run);
* `Informed`: what a worker has read of its run is still so. Until it binds, the
  thread it has read is the one in the row; from then on its thread is the one the
  row names; and unless its scan found the prompt there is none;
* `Placed`: a prompt was submitted once, and to the thread the row names.

A step is `Steady` if it keeps owners, threads, prompts and holds and no worker
comes to know less. That steady steps keep `PromptInv` is proved once; `Bind`,
`SubmitPrompt`, `DaemonClaim` and `Spawn` have proofs of their own.

**Workflows.** `WorkflowTypeCorrect`, `ConsentHolds`
(`[]NothingRunsWithoutConsent`), `SuccessIsVerifiedHolds`
(`[]SuccessIsVerified`), `CancelledQuiet` (`[]CancelledRunIsQuiet`), `EndedFinal`
and `ResultsCurrent`, from `WorkflowAssumption` alone: any steps, dependencies,
gates, verifiers, limits and processes. `BranchLimitsHold` (`[]BranchLimits`) is the same for any limits: an
admission is the only step that adds a branch or an agent, it counts in its own
transaction, and facts about cardinalities give the bound after it. `TypeInv` is
inductive once it says that a
supervisor that executes or records a verifier remembers which one. Every action
is then shown to have an `Effect`: how it may move a step, an approval, an
agent, a verifier and the run; a property about the tables is proved from
`Effect` and not from the actions. `Consent`, the strengthening for the first
theorem, adds that an approval that was acted on can no longer be decided, that a
ready step is behind succeeded ones and that a rejected step is skipped.
`Current`, the one for `ResultsCurrent`, says that the holder of the current
generation knows the current attempt of the verifier it executes; the fence of
`record_workflow_run_verifier_result` compares owner and generation and not the
attempt, and this is why that is enough. That a run has a first pending verifier
in the order of claims uses well-founded induction from the library.

Model-checked only:

* liveness (`EveryRunEnds`, `EveryMessageSettles`, `AcknowledgedIsConsumed`,
  `StopCompletes`, `NobodyIsForgotten`, `CancelCompletes`, `RunSettles`), and with it
  fairness and `ENABLED`, which are out of the provers' reach.

## 5. Not modelled, and the plan

The components with status `not_modelled` are of two kinds. Some have a protocol
worth modelling and are planned, in this order:

1. `ThreadPendingInteractions`: the questions of interactive threads, which have a
   table and a lifecycle of their own, as those of background agents.
2. `GoalPlans`: goals and the nodes of a plan, in place of the external goal of
   `ThreadScheduleStore` and of `CompleteGoal` in `WorkflowRuns`.
3. Workflow automations: timers that start runs, and monitors linked to them.
4. The lease tables of managed worktrees, agent jobs and memory jobs.
5. The nesting of schedules, as a module of its own: parent limits and the
   triggers that keep the tree consistent.

The others are left out for good: rendering, argument parsing, JSON-RPC framing,
operating-system sandboxes and protocol clients keep no shared state that the
parts above depend on, and the log and rollout indexes are bulk SQL over data no
property here tells apart.
