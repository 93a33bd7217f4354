# Verification of the Eldridge control plane

TLA+ models of the multi-agent engineering control plane in `src/control_plane`,
TLC configurations that check them on small instances, and TLAPS proofs of what
matters most for every instance.

## The system

A *workflow* takes a change request through plan, architecture review,
implementation, test, security review and code review to a human merge decision.
Every stage is one *task*, executed by any of several worker processes that share
a PostgreSQL database. A worker leases a task (`lease_next_task`), commits the
intent to execute it (`_prepare_execution`), calls a provider and an executor
outside any transaction, and records the result (`_finalize_execution_*`). A
sweep (`reclaim_expired_tasks`) takes back expired leases. Humans create, cancel,
dispose of contained input, reconcile executions with an unknown outcome and
approve merges. Around this core stand remote agents (Windsurf, Devin), pull
requests, deployment and rollback, workload credentials, the audit chain, and an
evaluation pipeline that compares providers.

### Inventory

| part | source | model |
|---|---|---|
| state machine, vocabulary | `state_machine.py`, `domain.py` | `WorkflowStates` |
| workflow and task engine, worker loop, heartbeat | `workflow_tasks.py`, `worker.py`, `leases.py` | `WorkflowTasks` |
| task grants, result validation | `policy.py`, `validation.py` | `WorkflowTasks` (grant check and expiry; which errors end a run) |
| what a workflow promises | the above together | `WorkflowLifecycle` (abstract) |
| remote agents | `windsurf_integration.py`, `devin_integration.py`, `integrations/` | `RemoteAgents`, composed with `WorkflowTasks` |
| pull requests, readiness, merge confirmation | `git_pull_requests.py`, `github_app.py` | `PullRequests` |
| deployment, rollback, their approvals, credentials | `deployment_recovery.py`, `deployment.py`, `kubernetes_deployment.py`, `credentials.py`, approvals of `workflow_tasks.py` | `Deployment` |
| evaluation | `evaluation*.py` | `Evaluation` |
| audit chain and export, idempotency records, CI evidence | `audit.py`, `audit_export.py`, `create_workflow`, `ingest_ci_check_evidence` | `Ledger` |
| provider routing | `routing.py`, `learning.py`, `task_strategy.py` | producer exclusion only |
| the rest | API, CLI, identity, configuration, adapters, file and Git I/O, read models, media review, scripts | see "Not modelled" |

A workflow passes through the modules in this order: `WorkflowTasks` (with
`RemoteAgents` as another way to run the implementation) up to the merge decision,
`PullRequests` from `AWAITING_HUMAN_APPROVAL` to `MERGED`, `Deployment` from
`MERGED` to its end. All three take their transitions from `WorkflowStates`.
`Evaluation` runs beside a workflow and reads only its version and whether it is
active. `Ledger` is what all of them write to.

## How the code becomes a model

A database transaction that locks what it checks is one action. A command that
commits an intent, calls something outside, and records the outcome in another
transaction is several actions; what it keeps between them is in `call[c]` (or
`worker[p]`), with a `pc` for the transaction it is before. Between two of them
everything else can happen, and the process may die: `call[c]` is then idle again
and what was committed stays. A command that raises changes nothing and ends.
Only in `Ledger` are transactions open across actions, statement by statement at
READ COMMITTED, because there the code reads without a lock and relies on a unique
constraint at commit.

`Evaluation` has two transactions that are coarser than the code. `submit_evaluation_evidence`
reads the workflow row without a lock; the model reads it when the batch is recorded,
so a move of the workflow in between counts as one that came later. (That move writes no
row of the evaluation, and no property compares a batch with the workflow's version or state.)
`submit_trusted_assessment` reads runs, checks and reviews in successive statements,
`ReadEvidence` in one step; what one of these statements has read as passed stays passed
(`EvidenceIn` in `EvaluationProofs`), so the last one could have read it too.

Definitions whose comment begins with "Mutant" are deliberately wrong variants of
the definition that follows; no specification uses them. Each shows that a
property can fail: with the variant in place TLC finds it violated.

## Modules

- **`WorkflowStates`**: `WorkflowState`, `ALLOWED_TRANSITIONS` and its check, task
  kinds, the state of each kind, the producer each review reads.
- **`WorkflowTasks`**: the engine. `workflow` is the workflows table (with the
  disposition and merge approval of a row), `tasks` the tasks of each workflow in
  order of creation (with attempts, lease and the capability grant), `worker` what
  each process holds in memory. The provider call is the gap between
  `PrepareExecution` and `FinalizeExecutionSuccess`/`Failure`/`Refused`. All
  processes act as the one owner `orchestrator`, so only the lease token tells them
  apart. `PrepareRefused` and `FinalizeRefused` are the exceptions that end
  `run_forever`; the production compose file restarts the process (`restart:
  unless-stopped`). Time is one countdown per lease (`LeaseTick`) and one event per
  grant (`GrantExpires`). Text, digests and actors are left out; of an output only
  its size relative to the MiB a review accepts is kept; health, capability,
  classification, egress, evidence and invocation ceilings are a nondeterministic
  choice among the providers that are not the producer, or none. A provider is chosen
  before the output to review is looked at, so a review with too large a source is
  refused if there is a provider and blocked (`RoutingBlocked`) if there is none. All processes read
  one clock. A heartbeat thread that outlives its execution for a moment finds the
  lease cleared or lost and is refused, so `HeartbeatTask` is an action of executing
  processes only.
- **`WorkflowLifecycle`**: the abstract specification: stages in order, the
  candidate set once by the implementation, a block released only to the stage it
  interrupted, a merge decision about the candidate only. One sweep may block several
  workflows in one step (`Block(ws)`), as `reclaim_expired_tasks` does in one transaction.
- **`RemoteAgents`** EXTENDS `WorkflowTasks`: Devin's dispatch (intent, submit,
  recorded session, or release, or unknown outcome), sync and cancel, and Windsurf's
  claim, repeated claim, heartbeat and evidence, as calls over the same task table,
  beside workers, sweep and humans. `session` is what exists at the Devin service,
  whether or not an answer came back.
- **`PullRequests`**: one workflow at its merge decision, its proposals, assessments
  and confirmations by idempotency key, and GitHub: a branch others push to and pull
  requests others mark ready, merge, close or reopen.
- **`Deployment`**: environment, plan, approvals that expire and are consumed,
  attempts and rollbacks by key, the credential broker with the claims it accepts
  (skew and lifetime at their limits), and the target, a release marker that others
  write too (a request's `fresh` says that the resource version it read still holds).
  An update may be applied and yet be answered with an error, or not at all. The code takes the newest usable approval;
  the model any usable one. An attempt that ends `UNKNOWN` stays so: the code has no
  command that reconciles it.
- **`Evaluation`**: one campaign: iterations, repair plans, executions that fan out
  to runs, assessments with checks and reviews, recovery, reconciliation, batches
  reported by hand, decision and promotion. Scores, confidence and cost are a choice
  among the outcomes they allow. Candidates reported by hand may bear the name of any run
  that no trusted batch has recorded. The workflow may stop being active (`APPROVED`,
  `MERGED`) and be active again when it waits for its deployment. That a reviewer is not the producer, and the
  diversity of families for high risk, are in the choice of `Reviewers`. One human
  over-approximates many: actor names only ever restrict replays. `sent` counts the
  requests that left for a producer or reviewer.
- **`Ledger`**: `chain`, `keys` and `evidence` are tables with their unique
  constraints, `tx` open transactions with the rows they would insert, `lock` the
  workflow rows locked. A hash is the tuple of what it digests.
- **`MCWorkflowTasks`**: symmetry for TLC.
- **`WorkflowTasksProofs`**, **`AttemptHistoryProofs`**, **`LifecycleProofs`**,
  **`RemoteAgentsProofs`**, **`DeploymentProofs`**, **`PullRequestsProofs`**,
  **`EvaluationProofs`**, **`LedgerProofs`**: the theorems.

## Runs

| run | instance | checks |
|---|---|---|
| `recovery` | 1 workflow, 2 fair workers, leases of 1 tick, 1 attempt, 1 human RETRY, 2 revisions, outputs of both sizes | leases fence (`SingleExecutor`), an unknown outcome waits for a human (`UnknownOutcomeNeedsHuman`, `BlockIsReconcilable`), the state follows the live task (`LiveTaskDrivesState`, `NoTransitionRaises`), evidence is about the candidate (`EvidenceBindsCandidate`), attempts are history (`FinishedAttemptsImmutable`), work comes to an end (`WorkComesToRest`), and the whole refines `WorkflowLifecycle` (`ImplementsLifecycle`) |
| `retries` | 2 attempts per task, 2 workers, 2 providers, leases of 2 ticks | `GrantFollowsTask`; `ReviewIndependence`, although a retry is routed anew; `SingleExecutor`, with leases that heartbeats renew |
| `remote` | 1 workflow, 1 worker, 2 calls, 2 handoffs, 2 attempts, 1 human RETRY | a paid session is not started a second time blindly (`RunningSessionIsExclusive`), authority ends with the task (`GrantOnlyForLiveTask`), one result is accepted (`OneResultAccepted`), outcomes stand (`OutcomeStands`) |
| `pull_requests` | 2 calls, 2 proposal, 1 assessment and 2 confirmation keys, 2 revisions | `MergeInvariant` (approval, assessment and merge are of the candidate revision), `MergesBoundPull` (the confirming step records the pull request its proposal is bound to), `OneMergeConfirmed` |
| `deployment` | 2 calls, 2 attempt and 2 rollback keys, 4 approvals | `DeployedIsVerified`, `ContainedByOneAttempt`, `RolledBackIsRestored`, `ApprovalSpentOnce`, `WrittenOverWhatWasRead` |
| `evaluation` | 2 calls, 1 human, 1 run, 1 reviewer, 2 iterations, 2 workflow versions, 1 recovery | `PromotedWinnerIsProven`, `NeverReplayed`, `CampaignFollowsBatches`, `OutcomesStand` |
| `ledger` | 2 transactions, 2 workflows, 2 keys with 2 digests, 2 deliveries, 2 check runs, 4 events | `AuditChainVerifies`, `OneWorkflowPerKey`, `EvidenceRecordedOnce` |
| `validation_retry`, `remote_cancel`, `pr_not_found`, `pr_rebound`, `deployment_failed` | one property each | violated, see "Disagreements" |

Each passing run but `retries` also checks a type invariant. The
runs have between 64 thousand (`deployment`) and 5.7 million (`pull_requests`)
distinct states. Deadlock is checked in `ledger` only: elsewhere the system really
may stop, when everything is decided or over.

### Why the bounds are enough

Two processes suffice for a stale holder and its successor, for two commands that
read the same state, and for a command and its repetition after a crash. Two
attempts, or two keys of one command, make a retry that meets what the first one
left; two revisions make evidence about the wrong one. In `recovery` four tokens,
and in `remote` three, are more than live holders can have, so a fresh one always
exists. `remote` has one worker because two calls already contend with it; two
handoffs let a released task be dispatched again. `deployment` has four approvals:
one for each attempt and each rollback; a third key would only repeat the second.
`evaluation` has one run and one reviewer, since what is at stake there is who
writes a row when, not how many rows there are; a `PARTIAL` execution needs two runs
and is not reached. Its two iterations let a trusted decision of the first arrive in
the second. Versions are recorded only while the workflow is active and compared only for
equality, so a workflow that stops being active and comes back at a third version behaves,
for the evaluation, like one that stayed active and moved to the second; two versions
are enough for TLC, and the proofs hold for any number. `ledger`'s four events hold a creation, two checks and one more append,
on a chain that two transactions extend at once. `MaxRetries`, `MaxHandoffs`,
`MaxRecoveries`, `MaxVersion` and `MaxEvents` bound what humans or other commands
ask for, not what the code does.

### Fairness

Only `recovery` assumes fairness, which its one liveness property needs. `run_forever` polls without end: weak fairness of
leasing and of the sweep over all processes. Provider and executor calls have
timeouts: weak fairness of finalization. Time passes: weak fairness of `LeaseTick`.
Strong fairness of preparation says that not every lease is lost to a crash or to
sleep before it is used; without it a process could die after every lease, for ever.
Humans, crashes, heartbeats and grant expiry have no fairness.

`WorkComesToRest` excepts two ways a task is stranded, both in the code: its
one-hour grant ran out while it was queued, or the output it reviews exceeds the
MiB that `_prepare_execution` accepts though nothing bounded it when it was
recorded. Each worker that leases such a task raises, ends and is restarted, and
only cancellation (or, for the large output, that no provider is eligible any more)
ends this: the property does not cover these two hazards. The other components state no liveness:
nothing in the code goes on by itself there, every step is a request of a human or
a client.

### Disagreements between code and documents

- `validation_retry`: `docs/workflow.md:123` says "Validation, authorization,
  policy, and unsafe-output failures are not automatically retried.";
  `_record_attempt_failure` (`workflow_tasks.py:1449`) retries every error but a
  rejected review while attempts are left.
- `remote_cancel`: `docs/failure-recovery.md:25` says of a cancellation during
  execution "Stop new work"; `_release_undispatched` (`devin_integration.py:499`)
  checks only the lease owner, so a dispatch refused after a cancellation puts the
  cancelled task back to `READY`.
- `pr_not_found`: `docs/github-ci-integration.md:46` says that reconciliation
  "either binds the exact remote PR or records that none exists"; having found
  nothing it writes `FAILED` without reading the status again
  (`git_pull_requests.py:275`), also over a proposal bound meanwhile.
- `pr_rebound`: `docs/identity-and-merge-confirmation.md:18` asks for "a durable, confirmed
  pull-request proposal"; `_complete_pull_request` (`git_pull_requests.py:578`) writes
  its pull request over whatever the proposal holds. In the run a proposal is still being posted
  when a reconciliation binds it to the pull request of another proposal of the same branch;
  that one is assessed, merged and confirmed, and then the post opens a second pull request (GitHub
  accepts one where merging left the branch ahead of its base, as a squash does) and the
  confirmed proposal names it. What the merge rests on is the revision, which is still
  the same (`MergeInvariant`), and the binding was right when it was confirmed (`MergesBoundPull`).
- `deployment_failed`: `docs/phase-4-deployment-design.md:73` says "`FAILED` is
  valid only when the adapter can prove that no target change occurred."; any
  answer to the update but 200 is recorded as `FAILED` (`kubernetes_deployment.py:179`),
  also an error of a server that has applied it, and so is an unreadable marker after a
  confirmed change (`:379`).

Beside these, `validate_evaluation_execution` sets a prepared assessment `RUNNING`
(`evaluation_pipeline.py:927`) without checking that it is still `PREPARED`, so a recovery in between has checks run a second
time; the `evaluation` run has this race, and its properties hold in spite of it.

## Proofs

Each proof module shows its inductive invariant (`Inductive`, `Spec => []IInv`) from one lemma per action
(and per conjunct of `IInv` where an action disturbs several), and derives its other
theorems from it. The invariants were model-checked first. The assumptions are
those named in the modules: `None` is no id, no state and no row, leases and attempts are
positive, output sizes are the two named ones, `MaxEvents` is at least 2, and with remote agents there is a provider
(`ProvidersAssumption`: plan and architecture review have been done by one). Two sets are
assumed finite because the code counts them: the reviewers of a campaign
(`BoundAssumption` of `Evaluation`) and the idempotency keys of proposals
(`KeysAssumption` of `PullRequests`). Nothing else is assumed of the number of
processes, requests, keys, approvals, revisions or events.

**`WorkflowTasksProofs`**: `TypeCorrect`, `LiveTaskDrives`, `GrantsFollowTasks`,
`WorkersNeverRaise`. That the sweep may block a workflow needs to know its state
from its task, which needs to know that the task is the last and the only live one.
`IInv` therefore says of every workflow that its row and tasks are `Consistent`
(every task but the last is finished; the last one fits the state; grants fit
statuses; stages after implementation have a candidate) and of every worker that
what it holds exists (`HandleFits`). `OneWorkflow` and `AllWorkflows` reduce a step
to the workflows it writes.

**`AttemptHistoryProofs`**: `LeasesFence`, `UnknownOutcomes`, `BlocksCanBeReleased`,
`AttemptsAreHistory`, from `HistoryInductive`, `Spec => [](IInv /\ HInv)`. `IInv` says
nothing of attempts, so it cannot exclude that a process whose lease was reclaimed
ends an attempt that another one began. `HInv` adds that the attempts of a task are a
`History` (all but the last failed, and the status of the last follows from that of
the task), that no two processes hold one token (`TokensApart`), that a process
whose lease is still its own holds the last attempt (`AttemptFits`), and that a
workflow waits for a human only over an attempt nobody has decided (`HistoryFits`).
`TaskStep` states how one task may change; every action takes such steps, and the
action property follows from them.

**`LifecycleProofs`**: `LifecycleImplemented` (every step of the engine is a step of
`WorkflowLifecycle` or none, under the refinement mapping of `WorkflowTasks`),
`EvidenceIsBound`, `ReviewsAreIndependent`, from `StagesInductive`,
`Spec => [](IInv /\ HInv /\ SInv)`. `IInv` and `HInv` look at the last task and at one
task's attempts; that the candidate is set once, and that four results are about it,
depends on all tasks of a workflow. `SInv` says that they come in the order of the
stages (`InOrder`), that a stage is left by success only (`StagesDone`), that what
succeeded is about the candidate (`Evidence`), and that no review has its producer's
provider (`Apart`). The lemmas
on stages are at the end of `AttemptHistoryProofs`, those on the mapping at the end of
`WorkflowTasksProofs`.

**`RemoteAgentsProofs`**: `RemoteTypeCorrect`, `RunningSessionsAreExclusive`,
`GrantsOnlyForLiveTasks`, `OneResult`, `OutcomesStand`, from `RemoteInductive`,
`RemoteSpec => []RInv`. `IInv` of the engine alone does not hold here: a hand-off takes
the grant from a live task, and a released dispatch queues the task of a cancelled
workflow again. `RInv` says instead how the attempts of an implementation look in each
status of its task and who may hold it (`AttemptsFit`, `LeaseFits`, `GrantHeld`), what the
last task says of the state and the candidate (`Drives`, `ResultFits`), what a call
between two of its transactions relies on (`CallFits`), that a dispatch in
progress has one call (`OneDispatch`), and that a session runs only for an open last
attempt (`SessionFits`) while every recorded session exists (`Known`). Every action is
shown to keep `RInv` and to leave attempts that ended as they are (`Kept`), which gives the
action property. `Undisturbed` states when a write to a task leaves all this to the
others.

**`DeploymentProofs`**: `TypeCorrect`, `DeployedVerified`, `Contained`,
`RolledBack`, `SpentOnce`, `WrittenOverRead`. The properties speak of recorded
attempts; whether a record is right depends on what a request in flight holds.
`CallFits` says what each program counter has established (the record exists, the
snapshot is restorable, a fresh read still is the target); `ApprovalsFit`,
`AttemptsFit` and `RollbacksFit` relate the records to each other and to the state.

**`PullRequestsProofs`**: `MergeHolds`, `MergeBindsPull`, `ConfirmedOnce`, `TypeCorrect`.
`MergeInvariant` looks through three tables, and the action property `MergesBoundPull` says
that they fit together at the one step that makes a workflow `MERGED`; afterwards the proposal may be
bound anew. `IInv` says that what a confirmation rests on is complete
before it starts and never changes again (`Assessing`, `Confirming`), that records
and pull requests exist (`Numbered`, `Proposing`), and that a request about to
record a merge has read one (`Merged`). `TypeCorrect` bounds the numbers of pull requests
by the number of proposal keys: a key has one request that posts for it
(`OnePoster`), so no more pull requests were opened than keys were spent
(`Len(pulls) <= Cardinality(Spent)` in `PInv`).

**`EvaluationProofs`**: `TypeCorrect`, `WinnerIsProven`, `SentOnce`, `CampaignHistory`,
`OutcomesNeverChange`. Promotion reads neither checks nor reviews, and a command sends
requests on the strength of a status it read in an earlier transaction. `IInv` says
how far the status of an execution or an assessment says its runs, checks and
reviews are (`ExecutionFits`, `AssessmentFits`), what each program counter has
established and no other command can undo (`CallFits`), that one command starts an
execution and one validates it (`Alone`), and that a trusted batch rests on evidence
its assessment still has (`BatchFits`). What every step keeps of outcomes, shown with
the same lemmas, gives the action property.

**`LedgerProofs`**: `ChainVerifies`, `KeyMakesOneWorkflow`, `CheckRecordedOnce`,
`TypeCorrect` (by `LInv`, on the rows of tables and open transactions). That
a chain verifies is restated without order: rows `Linked` have the sequences 1 to n,
each once, and each row carries the hash of the one before (`LinkedVerifies` leads
back to the sorted walk of the code). The rows of an open transaction continue the
chain it read (`Fits`), which the committed chain may have left behind; the unique
constraint then refuses the commit, or the rows continue the present chain
(`CommitContinues`). The number of events equals the number of check records because
a transaction inserts both or neither (`EvidenceFits`).

Only model-checked: liveness (`WorkComesToRest`), which is out of the prover's reach.
Every invariant and action property that the passing runs check, and the refinement of
`WorkflowLifecycle`, is proved.

## Not modelled

- **Routing scores, learning, task strategy; evaluation scores**: arithmetic over
  floats, Decimals and observation tables that chooses among eligible providers or
  runs. The models take any choice; which one is taken no property depends on.
- **Lock order**: a cycle that the database breaks by aborting a transaction
  (executions and workflows are locked in both orders in the evaluation) is, for the
  command, the death the models have at every step.
- **Signing, secrets, identity, token revocation**: functions of one input, or calls
  to external services without shared state.
- **API, CLI, MCP server, runtime, configuration, read models, operator scripts**:
  transport, presentation and delegation.
- **Provider and executor adapters, Docker, Git worktrees, media review, webhook
  parsing**: I/O. What they answer, fail with or leave unanswered is a choice in the
  modules that call them.
