---------------------------- MODULE WorkflowTasks ----------------------------
(***************************************************************************)
(* The core of the control plane: WorkflowTaskService (workflow_tasks.py)  *)
(* and the worker loop that drives it (worker.py, leases.py).              *)
(*                                                                         *)
(* Every database transaction is one action: each of them takes row locks  *)
(* (FOR UPDATE) on what it checks before it writes, so its effect is that  *)
(* of its commit point.  Provider and executor calls run between two       *)
(* transactions and are the gap between PrepareExecution and one of the    *)
(* Finalize actions: anything may happen to the rows in that gap.          *)
(*                                                                         *)
(* All worker processes act as the one principal "orchestrator"            *)
(* (worker.py), so the lease owner never tells two of them apart; only the *)
(* lease token does.                                                       *)
(***************************************************************************)
EXTENDS WorkflowStates, Integers, Sequences, FiniteSets

CONSTANTS
  Workflows,      \* ids a workflow can get
  Workers,        \* worker processes
  Tokens,         \* values uuid4() returns for a lease token
  Providers,      \* provider ids of the configured bindings
  Revisions,      \* candidate revisions an implementation can return
  OutputSizes,    \* sizes of a provider's output: "FITS", "OVERSIZED" (over the MiB a review takes)
  ErrorCodes,     \* exception classes, other than a rejected review, a run ends with
  LeaseTicks,     \* length of a lease, in clock ticks (lease_seconds)
  MaxAttempts,    \* Task.max_attempts
  MaxRetries,     \* bound: human RETRY decisions of reconcile_execution per workflow
  None            \* SQL NULL

ASSUME NoneAssumption ==
  /\ None \notin Workflows /\ None \notin Tokens /\ None \notin Providers
  /\ None \notin Revisions /\ None \notin ErrorCodes /\ None \notin WorkflowState
ASSUME SizeAssumption == OutputSizes \subseteq {"FITS", "OVERSIZED"}
ASSUME LeaseAssumption == LeaseTicks \in Nat \ {0}
ASSUME BoundAssumption == MaxAttempts \in Nat \ {0} /\ MaxRetries \in Nat

VARIABLES
  workflow,       \* the workflows table: id |-> row, None before it is created
  tasks,          \* the tasks table: workflow id |-> its tasks by position
  worker          \* what each worker process holds in memory

vars == <<workflow, tasks, worker>>
-----------------------------------------------------------------------------
(* TaskStatus: the values tasks and attempts take *)
TaskStatus ==
  {"READY", "LEASED", "RUNNING", "SUCCEEDED", "FAILED", "BLOCKED", "RECONCILED", "CANCELLED"}

BlockReason ==
  {"NULL", "INPUT_DISPOSITION_REQUIRED", "INPUT_REJECTED", "EXECUTION_RECONCILIATION_REQUIRED",
   "EXECUTION_RECONCILED_FAILED", "NO_ELIGIBLE_PROVIDER"}

(* Providers of attempts that no routing record selected, the principals that *)
(* hold their leases, and the hand-off such an attempt carries as its output  *)
(* until it has a result (devin_integration.py, windsurf_integration.py)      *)
RemoteProvider == {"devin", "windsurf"}

RemotePrincipal == {"devin-remote", "windsurf-cascade"}

HandoffState == {"CLAIMED", "DISPATCHING", "NOT_DISPATCHED", "DISPATCH_OUTCOME_UNKNOWN", "SESSION"}

(* A workflows row, with its WorkflowDisposition and its merge Approval *)
WorkflowRow ==
  [state                : WorkflowState,
   version              : Nat,
   block_reason         : BlockReason,
   containment_required : BOOLEAN,
   candidate_revision   : Revisions \cup {None},
   disposition          : {"NULL", "RESUME", "REJECT"},
   merge_approval       : {None} \cup [decision : {"APPROVED", "REJECTED"}, revision : Revisions]]

ASSUME RowAssumption ==
  None \notin WorkflowRow /\ None \notin [decision : {"APPROVED", "REJECTED"}, revision : Revisions]

(* A task_attempts row (of its output only the size), with the revision of   *)
(* the Artifact recorded with it, the candidate revision its provider        *)
(* request was built from and the decision of its ExecutionReconciliation    *)
Attempt ==
  [status         : {"RUNNING", "SUCCEEDED", "FAILED", "TIMED_OUT"},
   error_code     : ErrorCodes \cup {"ReviewRejected", "LeaseExpired", "RoutingBlocked", None},
   provider       : Providers \cup RemoteProvider \cup {None},
   examined       : Revisions \cup {None},
   artifact       : Revisions \cup {None},
   output         : {"NULL", "FITS", "OVERSIZED"} \cup HandoffState,
   reconciliation : {"NULL", "RETRY", "FAIL"}]

(* A tasks row with its attempts and the capability grant of its agent.      *)
(* lease_left is what remains of the lease: 0 once lease_expires_at is past. *)
Task ==
  [kind        : TaskKind,
   status      : TaskStatus,
   lease_owner : {"orchestrator", "NULL"} \cup RemotePrincipal,
   lease_token : Tokens \cup {None},
   lease_left  : 0 .. LeaseTicks,
   grant       : {"ACTIVE", "EXPIRED", "INACTIVE"},
   attempts    : Seq(Attempt)]

(* A worker process between two calls of run_once, holding a fresh lease, or  *)
(* inside execute_leased_task with a PreparedExecution                        *)
WorkerState ==
  [pc      : {"idle", "leased", "executing"},
   wf      : Workflows \cup {None},
   pos     : Nat,
   token   : Tokens \cup {None},
   attempt : Nat]

Idle == [pc |-> "idle", wf |-> None, pos |-> 0, token |-> None, attempt |-> 0]

Created(w) == workflow[w] # None

Positions(w) == 1 .. Len(tasks[w])

(* The row of the task worker p holds *)
HeldTask(p) == tasks[worker[p].wf][worker[p].pos]
-----------------------------------------------------------------------------
(* The helpers of WorkflowTaskService, on one row at a time *)

(* _transition; its assert_transition_allowed is TransitionAllowed *)
Transition(row, target) == [row EXCEPT !.state = target, !.version = @ + 1]

(* _schedule_task: a READY task with a fresh grant for the agent of its kind *)
NewTask(kind) ==
  [kind |-> kind, status |-> "READY", lease_owner |-> "NULL", lease_token |-> None,
   lease_left |-> 0, grant |-> "ACTIVE", attempts |-> <<>>]

(* lease_owner = lease_token = lease_expires_at = None *)
ClearLease(task) ==
  [task EXCEPT !.lease_owner = "NULL", !.lease_token = None, !.lease_left = 0]

(* _deactivate_task_grant *)
DeactivateGrant(task) == [task EXCEPT !.grant = "INACTIVE"]

(* Mutant: the lease check compares owners but not tokens *)
HoldsLeaseByOwner(task, status, token) ==
  task.status = status /\ task.lease_owner = "orchestrator" /\ task.lease_left > 0

(* _validate_lease and _validate_running_lease for a caller holding token *)
HoldsLease(task, status, token) ==
  /\ task.status = status
  /\ task.lease_owner = "orchestrator"
  /\ task.lease_token = token
  /\ task.lease_left > 0

(* _advance_after_task: the state a task of each kind leads to and the task  *)
(* that is scheduled with it                                                 *)
NextState ==
  [kind \in TaskKind |->
    CASE kind = "PLAN"                -> "ARCHITECTURE_REVIEW"
      [] kind = "ARCHITECTURE_REVIEW" -> "IMPLEMENTING"
      [] kind = "IMPLEMENT"           -> "TESTING"
      [] kind = "TEST"                -> "SECURITY_REVIEW"
      [] kind = "SECURITY_REVIEW"     -> "CODE_REVIEW"
      [] kind = "CODE_REVIEW"         -> "AWAITING_HUMAN_APPROVAL"]

FollowingTasks(kind) ==
  CASE kind = "PLAN"                -> <<NewTask("ARCHITECTURE_REVIEW")>>
    [] kind = "ARCHITECTURE_REVIEW" -> <<NewTask("IMPLEMENT")>>
    [] kind = "IMPLEMENT"           -> <<NewTask("TEST")>>
    [] kind = "TEST"                -> <<NewTask("SECURITY_REVIEW")>>
    [] kind = "SECURITY_REVIEW"     -> <<NewTask("CODE_REVIEW")>>
    [] kind = "CODE_REVIEW"         -> <<>>

(* An architecture review passes through APPROVED_FOR_IMPLEMENTATION in the  *)
(* same transaction.                                                         *)
AdvanceRow(row, kind) ==
  IF kind = "ARCHITECTURE_REVIEW"
  THEN Transition(Transition(row, "APPROVED_FOR_IMPLEMENTATION"), NextState[kind])
  ELSE Transition(row, NextState[kind])

(* Neither assert_transition_allowed nor _require_candidate_revision raises *)
AdvanceAllowed(row, kind) ==
  /\ IF kind = "ARCHITECTURE_REVIEW"
     THEN /\ TransitionAllowed(row.state, "APPROVED_FOR_IMPLEMENTATION")
          /\ TransitionAllowed("APPROVED_FOR_IMPLEMENTATION", NextState[kind])
     ELSE TransitionAllowed(row.state, NextState[kind])
  /\ kind \in {"TEST", "SECURITY_REVIEW", "CODE_REVIEW"} => row.candidate_revision # None

(* The attempts of tasks of a kind, as <<position, attempt number>> *)
AttemptsOf(w, kind) ==
  UNION {{i} \X DOMAIN tasks[w][i].attempts : i \in {j \in Positions(w) : tasks[w][j].kind = kind}}

AttemptAt(w, a) == tasks[w][a[1]].attempts[a[2]]

(* Mutant: the oldest routing record instead of the newest *)
OldestProducerProvider(w, kind) ==
  LET routed == {a \in AttemptsOf(w, REVIEW_PRODUCER_KIND[kind]) : AttemptAt(w, a).provider \in Providers}
      oldest == CHOOSE a \in routed :
                  \A b \in routed : a[1] < b[1] \/ (b[1] = a[1] /\ a[2] <= b[2])
  IN IF routed = {} THEN None ELSE AttemptAt(w, oldest).provider

(* The producer_route of _route_attempt: the provider selected by the newest *)
(* routing record of a task of the producing kind                            *)
ProducerProvider(w, kind) ==
  LET routed == {a \in AttemptsOf(w, REVIEW_PRODUCER_KIND[kind]) : AttemptAt(w, a).provider \in Providers}
      newest == CHOOSE a \in routed :
                  \A b \in routed : b[1] < a[1] \/ (b[1] = a[1] /\ b[2] <= a[2])
  IN IF routed = {} THEN None ELSE AttemptAt(w, newest).provider

(* The providers CapabilityRouter.route may select: a reviewer is never the  *)
(* producer.  Health, capability, data classification, egress, evidence and  *)
(* invocation ceilings may rule out any provider and change between calls.   *)
Eligible(w, kind) ==
  IF kind \in ReviewKind THEN Providers \ {ProducerProvider(w, kind)} ELSE Providers

(* The producer_attempt of _prepare_execution, the newest that succeeded,    *)
(* exists and its output does not exceed one MiB                             *)
ReviewSourceAvailable(w, kind) ==
  kind \in ReviewKind =>
    LET succeeded == {a \in AttemptsOf(w, REVIEW_PRODUCER_KIND[kind]) : AttemptAt(w, a).status = "SUCCEEDED"}
    IN \E a \in succeeded : /\ \A b \in succeeded : b[1] < a[1] \/ (b[1] = a[1] /\ b[2] <= a[2])
                           /\ AttemptAt(w, a).output # "OVERSIZED"

(* uuid4(): a token nobody holds *)
TokensInUse ==
  {worker[p].token : p \in Workers}
    \cup UNION {{tasks[w][i].lease_token : i \in Positions(w)} : w \in Workflows}

FreshToken == CHOOSE token \in Tokens : token \notin TokensInUse

(* Writing one row of the tasks of w *)
PutTask(w, i, task) == [tasks[w] EXCEPT ![i] = task]
-----------------------------------------------------------------------------
Init ==
  /\ workflow = [w \in Workflows |-> None]
  /\ tasks = [w \in Workflows |-> <<>>]
  /\ worker = [p \in Workers |-> Idle]

(* create_workflow, for a request whose idempotency key is new.  Suspicious *)
(* input (requires_human_disposition) is contained before any task exists.  *)
CreateWorkflow(w, suspicious) ==
  LET row == [state |-> "CREATED", version |-> 1,
              block_reason |-> IF suspicious THEN "INPUT_DISPOSITION_REQUIRED" ELSE "NULL",
              containment_required |-> suspicious, candidate_revision |-> None,
              disposition |-> "NULL", merge_approval |-> None]
  IN /\ ~Created(w)
     /\ workflow' = [workflow EXCEPT ![w] =
                       Transition(row, IF suspicious THEN "BLOCKED" ELSE "PLANNING")]
     /\ tasks' = [tasks EXCEPT ![w] = IF suspicious THEN <<>> ELSE <<NewTask("PLAN")>>]
     /\ UNCHANGED worker

(* lease_next_task.  The query asks for the oldest READY task, but SKIP      *)
(* LOCKED passes over any row another transaction has locked.                *)
LeaseNextTask(p, w, i) ==
  LET task == tasks[w][i]
  IN /\ worker[p].pc = "idle"
     /\ task.status = "READY"
     /\ Tokens \ TokensInUse # {}
     /\ tasks' = [tasks EXCEPT ![w] = PutTask(w, i,
                    [task EXCEPT !.status = "LEASED", !.lease_owner = "orchestrator",
                                 !.lease_token = FreshToken, !.lease_left = LeaseTicks])]
     /\ worker' = [worker EXCEPT ![p] =
                     [pc |-> "leased", wf |-> w, pos |-> i, token |-> FreshToken, attempt |-> 0]]
     /\ UNCHANGED workflow

(* The checks of _prepare_execution that raise before it selects a provider: *)
(* _validate_lease, and authorize on the agent's task grant                  *)
PrepareAllowed(p) ==
  LET task == HeldTask(p)
  IN /\ HoldsLease(task, "LEASED", worker[p].token)
     /\ task.grant = "ACTIVE"

(* _prepare_execution with a provider selected: the task is RUNNING with a   *)
(* new RUNNING attempt, and its lease is renewed                             *)
PrepareExecution(p, provider) ==
  LET w == worker[p].wf
      i == worker[p].pos
      task == HeldTask(p)
      attempt == [status |-> "RUNNING", error_code |-> None, provider |-> provider,
                  examined |-> workflow[w].candidate_revision, artifact |-> None,
                  output |-> "NULL", reconciliation |-> "NULL"]
  IN /\ worker[p].pc = "leased"
     /\ PrepareAllowed(p)
     /\ provider \in Eligible(w, task.kind)
     /\ ReviewSourceAvailable(w, task.kind)
     /\ tasks' = [tasks EXCEPT ![w] = PutTask(w, i,
                    [task EXCEPT !.status = "RUNNING", !.lease_left = LeaseTicks,
                                 !.attempts = Append(@, attempt)])]
     /\ worker' = [worker EXCEPT ![p].pc = "executing", ![p].attempt = Len(task.attempts) + 1]
     /\ UNCHANGED workflow

(* Mutant: the routing block leaves the agent's grant active *)
RoutingBlockedKeepsGrant(p) ==
  LET w == worker[p].wf
      attempt == [status |-> "FAILED", error_code |-> "RoutingBlocked", provider |-> None,
                  examined |-> None, artifact |-> None, output |-> "NULL", reconciliation |-> "NULL"]
  IN /\ worker[p].pc = "leased"
     /\ PrepareAllowed(p)
     /\ tasks' = [tasks EXCEPT ![w] = PutTask(w, worker[p].pos,
                    ClearLease([HeldTask(p) EXCEPT !.status = "BLOCKED", !.attempts = Append(@, attempt)]))]
     /\ workflow' = [workflow EXCEPT ![w] =
                       Transition([@ EXCEPT !.block_reason = "NO_ELIGIBLE_PROVIDER"], "BLOCKED")]
     /\ worker' = [worker EXCEPT ![p] = Idle]

(* _prepare_execution with no eligible provider: _record_routing_block,      *)
(* before the output to review is looked at                                  *)
RoutingBlocked(p) ==
  LET w == worker[p].wf
      i == worker[p].pos
      task == HeldTask(p)
      attempt == [status |-> "FAILED", error_code |-> "RoutingBlocked", provider |-> None,
                  examined |-> None, artifact |-> None, output |-> "NULL", reconciliation |-> "NULL"]
      blocked == [task EXCEPT !.status = "BLOCKED", !.attempts = Append(@, attempt)]
  IN /\ worker[p].pc = "leased"
     /\ PrepareAllowed(p)
     /\ TransitionAllowed(workflow[w].state, "BLOCKED")
     /\ tasks' = [tasks EXCEPT ![w] = PutTask(w, i, DeactivateGrant(ClearLease(blocked)))]
     /\ workflow' = [workflow EXCEPT ![w] =
                       Transition([@ EXCEPT !.block_reason = "NO_ELIGIBLE_PROVIDER"], "BLOCKED")]
     /\ worker' = [worker EXCEPT ![p] = Idle]

(* _prepare_execution raises, for want of lease or grant or, with a provider *)
(* selected, because the producer's output is missing or too large: its      *)
(* transaction is rolled back, the exception ends run_forever and the        *)
(* supervisor restarts the process                                           *)
PrepareRefused(p) ==
  /\ worker[p].pc = "leased"
  /\ \/ ~PrepareAllowed(p)
     \/ /\ Eligible(worker[p].wf, HeldTask(p).kind) # {}
        /\ ~ReviewSourceAvailable(worker[p].wf, HeldTask(p).kind)
  /\ worker' = [worker EXCEPT ![p] = Idle]
  /\ UNCHANGED <<workflow, tasks>>

(* heartbeat_task, called by the LeaseHeartbeat thread while the provider or *)
(* executor works; a refused heartbeat changes nothing                       *)
HeartbeatTask(p) ==
  /\ worker[p].pc = "executing"
  /\ HoldsLease(HeldTask(p), "RUNNING", worker[p].token)
  /\ tasks' = [tasks EXCEPT ![worker[p].wf] =
                 PutTask(worker[p].wf, worker[p].pos, [HeldTask(p) EXCEPT !.lease_left = LeaseTicks])]
  /\ UNCHANGED <<workflow, worker>>

(* The checks with which both finalizations begin *)
RunStillLeased(p) ==
  /\ HoldsLease(HeldTask(p), "RUNNING", worker[p].token)
  /\ HeldTask(p).attempts[worker[p].attempt].status = "RUNNING"

(* Mutant: every result, not only an implementation's, sets the candidate *)
FinalizeAnyKindSetsCandidate(p, revision, size) ==
  LET w == worker[p].wf
      task == HeldTask(p)
      row == [workflow[w] EXCEPT !.candidate_revision = revision]
      done == [task EXCEPT !.status = "SUCCEEDED",
                           !.attempts[worker[p].attempt] =
                             [@ EXCEPT !.status = "SUCCEEDED", !.artifact = revision, !.output = size]]
  IN /\ worker[p].pc = "executing"
     /\ RunStillLeased(p)
     /\ AdvanceAllowed(row, task.kind)
     /\ workflow' = [workflow EXCEPT ![w] = AdvanceRow(row, task.kind)]
     /\ tasks' = [tasks EXCEPT ![w] = PutTask(w, worker[p].pos, DeactivateGrant(ClearLease(done)))
                                        \o FollowingTasks(task.kind)]
     /\ worker' = [worker EXCEPT ![p] = Idle]

(* _finalize_execution_success with _advance_after_task.  An implementation  *)
(* sets the candidate revision; the artifact is labelled with the candidate  *)
(* revision the workflow has at this moment.  No check bounds the size of an *)
(* output here; only that of a plan or an implementation is ever read again. *)
FinalizeExecutionSuccess(p, revision, size) ==
  LET w == worker[p].wf
      i == worker[p].pos
      task == HeldTask(p)
      row == IF task.kind = "IMPLEMENT"
             THEN [workflow[w] EXCEPT !.candidate_revision = revision]
             ELSE workflow[w]
      done == [task EXCEPT !.status = "SUCCEEDED",
                           !.attempts[worker[p].attempt] =
                             [@ EXCEPT !.status = "SUCCEEDED", !.artifact = row.candidate_revision, !.output = size]]
  IN /\ worker[p].pc = "executing"
     /\ RunStillLeased(p)
     /\ size = "OVERSIZED" => task.kind \in {"PLAN", "IMPLEMENT"}
     /\ AdvanceAllowed(row, task.kind)
     /\ workflow' = [workflow EXCEPT ![w] = AdvanceRow(row, task.kind)]
     /\ tasks' = [tasks EXCEPT ![w] = PutTask(w, i, DeactivateGrant(ClearLease(done)))
                                        \o FollowingTasks(task.kind)]
     /\ worker' = [worker EXCEPT ![p] = Idle]

(* _finalize_execution_failure with _record_attempt_failure: a rejected      *)
(* review fails the workflow at once, anything else is retried while the     *)
(* attempt number is below max_attempts                                      *)
Retrying(attempt, error) == error # "ReviewRejected" /\ attempt < MaxAttempts

FinalizeExecutionFailure(p, error) ==
  LET w == worker[p].wf
      i == worker[p].pos
      task == HeldTask(p)
      failed == ClearLease([task EXCEPT !.attempts[worker[p].attempt].status = "FAILED",
                                        !.attempts[worker[p].attempt].error_code = error])
  IN /\ worker[p].pc = "executing"
     /\ RunStillLeased(p)
     /\ error = "ReviewRejected" => task.kind \in {"TEST", "SECURITY_REVIEW", "CODE_REVIEW"}
     /\ \/ /\ Retrying(worker[p].attempt, error)
           /\ tasks' = [tasks EXCEPT ![w] = PutTask(w, i, [failed EXCEPT !.status = "READY"])]
           /\ UNCHANGED workflow
        \/ /\ ~Retrying(worker[p].attempt, error)
           /\ TransitionAllowed(workflow[w].state, "FAILED")
           /\ tasks' = [tasks EXCEPT ![w] =
                          PutTask(w, i, DeactivateGrant([failed EXCEPT !.status = "FAILED"]))]
           /\ workflow' = [workflow EXCEPT ![w] = Transition(@, "FAILED")]
     /\ worker' = [worker EXCEPT ![p] = Idle]

(* A late result: the lease checks raise, and the process restarts *)
FinalizeRefused(p) ==
  /\ worker[p].pc = "executing"
  /\ ~RunStillLeased(p)
  /\ worker' = [worker EXCEPT ![p] = Idle]
  /\ UNCHANGED <<workflow, tasks>>

(* A worker process dies and is restarted: it forgets what it held *)
Crash(p) ==
  /\ worker[p].pc # "idle"
  /\ worker' = [worker EXCEPT ![p] = Idle]
  /\ UNCHANGED <<workflow, tasks>>

(* Mutant: the sweep only looks for LEASED tasks *)
ExpiredLeasedOnly(task) == task.status = "LEASED" /\ task.lease_left = 0

(* lease_expires_at < now *)
Expired(task) == task.status \in {"LEASED", "RUNNING"} /\ task.lease_left = 0

ExpiredTasks ==
  UNION {{w} \X {i \in Positions(w) : Expired(tasks[w][i])} : w \in Workflows}

(* Mutant: attempt and task are given the same status *)
ReclaimTaskOneStatus(task) ==
  IF task.status = "LEASED"
  THEN ClearLease([task EXCEPT !.status = "READY"])
  ELSE DeactivateGrant(ClearLease([task EXCEPT !.status = "BLOCKED",
                                               !.attempts[Len(task.attempts)].status = "BLOCKED"]))

(* Mutant: a running task is queued again like a leased one *)
ReclaimTaskBlindRetry(task) ==
  LET timed_out == [task EXCEPT !.attempts[Len(task.attempts)].status = "TIMED_OUT",
                                !.attempts[Len(task.attempts)].error_code = "LeaseExpired"]
  IN ClearLease([IF task.status = "LEASED" THEN task ELSE timed_out EXCEPT !.status = "READY"])

(* Mutant: the attempt times out without its error code *)
ReclaimTaskNoErrorCode(task) ==
  IF task.status = "LEASED"
  THEN ClearLease([task EXCEPT !.status = "READY"])
  ELSE DeactivateGrant(ClearLease([task EXCEPT !.status = "BLOCKED",
                                               !.attempts[Len(task.attempts)].status = "TIMED_OUT"]))

(* reclaim_expired_tasks on one task.  A lease that never started running    *)
(* goes back to READY; a running one has an unknown outcome, so its newest   *)
(* running attempt times out and the task is blocked for a human.            *)
ReclaimTask(task) ==
  LET running == {n \in DOMAIN task.attempts : task.attempts[n].status = "RUNNING"}
      newest == CHOOSE n \in running : \A m \in running : m <= n
      timed_out == IF running = {} THEN task ELSE
                     [task EXCEPT !.attempts[newest].status = "TIMED_OUT",
                                  !.attempts[newest].error_code = "LeaseExpired"]
  IN IF task.status = "LEASED"
     THEN ClearLease([task EXCEPT !.status = "READY"])
     ELSE DeactivateGrant(ClearLease([timed_out EXCEPT !.status = "BLOCKED"]))

(* The workflows whose running task is among the swept ones are blocked *)
BlockForReconciliation(row) ==
  Transition([row EXCEPT !.block_reason = "EXECUTION_RECONCILIATION_REQUIRED"], "BLOCKED")

(* reclaim_expired_tasks: one transaction over every expired task that       *)
(* SKIP LOCKED does not pass over.  It commits only if each of the           *)
(* transitions to BLOCKED is allowed, one workflow after the other.          *)
ReclaimExpiredTasks(p, swept) ==
  LET running(w) == {i \in Positions(w) : <<w, i>> \in swept /\ tasks[w][i].status = "RUNNING"}
  IN /\ worker[p].pc = "idle"
     /\ swept # {}
     /\ \A w \in Workflows : running(w) # {} =>
          /\ TransitionAllowed(workflow[w].state, "BLOCKED")
          /\ \A i, j \in running(w) : i = j
     /\ tasks' = [w \in Workflows |-> [i \in Positions(w) |->
                    IF <<w, i>> \in swept THEN ReclaimTask(tasks[w][i]) ELSE tasks[w][i]]]
     /\ workflow' = [w \in Workflows |->
                       IF running(w) # {} THEN BlockForReconciliation(workflow[w]) ELSE workflow[w]]
     /\ UNCHANGED worker

(* Time passes for one lease *)
LeaseTick(w, i) ==
  /\ tasks[w][i].status \in {"LEASED", "RUNNING"}
  /\ tasks[w][i].lease_left > 0
  /\ tasks' = [tasks EXCEPT ![w] = PutTask(w, i, [tasks[w][i] EXCEPT !.lease_left = @ - 1])]
  /\ UNCHANGED <<workflow, worker>>

(* The hour a task grant is given for has passed *)
GrantExpires(w, i) ==
  /\ tasks[w][i].grant = "ACTIVE"
  /\ tasks' = [tasks EXCEPT ![w] = PutTask(w, i, [tasks[w][i] EXCEPT !.grant = "EXPIRED"])]
  /\ UNCHANGED <<workflow, worker>>
-----------------------------------------------------------------------------
(* The commands of authenticated humans *)

(* disposition_workflow *)
DispositionWorkflow(w, decision) ==
  /\ Created(w)
  /\ workflow[w].state = "BLOCKED"
  /\ workflow[w].block_reason = "INPUT_DISPOSITION_REQUIRED"
  /\ workflow[w].disposition = "NULL"
  /\ \/ /\ decision = "REJECT"
        /\ workflow' = [workflow EXCEPT ![w] =
             Transition([@ EXCEPT !.disposition = decision, !.block_reason = "INPUT_REJECTED"], "REJECTED")]
        /\ UNCHANGED tasks
     \/ /\ decision = "RESUME"
        /\ workflow' = [workflow EXCEPT ![w] =
             Transition([@ EXCEPT !.disposition = decision, !.block_reason = "NULL",
                                  !.containment_required = TRUE], "PLANNING")]
        /\ tasks' = [tasks EXCEPT ![w] = Append(@, NewTask("PLAN"))]
  /\ UNCHANGED worker

(* The attempt reconcile_execution decides about: the newest one that timed  *)
(* out with its lease; 0 if there is none                                    *)
AbandonedAttempt(task) ==
  LET abandoned == {n \in DOMAIN task.attempts :
                      /\ task.attempts[n].status = "TIMED_OUT"
                      /\ task.attempts[n].error_code = "LeaseExpired"}
  IN IF abandoned = {} THEN 0 ELSE CHOOSE n \in abandoned : \A m \in abandoned : m <= n

Reconcilable(w, i) ==
  LET n == AbandonedAttempt(tasks[w][i])
  IN /\ tasks[w][i].status = "BLOCKED"
     /\ n # 0
     /\ tasks[w][i].attempts[n].reconciliation = "NULL"

RetriesOf(w) == {i \in Positions(w) : \E n \in DOMAIN tasks[w][i].attempts :
                                        tasks[w][i].attempts[n].reconciliation = "RETRY"}

(* Mutant: RETRY reopens the abandoned attempt instead of scheduling a task *)
ReconcileReopens(w, i, decision) ==
  /\ Created(w)
  /\ workflow[w].state = "BLOCKED"
  /\ workflow[w].block_reason = "EXECUTION_RECONCILIATION_REQUIRED"
  /\ Reconcilable(w, i)
  /\ decision = "RETRY"
  /\ workflow' = [workflow EXCEPT ![w] =
       Transition([@ EXCEPT !.block_reason = "NULL"], TASK_WORKFLOW_STATE[tasks[w][i].kind])]
  /\ tasks' = [tasks EXCEPT ![w] = PutTask(w, i,
       [tasks[w][i] EXCEPT !.status = "READY", !.grant = "ACTIVE",
                           !.attempts[AbandonedAttempt(tasks[w][i])].status = "RUNNING"])]
  /\ UNCHANGED worker

(* reconcile_execution *)
ReconcileExecution(w, i, decision) ==
  LET task == tasks[w][i]
      closed == PutTask(w, i, [task EXCEPT !.status = "RECONCILED",
                                           !.attempts[AbandonedAttempt(task)].reconciliation = decision])
      resume_state == TASK_WORKFLOW_STATE[task.kind]
  IN /\ Created(w)
     /\ workflow[w].state = "BLOCKED"
     /\ workflow[w].block_reason = "EXECUTION_RECONCILIATION_REQUIRED"
     /\ Reconcilable(w, i)
     /\ \/ /\ decision = "RETRY"
           /\ Cardinality(RetriesOf(w)) < MaxRetries
           /\ TransitionAllowed("BLOCKED", resume_state)
           /\ workflow' = [workflow EXCEPT ![w] =
                             Transition([@ EXCEPT !.block_reason = "NULL"], resume_state)]
           /\ tasks' = [tasks EXCEPT ![w] = Append(closed, NewTask(task.kind))]
        \/ /\ decision = "FAIL"
           /\ workflow' = [workflow EXCEPT ![w] =
                Transition([@ EXCEPT !.block_reason = "EXECUTION_RECONCILED_FAILED"], "FAILED")]
           /\ tasks' = [tasks EXCEPT ![w] = closed]
     /\ UNCHANGED worker

(* approve with action MERGE *)
ApproveMerge(w, revision, decision) ==
  /\ Created(w)
  /\ workflow[w].state = "AWAITING_HUMAN_APPROVAL"
  /\ workflow[w].candidate_revision = revision
  /\ workflow' = [workflow EXCEPT ![w] =
       Transition([@ EXCEPT !.merge_approval = [decision |-> decision, revision |-> revision]],
                  IF decision = "APPROVED" THEN "APPROVED" ELSE "REJECTED")]
  /\ UNCHANGED <<tasks, worker>>

(* Mutant: a task that is already running is not cancelled *)
CancelWorkflowSparesRunning(w) ==
  /\ Created(w)
  /\ TransitionAllowed(workflow[w].state, "CANCELLED")
  /\ workflow' = [workflow EXCEPT ![w] = Transition(@, "CANCELLED")]
  /\ tasks' = [tasks EXCEPT ![w] = [i \in Positions(w) |->
                 IF tasks[w][i].status \in {"READY", "LEASED"}
                 THEN DeactivateGrant([tasks[w][i] EXCEPT !.status = "CANCELLED"])
                 ELSE tasks[w][i]]]
  /\ UNCHANGED worker

(* Mutant: the transition is not checked against the allowlist *)
CancelWorkflowUnchecked(w) ==
  /\ Created(w)
  /\ workflow' = [workflow EXCEPT ![w] = Transition(@, "CANCELLED")]
  /\ tasks' = [tasks EXCEPT ![w] = [i \in Positions(w) |->
                 IF tasks[w][i].status \in {"READY", "LEASED", "RUNNING"}
                 THEN DeactivateGrant([tasks[w][i] EXCEPT !.status = "CANCELLED"])
                 ELSE tasks[w][i]]]
  /\ UNCHANGED worker

(* cancel_workflow: the lease fields and the attempts of a cancelled task    *)
(* stay as they are, and a BLOCKED task is left alone                        *)
CancelWorkflow(w) ==
  /\ Created(w)
  /\ TransitionAllowed(workflow[w].state, "CANCELLED")
  /\ workflow' = [workflow EXCEPT ![w] = Transition(@, "CANCELLED")]
  /\ tasks' = [tasks EXCEPT ![w] = [i \in Positions(w) |->
                 IF tasks[w][i].status \in {"READY", "LEASED", "RUNNING"}
                 THEN DeactivateGrant([tasks[w][i] EXCEPT !.status = "CANCELLED"])
                 ELSE tasks[w][i]]]
  /\ UNCHANGED worker
-----------------------------------------------------------------------------
RunErrors == ErrorCodes \cup {"ReviewRejected"}

(* run_once is reclaim, lease, execute *)
WorkerStep(p) ==
  \/ \E swept \in SUBSET ExpiredTasks :
       ReclaimExpiredTasks(p, swept)
  \/ \E w \in Workflows : \E i \in Positions(w) : LeaseNextTask(p, w, i)
  \/ \E provider \in Providers : PrepareExecution(p, provider)
  \/ RoutingBlocked(p)
  \/ PrepareRefused(p)
  \/ HeartbeatTask(p)
  \/ \E revision \in Revisions, size \in OutputSizes : FinalizeExecutionSuccess(p, revision, size)
  \/ \E error \in RunErrors : FinalizeExecutionFailure(p, error)
  \/ FinalizeRefused(p)

HumanStep(w) ==
  \/ \E suspicious \in BOOLEAN : CreateWorkflow(w, suspicious)
  \/ \E decision \in {"RESUME", "REJECT"} : DispositionWorkflow(w, decision)
  \/ \E i \in Positions(w), decision \in {"RETRY", "FAIL"} : ReconcileExecution(w, i, decision)
  \/ \E revision \in Revisions, decision \in {"APPROVED", "REJECTED"} : ApproveMerge(w, revision, decision)
  \/ CancelWorkflow(w)

Environment ==
  \/ \E p \in Workers : Crash(p)
  \/ \E w \in Workflows : \E i \in Positions(w) : LeaseTick(w, i) \/ GrantExpires(w, i)

Next ==
  \/ \E p \in Workers : WorkerStep(p)
  \/ \E w \in Workflows : HumanStep(w)
  \/ Environment

Spec == Init /\ [][Next]_vars

(* Fairness.  run_forever polls without end, so a worker process keeps       *)
(* sweeping and leasing; provider and executor calls have timeouts, so every *)
(* execution comes to one of the finalizations; and time passes.  Strong     *)
(* fairness of the preparation says that workers do not crash, or sleep      *)
(* through their lease, each and every time between leasing and preparing.   *)
(* Nothing obliges humans to act, grants to last, or providers to be gone    *)
(* when the output to review is too large.                                   *)
Prepare(p) ==
  \/ RoutingBlocked(p) /\ ReviewSourceAvailable(worker[p].wf, HeldTask(p).kind)
  \/ \E provider \in Providers : PrepareExecution(p, provider)

Finalize(p) ==
  \/ \E revision \in Revisions, size \in OutputSizes : FinalizeExecutionSuccess(p, revision, size)
  \/ \E error \in RunErrors : FinalizeExecutionFailure(p, error)
  \/ FinalizeRefused(p)

Fairness ==
  /\ \A p \in Workers : SF_vars(Prepare(p)) /\ WF_vars(PrepareRefused(p)) /\ WF_vars(Finalize(p))
  /\ WF_vars(\E p \in Workers, w \in Workflows : \E i \in Positions(w) : LeaseNextTask(p, w, i))
  /\ WF_vars(\E p \in Workers : \E swept \in SUBSET ExpiredTasks : ReclaimExpiredTasks(p, swept))
  /\ \A w \in Workflows : WF_vars(\E i \in Positions(w) : LeaseTick(w, i))

FairSpec == Spec /\ Fairness
-----------------------------------------------------------------------------
(* Invariants *)

TypeOK ==
  /\ workflow \in [Workflows -> WorkflowRow \cup {None}]
  /\ tasks \in [Workflows -> Seq(Task)]
  /\ worker \in [Workers -> WorkerState]

LiveStatus == {"READY", "LEASED", "RUNNING"}

LiveTasks(w) == {i \in Positions(w) : tasks[w][i].status \in LiveStatus}

InWork(w) == Created(w) /\ workflow[w].state \in WorkState

(* A workflow is in a work state exactly while one task of it is queued or   *)
(* being worked on; that task is the last one scheduled and belongs to that  *)
(* state.  No stage is left without a task to complete it, and no task can   *)
(* still run in a workflow that is blocked, decided or over.                 *)
LiveTaskDrivesState ==
  \A w \in Workflows :
    /\ InWork(w) <=> LiveTasks(w) # {}
    /\ \A i \in LiveTasks(w) : /\ i = Len(tasks[w])
                               /\ workflow[w].state = TASK_WORKFLOW_STATE[tasks[w][i].kind]

(* No assert_transition_allowed or _require_candidate_revision on the        *)
(* worker's path can raise: whoever still holds a running lease can record   *)
(* success or failure, a leased task can be blocked by routing, and the      *)
(* all-or-nothing sweep of reclaim_expired_tasks is never aborted by one of  *)
(* its tasks (which would stop every worker from then on).                   *)
NoTransitionRaises ==
  /\ \A p \in Workers :
       /\ worker[p].pc = "executing" /\ RunStillLeased(p) =>
            LET row == workflow[worker[p].wf]
                kind == HeldTask(p).kind
            IN AdvanceAllowed(row, kind) /\ TransitionAllowed(row.state, "FAILED")
       /\ worker[p].pc = "leased" /\ HoldsLease(HeldTask(p), "LEASED", worker[p].token) =>
            TransitionAllowed(workflow[worker[p].wf].state, "BLOCKED")
  /\ \A s \in ExpiredTasks :
       /\ TransitionAllowed(workflow[s[1]].state, "BLOCKED")
       /\ \A r \in ExpiredTasks : r[1] = s[1] => r = s

(* The check a worker process makes before its next write would pass *)
PassesLeaseCheck(p) ==
  \/ worker[p].pc = "leased" /\ HoldsLease(HeldTask(p), "LEASED", worker[p].token)
  \/ worker[p].pc = "executing" /\ HoldsLease(HeldTask(p), "RUNNING", worker[p].token)

(* Leases fence: of all worker processes, which share one owner id, at most  *)
(* one passes the lease check of a task, however many hold a stale lease on  *)
(* it; and the attempt an executing one will finish is the only RUNNING one  *)
(* of the task, the last.                                                    *)
SingleExecutor ==
  \A p \in Workers : PassesLeaseCheck(p) =>
    /\ \A q \in Workers :
         PassesLeaseCheck(q) /\ worker[q].wf = worker[p].wf /\ worker[q].pos = worker[p].pos => q = p
    /\ worker[p].pc = "executing" =>
         /\ worker[p].attempt = Len(HeldTask(p).attempts)
         /\ \A n \in DOMAIN HeldTask(p).attempts :
              HeldTask(p).attempts[n].status = "RUNNING" <=> n = worker[p].attempt

(* An execution that timed out is never repeated by the system: it is the    *)
(* last attempt of its task, and work goes on after it only when a human has *)
(* recorded RETRY for it.                                                    *)
UnknownOutcomeNeedsHuman ==
  \A w \in Workflows : \A i \in Positions(w) : \A n \in DOMAIN tasks[w][i].attempts :
    tasks[w][i].attempts[n].status = "TIMED_OUT" =>
      /\ n = Len(tasks[w][i].attempts)
      /\ tasks[w][i].status \in {"BLOCKED", "RECONCILED"}
      /\ i < Len(tasks[w]) => tasks[w][i].attempts[n].reconciliation = "RETRY"

(* A workflow blocked for reconciliation has exactly one task that           *)
(* reconcile_execution accepts, so the block can always be released.         *)
BlockIsReconcilable ==
  \A w \in Workflows :
    Created(w) /\ workflow[w].state = "BLOCKED"
               /\ workflow[w].block_reason = "EXECUTION_RECONCILIATION_REQUIRED" =>
      /\ Reconcilable(w, Len(tasks[w]))
      /\ \A i \in Positions(w) : Reconcilable(w, i) => i = Len(tasks[w])

(* An agent's grant is in force exactly while its task can still be run: no  *)
(* authority outlives a task, and no queued task lacks its grant.            *)
GrantFollowsTask ==
  \A w \in Workflows : \A i \in Positions(w) :
    tasks[w][i].grant # "INACTIVE" <=> tasks[w][i].status \in LiveStatus

(* When a human is asked to approve a merge, tests, security review and code *)
(* review have each succeeded on the candidate revision: the revision they   *)
(* were given when they started, the one their artifact is labelled with     *)
(* when they ended, and the one the implementation produced are the same.    *)
EvidenceBindsCandidate ==
  \A w \in Workflows :
    Created(w) /\ workflow[w].state \in {"AWAITING_HUMAN_APPROVAL", "APPROVED"} =>
      /\ \E a \in AttemptsOf(w, "IMPLEMENT") :
           AttemptAt(w, a).status = "SUCCEEDED" /\ AttemptAt(w, a).artifact = workflow[w].candidate_revision
      /\ \A kind \in {"TEST", "SECURITY_REVIEW", "CODE_REVIEW"} : \E a \in AttemptsOf(w, kind) :
           /\ AttemptAt(w, a).status = "SUCCEEDED"
           /\ AttemptAt(w, a).artifact = workflow[w].candidate_revision
           /\ AttemptAt(w, a).examined = workflow[w].candidate_revision
           /\ workflow[w].candidate_revision # None

(* No provider reviews its own work: a review that ran was routed to another *)
(* provider than the attempt that produced the output it reviewed, although  *)
(* routing looks for the newest route and not for that attempt.              *)
ReviewIndependence ==
  \A w \in Workflows : \A kind \in ReviewKind :
    \A a \in AttemptsOf(w, kind), b \in AttemptsOf(w, REVIEW_PRODUCER_KIND[kind]) :
      AttemptAt(w, b).status = "SUCCEEDED" => AttemptAt(w, a).provider # AttemptAt(w, b).provider

(* What docs/workflow.md says of retries: a result that fails validation is  *)
(* not automatically retried, so no attempt follows it.  The code retries    *)
(* every error but a rejected review (Retrying).                             *)
ValidationFailuresNotRetried ==
  \A w \in Workflows : \A i \in Positions(w) : \A n \in DOMAIN tasks[w][i].attempts :
    tasks[w][i].attempts[n].error_code = "ValidationError" => n = Len(tasks[w][i].attempts)

(* Action properties *)

(* Attempts are a history: none disappears, and a finished one keeps its     *)
(* status, error, provider and artifact whatever happens to its task later.  *)
FinishedAttemptsImmutable ==
  [][\A w \in Workflows : \A i \in Positions(w) : \A n \in DOMAIN tasks[w][i].attempts :
       LET old == tasks[w][i].attempts[n]
           new == tasks'[w][i].attempts[n]
       IN /\ i \in DOMAIN tasks'[w] /\ n \in DOMAIN tasks'[w][i].attempts
          /\ old.status # "RUNNING" =>
               \/ new = old
               \/ old.reconciliation = "NULL" /\ new = [old EXCEPT !.reconciliation = new.reconciliation]]_vars

(* Liveness *)

(* Every worker that leases the task raises in _prepare_execution: the grant *)
(* is given for one hour and nothing renews it, or the output to review is   *)
(* too large                                                                 *)
Stranded(w) ==
  \E i \in LiveTasks(w) : tasks[w][i].grant = "EXPIRED" \/ ~ReviewSourceAvailable(w, tasks[w][i].kind)

(* Crashes, expired leases and retries notwithstanding, work on a workflow   *)
(* always comes to rest: decided, over, or waiting for a human, unless the   *)
(* grant of its task ran out before a worker started it or the output it is  *)
(* to review is over the one MiB that _prepare_execution accepts.            *)
WorkComesToRest ==
  \A w \in Workflows : InWork(w) ~> ~InWork(w) \/ Stranded(w)

-----------------------------------------------------------------------------
(* The abstract lifecycle this module implements *)

StateOf(row) == IF row = None THEN None ELSE row.state

VersionOf(row) == IF row = None THEN 0 ELSE row.version

CandidateOf(row) == IF row = None THEN None ELSE row.candidate_revision

(* Where a workflow with this row and these tasks may resume *)
HoldOf(row, ts) ==
  IF row # None /\ row.state = "BLOCKED"
  THEN CASE row.block_reason = "INPUT_DISPOSITION_REQUIRED"        -> "PLANNING"
         [] row.block_reason = "EXECUTION_RECONCILIATION_REQUIRED" -> TASK_WORKFLOW_STATE[ts[Len(ts)].kind]
         [] OTHER -> None
  ELSE None

ApprovedOf(row) ==
  IF row # None /\ row.merge_approval # None /\ row.merge_approval.decision = "APPROVED"
  THEN row.merge_approval.revision
  ELSE None

AbstractState == [w \in Workflows |-> StateOf(workflow[w])]

AbstractVersion == [w \in Workflows |-> VersionOf(workflow[w])]

AbstractCandidate == [w \in Workflows |-> CandidateOf(workflow[w])]

AbstractHold == [w \in Workflows |-> HoldOf(workflow[w], tasks[w])]

AbstractApproved == [w \in Workflows |-> ApprovedOf(workflow[w])]

Lifecycle == INSTANCE WorkflowLifecycle WITH
  state <- AbstractState, version <- AbstractVersion, candidate <- AbstractCandidate,
  hold <- AbstractHold, approved <- AbstractApproved

(* Whatever workers, leases, crashes and humans do to a workflow is a        *)
(* behaviour of WorkflowLifecycle: stages in order, the candidate set once,  *)
(* resumption only where it was blocked, decisions about the candidate only. *)
ImplementsLifecycle == Lifecycle!Spec
=============================================================================
