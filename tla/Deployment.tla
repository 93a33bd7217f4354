----------------------------- MODULE Deployment -----------------------------
(***************************************************************************)
(* DeploymentRecoveryService (deployment_recovery.py), the deployment and  *)
(* rollback approvals (workflow_tasks.py), the credential broker           *)
(* (credentials.py) and the local k3d adapter (kubernetes_deployment.py),  *)
(* for one workflow whose merge has been confirmed.                        *)
(*                                                                         *)
(* A command consumes an approval and commits a RUNNING record, obtains a  *)
(* credential and drives the target without a transaction, and records the *)
(* outcome in a second one.  The target is a ConfigMap that others write   *)
(* too: updates carry the resource version they read.                      *)
(***************************************************************************)
EXTENDS WorkflowStates, Integers, FiniteSets, TLC

CONSTANTS
  Calls,          \* API requests being served
  AttemptKeys,    \* idempotency keys of deployments; also the attempts' ids
  RollbackKeys,   \* idempotency keys of rollbacks
  Approvals,      \* ids of approval records
  None            \* SQL NULL

VARIABLES
  state,          \* workflow.state
  environment,    \* the registered deployment environment: the kind of its adapter
  plan,           \* the immutable deployment plan: the environment it was made for
  approvals,      \* approvals for DEPLOY and ROLLBACK
  attempts,       \* deployment_attempts, with their deployment_verifications row
  rollbacks,      \* deployment_rollbacks
  call,           \* what each request holds in memory
  target          \* the release marker in the cluster

vars == <<state, environment, plan, approvals, attempts, rollbacks, call, target>>
-----------------------------------------------------------------------------
(* Contents of the release marker: the one found at first, one written by    *)
(* hand that does not have the fields of a release, another workflow's, or   *)
(* this plan's, which an attempt writes with its own id as idempotency_key   *)
Release == {"previous", "manual", "other"} \cup AttemptKeys

EnvironmentConfig ==
  [classification : {"DEVELOPMENT", "STAGING", "PRODUCTION"},
   adapter        : {"dry-run", "local-k3d", "unknown"},
   provider       : {"dry-run", "local-k3d"}]

Approval ==
  [action : {"DEPLOY", "ROLLBACK"}, decision : {"APPROVED", "REJECTED"},
   deployment_attempt : AttemptKeys \cup {None}, consumed : BOOLEAN, expired : BOOLEAN]

Attempt ==
  [status   : {"RUNNING", "SUCCEEDED", "FAILED", "UNKNOWN", "ROLLBACK_REQUIRED"},
   approval : Approvals,
   previous : Release \cup {None},    \* result_json.execution.previous_release
   observed : Release \cup {None}]    \* what the verification row was made from

Rollback ==
  [status   : {"RUNNING", "SUCCEEDED", "FAILED", "UNKNOWN"},
   attempt  : AttemptKeys,
   approval : Approvals,
   observed : Release \cup {None}]

CallState ==
  [pc       : {"idle", "dry_run", "credential", "reading", "writing", "observing", "finished", "raised"},
   op       : {"APPLY_PLAN", "ROLLBACK"},
   key      : AttemptKeys \cup RollbackKeys \cup {None},
   wanted   : Release \cup {None},    \* desired, or previous_release of a rollback
   read     : Release \cup {None},    \* current, then observed_data
   fresh    : BOOLEAN,                \* the resourceVersion that was read is still current
   previous : Release \cup {None},
   error    : {"NULL", "FAILED", "UNKNOWN", "ROLLBACK_REQUIRED"}]

(* NULL is no key, no approval, no content of the marker and no row *)
ASSUME NoneAssumption ==
  /\ None \notin AttemptKeys /\ None \notin RollbackKeys /\ None \notin Approvals
  /\ None \notin Release /\ None \notin {"dry-run", "local-k3d"}
  /\ None \notin Approval /\ None \notin Attempt /\ None \notin Rollback

NoCall ==
  [pc |-> "idle", op |-> "APPLY_PLAN", key |-> None, wanted |-> None, read |-> None, fresh |-> FALSE,
   previous |-> None, error |-> "NULL"]

Status(record) == IF record = None THEN "NULL" ELSE record.status

Return(c) == call' = [call EXCEPT ![c] = NoCall]

Raise(c, error) == call' = [call EXCEPT ![c].pc = "raised", ![c].error = error]

Init ==
  /\ state = "MERGED" /\ environment = None /\ plan = None
  /\ approvals = [a \in Approvals |-> None]
  /\ attempts = [k \in AttemptKeys |-> None]
  /\ rollbacks = [k \in RollbackKeys |-> None]
  /\ call = [c \in Calls |-> NoCall]
  /\ target \in {"previous", "manual"}
-----------------------------------------------------------------------------
(* What register_deployment_environment permits: never production, and a      *)
(* credentialed adapter only for the local development cluster                *)
EnvironmentAllowed(config) ==
  /\ config.classification # "PRODUCTION"
  /\ config.adapter # "unknown"
  /\ config.adapter = config.provider
  /\ config.adapter = "local-k3d" => config.classification = "DEVELOPMENT"

(* register_deployment_environment: an id is bound once; a repetition returns *)
(* the record and another configuration raises                                *)
RegisterDeploymentEnvironment(config) ==
  /\ EnvironmentAllowed(config)
  /\ environment = None
  /\ environment' = config.adapter
  /\ UNCHANGED <<state, plan, approvals, attempts, rollbacks, call, target>>

(* create_deployment_plan, of a request within the environment's policy.      *)
(* Leaving MERGED, it makes the workflow's only plan.                         *)
CreateDeploymentPlan ==
  /\ environment # None
  /\ state = "MERGED"
  /\ plan' = environment
  /\ TransitionAllowed(state, "AWAITING_DEPLOYMENT_APPROVAL")
  /\ state' = "AWAITING_DEPLOYMENT_APPROVAL"
  /\ UNCHANGED <<environment, approvals, attempts, rollbacks, call, target>>

(* approve with action DEPLOY: a rejection is consumed and ends the workflow; *)
(* an approval waits, and any number of them may                              *)
ApproveDeploy(a, decision) ==
  /\ approvals[a] = None
  /\ state = "AWAITING_DEPLOYMENT_APPROVAL"
  /\ approvals' = [approvals EXCEPT ![a] =
                     [action |-> "DEPLOY", decision |-> decision, deployment_attempt |-> None,
                      consumed |-> decision = "REJECTED", expired |-> FALSE]]
  /\ state' = IF decision = "REJECTED" THEN "REJECTED" ELSE state
  /\ UNCHANGED <<environment, plan, attempts, rollbacks, call, target>>

(* approve with action ROLLBACK, for one contained attempt *)
ApproveRollback(a, k, decision) ==
  /\ approvals[a] = None
  /\ state = "ROLLBACK_REQUIRED"
  /\ Status(attempts[k]) = "ROLLBACK_REQUIRED"
  /\ approvals' = [approvals EXCEPT ![a] =
                     [action |-> "ROLLBACK", decision |-> decision, deployment_attempt |-> k,
                      consumed |-> decision = "REJECTED", expired |-> FALSE]]
  /\ UNCHANGED <<state, environment, plan, attempts, rollbacks, call, target>>

(* expires_at passes; of a consumed approval nobody asks any more *)
ApprovalExpires(a) ==
  /\ approvals[a] # None /\ ~approvals[a].expired /\ ~approvals[a].consumed
  /\ approvals' = [approvals EXCEPT ![a].expired = TRUE]
  /\ UNCHANGED <<state, environment, plan, attempts, rollbacks, call, target>>

(* The exact unconsumed approval that an execution asks for: any of them here, *)
(* the newest one in the code                                                  *)
Usable(a, action, k) ==
  /\ approvals[a] # None
  /\ approvals[a].action = action /\ approvals[a].decision = "APPROVED"
  /\ approvals[a].deployment_attempt = k
  /\ ~approvals[a].consumed /\ ~approvals[a].expired

(* Mutant: the approval is not marked consumed *)
KeepApproval(a) == approvals' = approvals

Consume(a) == approvals' = [approvals EXCEPT ![a].consumed = TRUE]

(* The intent of execute_deployment_dry_run and execute_local_deployment: the *)
(* attempt is RUNNING and the approval consumed before anything is contacted  *)
StartAttempt(c, k, a, kind, pc) ==
  /\ call[c].pc = "idle"
  /\ attempts[k] = None
  /\ state = "AWAITING_DEPLOYMENT_APPROVAL"
  /\ plan = kind
  /\ Usable(a, "DEPLOY", None)
  /\ attempts' = [attempts EXCEPT ![k] =
                    [status |-> "RUNNING", approval |-> a, previous |-> None, observed |-> None]]
  /\ Consume(a)
  /\ call' = [call EXCEPT ![c] = [NoCall EXCEPT !.pc = pc, !.key = k, !.wanted = k]]
  /\ UNCHANGED <<state, environment, plan, rollbacks, target>>

ExecuteDeploymentDryRun(c, k, a) == StartAttempt(c, k, a, "dry-run", "dry_run")

ExecuteLocalDeployment(c, k, a) == StartAttempt(c, k, a, "local-k3d", "credential")

(* Mutant: a simulation counts as a deployment *)
FinishDryRunDeploys(c) ==
  /\ call[c].pc = "dry_run"
  /\ attempts' = [attempts EXCEPT ![call[c].key].status = "SUCCEEDED"]
  /\ state' = "DEPLOYED"
  /\ Return(c)
  /\ UNCHANGED <<environment, plan, approvals, rollbacks, target>>

(* The outcome of a simulation: the adapter verified it, or raised            *)
(* (_fail_deployment_dry_run).  The built-in adapter reports no change, so    *)
(* the branch that requires a rollback is not reached.                        *)
FinishDryRun(c) ==
  /\ call[c].pc = "dry_run"
  /\ attempts[call[c].key].status = "RUNNING"
  /\ \E outcome \in {"SUCCEEDED", "FAILED"} :
       attempts' = [attempts EXCEPT ![call[c].key].status = outcome]
  /\ Return(c)
  /\ UNCHANGED <<state, environment, plan, approvals, rollbacks, target>>
-----------------------------------------------------------------------------
(* The intent of execute_local_rollback.  The snapshot must be in the result  *)
(* of the attempt, where only its regular completion puts it.                 *)
ExecuteLocalRollback(c, r, k, a) ==
  /\ call[c].pc = "idle"
  /\ rollbacks[r] = None
  /\ state = "ROLLBACK_REQUIRED"
  /\ Status(attempts[k]) = "ROLLBACK_REQUIRED"
  /\ plan = "local-k3d"
  /\ Usable(a, "ROLLBACK", k)
  /\ attempts[k].previous # None
  /\ rollbacks' = [rollbacks EXCEPT ![r] =
                     [status |-> "RUNNING", attempt |-> k, approval |-> a, observed |-> None]]
  /\ Consume(a)
  /\ call' = [call EXCEPT ![c] = [NoCall EXCEPT !.pc = "credential", !.op = "ROLLBACK", !.key = r,
                                                !.wanted = attempts[k].previous]]
  /\ UNCHANGED <<state, environment, plan, attempts, target>>

(* Returned claims, with times relative to now: issued for the exact workload *)
(* and audience, for 600 seconds, within a minute of the local clock          *)
Claims == [bound : BOOLEAN, iat : {-61, -60, 60, 61}, exp : {539, 540, 660}]

ClaimsAccepted(claims) ==
  /\ claims.bound
  /\ claims.exp - claims.iat = 600
  /\ claims.iat \in -60 .. 60 /\ claims.exp > 0

(* Mutant: what the snapshot holds is not looked at *)
SnapshotAccepted(c) == TRUE

(* rollback_with_credential: a snapshot of a release that is not this plan's *)
SnapshotRestorable(c) ==
  call[c].op = "ROLLBACK" => call[c].wanted \notin {"manual"} \cup AttemptKeys

(* The broker's run: TokenRequest and the checks of _issue_material, then the *)
(* adapter's own checks before it contacts the target                         *)
IssueCredential(c) ==
  /\ call[c].pc = "credential"
  /\ \/ \E claims \in Claims : IF ClaimsAccepted(claims) /\ SnapshotRestorable(c)
                               THEN call' = [call EXCEPT ![c].pc = "reading"]
                               ELSE Raise(c, "FAILED")
     \/ Raise(c, "FAILED")
  /\ UNCHANGED <<state, environment, plan, approvals, attempts, rollbacks, target>>

(* _read before the change; one that fails raises before any mutation.  A     *)
(* rollback that finds the snapshot in place has nothing to write.            *)
ReadTarget(c) ==
  /\ call[c].pc = "reading"
  /\ \/ call' = [call EXCEPT ![c].pc = IF target = call[c].wanted THEN "observing" ELSE "writing",
                             ![c].read = target, ![c].fresh = TRUE, ![c].previous = target]
     \/ Raise(c, "FAILED")
  /\ UNCHANGED <<state, environment, plan, approvals, attempts, rollbacks, target>>

(* Every update of the marker outdates the versions that requests have read *)
Outdated(calls) == [d \in Calls |-> [calls[d] EXCEPT !.fresh = FALSE]]

(* Mutant: the update is sent without the resource version that was read *)
PutTargetBlindly(c) ==
  /\ call[c].pc = "writing"
  /\ target' = call[c].wanted
  /\ call' = [Outdated(call) EXCEPT ![c].pc = "observing"]
  /\ UNCHANGED <<state, environment, plan, approvals, attempts, rollbacks>>

(* The put: applied if the version is current, and then confirmed, its answer *)
(* lost, or answered with another status than 200; or lost on the way, or     *)
(* refused, as it is when the version is old                                  *)
PutTarget(c) ==
  /\ call[c].pc = "writing"
  /\ \/ /\ call[c].fresh
        /\ target' = call[c].wanted
        /\ \/ call' = [Outdated(call) EXCEPT ![c].pc = "observing"]
           \/ \E error \in {"UNKNOWN", "FAILED"} :
                call' = [Outdated(call) EXCEPT ![c].pc = "raised", ![c].error = error]
     \/ /\ \E error \in {"UNKNOWN", "FAILED"} : Raise(c, error)
        /\ UNCHANGED target
  /\ UNCHANGED <<state, environment, plan, approvals, attempts, rollbacks>>

(* Mutant: a rollback that cannot be observed is recorded like a deployment *)
ObserveTargetUnmapped(c) ==
  /\ call[c].pc = "observing"
  /\ \/ call' = [call EXCEPT ![c].pc = "finished", ![c].read = target]
     \/ Raise(c, "ROLLBACK_REQUIRED")
  /\ UNCHANGED <<state, environment, plan, approvals, attempts, rollbacks, target>>

(* What a _read raises that gets no answer, or an error status: a             *)
(* verification error if there was a change, which a rollback records as      *)
(* UNKNOWN                                                                    *)
Unobserved(c) ==
  IF call[c].previous = call[c].wanted THEN "FAILED"
  ELSE IF call[c].op = "ROLLBACK" THEN "UNKNOWN" ELSE "ROLLBACK_REQUIRED"

(* The second _read: an answer to verify; none; or one that is not a release  *)
(* marker, which raises a validation error                                    *)
ObserveTarget(c) ==
  /\ call[c].pc = "observing"
  /\ \/ call' = [call EXCEPT ![c].pc = "finished", ![c].read = target]
     \/ Raise(c, Unobserved(c))
     \/ Raise(c, "FAILED")
  /\ UNCHANGED <<state, environment, plan, approvals, attempts, rollbacks, target>>
-----------------------------------------------------------------------------
(* The end of execute_local_deployment: SUCCEEDED and DEPLOYED if what was    *)
(* observed is what was written, else ROLLBACK_REQUIRED.  A transition that   *)
(* the state does not allow raises, and the attempt stays RUNNING.            *)
FinishDeployment(c) ==
  LET verified == call[c].read = call[c].wanted
      next == IF verified THEN "DEPLOYED" ELSE "ROLLBACK_REQUIRED"
  IN /\ call[c].pc = "finished" /\ call[c].op = "APPLY_PLAN"
     /\ IF attempts[call[c].key].status = "RUNNING" /\ TransitionAllowed(state, next)
        THEN /\ attempts' = [attempts EXCEPT ![call[c].key] =
                               [@ EXCEPT !.status = IF verified THEN "SUCCEEDED" ELSE "ROLLBACK_REQUIRED",
                                         !.previous = call[c].previous, !.observed = call[c].read]]
             /\ state' = next
        ELSE UNCHANGED <<attempts, state>>
     /\ Return(c)
     /\ UNCHANGED <<environment, plan, approvals, rollbacks, target>>

(* Mutant: the failure is recorded without moving the workflow *)
FailLocalDeploymentAlone(c) ==
  /\ call[c].pc = "raised" /\ call[c].op = "APPLY_PLAN"
  /\ attempts' = [attempts EXCEPT ![call[c].key].status = call[c].error]
  /\ Return(c)
  /\ UNCHANGED <<state, environment, plan, approvals, rollbacks, target>>

(* _fail_local_deployment *)
FailLocalDeployment(c) ==
  /\ call[c].pc = "raised" /\ call[c].op = "APPLY_PLAN"
  /\ IF /\ attempts[call[c].key].status = "RUNNING"
        /\ call[c].error = "ROLLBACK_REQUIRED" => TransitionAllowed(state, "ROLLBACK_REQUIRED")
     THEN /\ attempts' = [attempts EXCEPT ![call[c].key].status = call[c].error]
          /\ state' = IF call[c].error = "ROLLBACK_REQUIRED" THEN "ROLLBACK_REQUIRED" ELSE state
     ELSE UNCHANGED <<attempts, state>>
  /\ Return(c)
  /\ UNCHANGED <<environment, plan, approvals, rollbacks, target>>

(* The end of execute_local_rollback *)
FinishRollback(c) ==
  LET recovered == call[c].read = call[c].wanted
  IN /\ call[c].pc = "finished" /\ call[c].op = "ROLLBACK"
     /\ IF rollbacks[call[c].key].status = "RUNNING" /\ (recovered => TransitionAllowed(state, "ROLLED_BACK"))
        THEN /\ rollbacks' = [rollbacks EXCEPT ![call[c].key] =
                                [@ EXCEPT !.status = IF recovered THEN "SUCCEEDED" ELSE "FAILED",
                                          !.observed = call[c].read]]
             /\ state' = IF recovered THEN "ROLLED_BACK" ELSE state
        ELSE UNCHANGED <<rollbacks, state>>
     /\ Return(c)
     /\ UNCHANGED <<environment, plan, approvals, attempts, target>>

(* _fail_local_rollback: the workflow stays contained *)
FailLocalRollback(c) ==
  /\ call[c].pc = "raised" /\ call[c].op = "ROLLBACK"
  /\ rollbacks' = IF rollbacks[call[c].key].status = "RUNNING"
                  THEN [rollbacks EXCEPT ![call[c].key].status = call[c].error] ELSE rollbacks
  /\ Return(c)
  /\ UNCHANGED <<state, environment, plan, approvals, attempts, target>>

(* The process that serves a request dies, and its record stays RUNNING *)
Crash(c) ==
  /\ call[c].pc # "idle"
  /\ Return(c)
  /\ UNCHANGED <<state, environment, plan, approvals, attempts, rollbacks, target>>

(* Another workflow's deployment to the same environment *)
OtherRelease ==
  /\ target' = "other"
  /\ call' = Outdated(call)
  /\ UNCHANGED <<state, environment, plan, approvals, attempts, rollbacks>>
-----------------------------------------------------------------------------
CallStep(c) ==
  \/ \E k \in AttemptKeys, a \in Approvals :
       ExecuteDeploymentDryRun(c, k, a) \/ ExecuteLocalDeployment(c, k, a)
  \/ \E r \in RollbackKeys, k \in AttemptKeys, a \in Approvals : ExecuteLocalRollback(c, r, k, a)
  \/ FinishDryRun(c)
  \/ IssueCredential(c) \/ ReadTarget(c) \/ PutTarget(c) \/ ObserveTarget(c)
  \/ FinishDeployment(c) \/ FailLocalDeployment(c)
  \/ FinishRollback(c) \/ FailLocalRollback(c)
  \/ Crash(c)

Next ==
  \/ \E config \in EnvironmentConfig : RegisterDeploymentEnvironment(config)
  \/ CreateDeploymentPlan
  \/ \E a \in Approvals, decision \in {"APPROVED", "REJECTED"} :
       \/ ApproveDeploy(a, decision)
       \/ \E k \in AttemptKeys : ApproveRollback(a, k, decision)
  \/ \E a \in Approvals : ApprovalExpires(a)
  \/ \E c \in Calls : CallStep(c)
  \/ OtherRelease

Spec == Init /\ [][Next]_vars
-----------------------------------------------------------------------------
(* Type correctness: every record keeps to the statuses of its own table,     *)
(* whichever exception of the adapter decided them                            *)
TypeOK ==
  /\ state \in {"MERGED", "AWAITING_DEPLOYMENT_APPROVAL", "REJECTED", "DEPLOYED", "ROLLBACK_REQUIRED",
                "ROLLED_BACK"}
  /\ environment \in {"dry-run", "local-k3d", None}
  /\ plan \in {"dry-run", "local-k3d", None}
  /\ approvals \in [Approvals -> Approval \cup {None}]
  /\ attempts \in [AttemptKeys -> Attempt \cup {None}]
  /\ rollbacks \in [RollbackKeys -> Rollback \cup {None}]
  /\ call \in [Calls -> CallState]
  /\ target \in Release

(* A workflow is DEPLOYED only by an attempt that read back exactly what it   *)
(* wrote, with at most one such attempt however many run at once, and never   *)
(* by a simulation.                                                           *)
DeployedIsVerified ==
  LET succeeded == {k \in AttemptKeys : Status(attempts[k]) = "SUCCEEDED"}
  IN /\ state = "DEPLOYED" => plan = "local-k3d" /\ succeeded # {}
     /\ plan = "local-k3d" =>
          /\ Cardinality(succeeded) <= 1
          /\ \A k \in succeeded : attempts[k].observed = k

(* Containment: a workflow needs, or has had, a rollback exactly when one of  *)
(* its attempts says so, and that is one attempt, although an attempt can end *)
(* when another has already moved the workflow.                               *)
ContainedByOneAttempt ==
  LET contained == {k \in AttemptKeys : Status(attempts[k]) = "ROLLBACK_REQUIRED"}
  IN /\ Cardinality(contained) <= 1
     /\ state \in {"ROLLBACK_REQUIRED", "ROLLED_BACK"} <=> contained # {}

(* A workflow is ROLLED_BACK only by one rollback that read back the snapshot *)
(* of the contained attempt, and that snapshot is not a release of this plan, *)
(* not even one that a concurrent attempt had left in the target.             *)
RolledBackIsRestored ==
  LET succeeded == {r \in RollbackKeys : Status(rollbacks[r]) = "SUCCEEDED"}
  IN /\ Cardinality(succeeded) <= 1
     /\ state = "ROLLED_BACK" <=> succeeded # {}
     /\ \A r \in succeeded :
          /\ rollbacks[r].observed = attempts[rollbacks[r].attempt].previous
          /\ rollbacks[r].observed \in {"previous", "other"}

(* An approval is spent on one execution: on the attempt or the rollback that *)
(* holds it, of the kind it approves, and a rejected one on none.             *)
ApprovalSpentOnce ==
  /\ \A k \in AttemptKeys : attempts[k] # None =>
       /\ approvals[attempts[k].approval].action = "DEPLOY"
       /\ approvals[attempts[k].approval].decision = "APPROVED"
       /\ \A other \in AttemptKeys \ {k} : attempts[other] # None => attempts[other].approval # attempts[k].approval
  /\ \A r \in RollbackKeys : rollbacks[r] # None =>
       /\ approvals[rollbacks[r].approval].deployment_attempt = rollbacks[r].attempt
       /\ approvals[rollbacks[r].approval].decision = "APPROVED"
       /\ \A other \in RollbackKeys \ {r} : rollbacks[other] # None => rollbacks[other].approval # rollbacks[r].approval

(* A deployment changes the target only from the release it records as the    *)
(* previous one: what a rollback restores is what the attempt replaced.       *)
WrittenOverWhatWasRead ==
  [][\A c \in Calls :
       (call[c].pc = "writing" /\ call'[c].pc # "writing" /\ target' # target)
         => target = call[c].previous]_vars

(* What docs/phase-4-deployment-design.md says of an attempt: FAILED "is      *)
(* valid only when the adapter can prove that no target change occurred".     *)
FailedMeansUnchanged ==
  \A k \in AttemptKeys : Status(attempts[k]) = "FAILED" => target # k

(* Requests, keys and approvals are interchangeable *)
DeploymentSymmetry ==
  Permutations(Calls) \cup Permutations(AttemptKeys) \cup Permutations(RollbackKeys)
    \cup Permutations(Approvals)
=============================================================================
