-------------------------- MODULE DeploymentProofs --------------------------
(***************************************************************************)
(* Proofs about Deployment, for any number of requests, keys and approvals.*)
(*                                                                         *)
(* None of its invariants is inductive alone.  That only one attempt can   *)
(* contain the workflow follows from the state an attempt finds when it    *)
(* ends, so the state has to tell which attempts have ended how            *)
(* (AttemptsFit); that a rollback restored the right snapshot needs what   *)
(* the request that ends it holds in memory (CallFits); and that approvals *)
(* are spent once, that a record's approval is marked consumed for good    *)
(* (ApprovalsFit).                                                         *)
(***************************************************************************)
EXTENDS Deployment, FiniteSetTheorems, TLAPS

(* Every record holds its own, consumed approval, of its own kind *)
ApprovalsFit ==
  /\ \A k \in AttemptKeys : attempts[k] # None =>
       /\ approvals[attempts[k].approval] # None
       /\ approvals[attempts[k].approval].action = "DEPLOY"
       /\ approvals[attempts[k].approval].decision = "APPROVED"
       /\ approvals[attempts[k].approval].consumed
  /\ \A r \in RollbackKeys : rollbacks[r] # None =>
       /\ approvals[rollbacks[r].approval] # None
       /\ approvals[rollbacks[r].approval].action = "ROLLBACK"
       /\ approvals[rollbacks[r].approval].decision = "APPROVED"
       /\ approvals[rollbacks[r].approval].deployment_attempt = rollbacks[r].attempt
       /\ approvals[rollbacks[r].approval].consumed
  /\ \A k, j \in AttemptKeys :
       attempts[k] # None /\ attempts[j] # None /\ attempts[k].approval = attempts[j].approval => k = j
  /\ \A r, q \in RollbackKeys :
       rollbacks[r] # None /\ rollbacks[q] # None /\ rollbacks[r].approval = rollbacks[q].approval => r = q

(* What the state of the workflow says about its attempts *)
AttemptsFit ==
  /\ state = "MERGED" => \A k \in AttemptKeys : attempts[k] = None
  /\ \A k \in AttemptKeys : Status(attempts[k]) = "ROLLBACK_REQUIRED" => state \in {"ROLLBACK_REQUIRED", "ROLLED_BACK"}
  /\ state \in {"ROLLBACK_REQUIRED", "ROLLED_BACK"} => \E k \in AttemptKeys : Status(attempts[k]) = "ROLLBACK_REQUIRED"
  /\ \A k, j \in AttemptKeys :
       Status(attempts[k]) = "ROLLBACK_REQUIRED" /\ Status(attempts[j]) = "ROLLBACK_REQUIRED" => k = j
  /\ state = "DEPLOYED" => plan = "local-k3d" /\ \E k \in AttemptKeys : Status(attempts[k]) = "SUCCEEDED"
  /\ plan = "local-k3d" =>
       /\ \A k \in AttemptKeys : Status(attempts[k]) = "SUCCEEDED" =>
            state \in {"DEPLOYED", "ROLLBACK_REQUIRED", "ROLLED_BACK"} /\ attempts[k].observed = k
       /\ \A k, j \in AttemptKeys : Status(attempts[k]) = "SUCCEEDED" /\ Status(attempts[j]) = "SUCCEEDED" => k = j

(* A rollback is of the contained attempt and restores its snapshot *)
RollbacksFit ==
  /\ \A r \in RollbackKeys : rollbacks[r] # None => Status(attempts[rollbacks[r].attempt]) = "ROLLBACK_REQUIRED"
  /\ state = "ROLLED_BACK" => \E r \in RollbackKeys : Status(rollbacks[r]) = "SUCCEEDED"
  /\ \A r \in RollbackKeys : Status(rollbacks[r]) = "SUCCEEDED" =>
       /\ state = "ROLLED_BACK"
       /\ rollbacks[r].observed = attempts[rollbacks[r].attempt].previous
       /\ rollbacks[r].observed \in {"previous", "other"}
  /\ \A r, q \in RollbackKeys : Status(rollbacks[r]) = "SUCCEEDED" /\ Status(rollbacks[q]) = "SUCCEEDED" => r = q

(* What a request in progress holds *)
CallFits(c) ==
  /\ call[c].pc # "idle" /\ call[c].op = "APPLY_PLAN" =>
       /\ call[c].key \in AttemptKeys
       /\ attempts[call[c].key] # None
       /\ call[c].wanted = call[c].key
  /\ call[c].pc # "idle" /\ call[c].op = "ROLLBACK" =>
       /\ call[c].key \in RollbackKeys
       /\ rollbacks[call[c].key] # None
       /\ call[c].wanted = attempts[rollbacks[call[c].key].attempt].previous
       /\ call[c].wanted # None
       /\ call[c].error # "ROLLBACK_REQUIRED"
  /\ call[c].pc \in {"reading", "writing", "observing", "finished"} => SnapshotRestorable(c)
  /\ call[c].pc = "dry_run" => plan = "dry-run" /\ call[c].op = "APPLY_PLAN"
  /\ call[c].pc \notin {"idle", "dry_run"} => plan = "local-k3d"
  /\ call[c].pc = "writing" /\ call[c].fresh => call[c].previous = target
  /\ call[c].pc = "finished" => call[c].read # None
  /\ call[c].pc = "raised" => call[c].error # "NULL"

IInv ==
  /\ TypeOK
  /\ ApprovalsFit
  /\ AttemptsFit
  /\ RollbacksFit
  /\ \A c \in Calls : CallFits(c)
-----------------------------------------------------------------------------
(* The moves between the states of this stage that the allowlist permits *)
LEMMA Moves ==
  ASSUME NEW s \in {"MERGED", "AWAITING_DEPLOYMENT_APPROVAL", "REJECTED", "DEPLOYED", "ROLLBACK_REQUIRED",
                    "ROLLED_BACK"}
  PROVE  /\ TransitionAllowed(s, "DEPLOYED") <=> s = "AWAITING_DEPLOYMENT_APPROVAL"
         /\ TransitionAllowed(s, "ROLLBACK_REQUIRED") <=> s \in {"AWAITING_DEPLOYMENT_APPROVAL", "DEPLOYED"}
         /\ TransitionAllowed(s, "ROLLED_BACK") <=> s = "ROLLBACK_REQUIRED"
BY DEF TransitionAllowed, ALLOWED_TRANSITIONS, WorkflowState

(* A set whose elements are all equal has at most one *)
LEMMA AtMostOne ==
  ASSUME NEW S, \A a, b \in S : a = b
  PROVE  Cardinality(S) <= 1
<1>1. CASE S = {}
  BY <1>1, FS_EmptySet
<1>2. CASE S # {}
  <2>1. PICK a : S = {a}
    BY <1>2
  <2> QED
    BY <2>1, FS_Singleton
<1> QED
  BY <1>1, <1>2

(* Writing single fields of what a request holds *)
LEMMA CallFields ==
  ASSUME NEW x \in CallState
  PROVE  /\ \A pc \in {"idle", "dry_run", "credential", "reading", "writing", "observing", "finished", "raised"} :
              [x EXCEPT !.pc = pc] \in CallState
         /\ \A release \in Release \cup {None} :
              /\ [x EXCEPT !.read = release] \in CallState
              /\ [x EXCEPT !.previous = release] \in CallState
         /\ \A fresh \in BOOLEAN : [x EXCEPT !.fresh = fresh] \in CallState
         /\ \A error \in {"NULL", "FAILED", "UNKNOWN", "ROLLBACK_REQUIRED"} :
              [x EXCEPT !.error = error] \in CallState
BY DEF CallState

LEMMA NoCallTyped == NoCall \in CallState
BY DEF NoCall, CallState

(* A request that raises, or returns *)
LEMMA RaiseTyped ==
  ASSUME call \in [Calls -> CallState], NEW c \in Calls,
         NEW error \in {"FAILED", "UNKNOWN", "ROLLBACK_REQUIRED"}, Raise(c, error)
  PROVE  /\ call' \in [Calls -> CallState]
         /\ \A d \in Calls : d # c => call'[d] = call[d]
         /\ call'[c] = [call[c] EXCEPT !.pc = "raised", !.error = error]
<1>1. call' = [call EXCEPT ![c] = [call[c] EXCEPT !.pc = "raised", !.error = error]]
  BY DEF Raise
<1>2. [[call[c] EXCEPT !.pc = "raised"] EXCEPT !.error = error] \in CallState
  BY CallFields
<1>3. [call[c] EXCEPT !.pc = "raised", !.error = error] \in CallState
  BY <1>2
<1> QED
  BY <1>1, <1>3

LEMMA ReturnTyped ==
  ASSUME call \in [Calls -> CallState], NEW c \in Calls, Return(c)
  PROVE  /\ call' \in [Calls -> CallState]
         /\ \A d \in Calls : d # c => call'[d] = call[d]
         /\ call'[c] = NoCall
BY NoCallTyped DEF Return

(* A request that is not the one that acts keeps what it holds *)
LEMMA OtherCall ==
  ASSUME IInv, NEW d \in Calls, call'[d] = call[d], plan' = plan, target' = target,
         \A k \in AttemptKeys : attempts[k] # None =>
           attempts'[k] # None /\ (attempts[k].status # "RUNNING" => attempts'[k] = attempts[k]),
         \A r \in RollbackKeys : rollbacks[r] # None =>
           rollbacks'[r] # None /\ rollbacks'[r].attempt = rollbacks[r].attempt
  PROVE  CallFits(d)'
<1> USE DEF IInv
<1>1. CallFits(d)
  OBVIOUS
<1>2. call[d].pc # "idle" /\ call[d].op = "ROLLBACK" =>
        /\ call[d].key \in RollbackKeys
        /\ rollbacks'[call[d].key] # None
        /\ call[d].wanted = attempts'[rollbacks'[call[d].key].attempt].previous
  <2> SUFFICES ASSUME call[d].pc # "idle", call[d].op = "ROLLBACK"
               PROVE  /\ call[d].key \in RollbackKeys
                      /\ rollbacks'[call[d].key] # None
                      /\ call[d].wanted = attempts'[rollbacks'[call[d].key].attempt].previous
    OBVIOUS
  <2> DEFINE r == call[d].key
  <2>1. r \in RollbackKeys /\ rollbacks[r] # None
        /\ call[d].wanted = attempts[rollbacks[r].attempt].previous
    BY <1>1 DEF CallFits
  <2>2. rollbacks'[r] # None /\ rollbacks'[r].attempt = rollbacks[r].attempt
    BY <2>1
  <2>3. rollbacks[r].attempt \in AttemptKeys
    BY <2>1 DEF TypeOK, Rollback
  <2>4. Status(attempts[rollbacks[r].attempt]) = "ROLLBACK_REQUIRED"
    BY <2>1 DEF RollbacksFit
  <2>5. attempts[rollbacks[r].attempt] # None /\ attempts[rollbacks[r].attempt].status # "RUNNING"
    BY <2>4 DEF Status
  <2> QED
    BY <2>1, <2>2, <2>3, <2>5
<1> QED
  BY <1>1, <1>2 DEF CallFits, SnapshotRestorable

(* Steps that write no table *)
LEMMA TablesUnchanged ==
  ASSUME IInv, UNCHANGED <<state, environment, plan, approvals, attempts, rollbacks>>
  PROVE  /\ ApprovalsFit' /\ AttemptsFit' /\ RollbacksFit'
         /\ (call' \in [Calls -> CallState] /\ target' \in Release) => TypeOK'
BY DEF IInv, ApprovalsFit, AttemptsFit, RollbacksFit, TypeOK, Status
-----------------------------------------------------------------------------
(* Nothing has been recorded at first *)
LEMMA InitIInv == Init => IInv
<1> SUFFICES ASSUME Init PROVE IInv
  OBVIOUS
<1>1. TypeOK
  BY NoCallTyped DEF Init, TypeOK, Release
<1>2. ApprovalsFit /\ AttemptsFit /\ RollbacksFit
  BY DEF Init, ApprovalsFit, AttemptsFit, RollbacksFit, Status
<1>3. \A c \in Calls : CallFits(c)
  BY DEF Init, CallFits, NoCall
<1> QED
  BY <1>1, <1>2, <1>3 DEF IInv

(* register_deployment_environment *)
LEMMA RegisterIInv ==
  ASSUME IInv, NEW config \in EnvironmentConfig, RegisterDeploymentEnvironment(config)
  PROVE  IInv'
<1> USE DEF IInv, RegisterDeploymentEnvironment
<1>1. TypeOK'
  BY DEF TypeOK, EnvironmentConfig, EnvironmentAllowed
<1>2. ApprovalsFit' /\ AttemptsFit' /\ RollbacksFit'
  BY DEF ApprovalsFit, AttemptsFit, RollbacksFit, Status
<1>3. \A c \in Calls : CallFits(c)'
  BY DEF CallFits, SnapshotRestorable
<1> QED
  BY <1>1, <1>2, <1>3

(* create_deployment_plan: no attempt, so no rollback and no request, precedes the plan *)
LEMMA PlanIInv ==
  ASSUME IInv, CreateDeploymentPlan
  PROVE  IInv'
<1> USE DEF IInv, CreateDeploymentPlan
<1>1. TypeOK'
  BY DEF TypeOK
<1>2. /\ \A k \in AttemptKeys : attempts[k] = None
      /\ \A r \in RollbackKeys : rollbacks[r] = None
  BY DEF AttemptsFit, RollbacksFit, TypeOK, Rollback, Status
<1>3. \A c \in Calls : call[c].pc = "idle"
  BY <1>2 DEF CallFits, TypeOK, CallState
<1>4. ApprovalsFit' /\ AttemptsFit' /\ RollbacksFit'
  BY <1>2 DEF ApprovalsFit, AttemptsFit, RollbacksFit, Status
<1>5. \A c \in Calls : CallFits(c)'
  BY <1>3 DEF CallFits
<1> QED
  BY <1>1, <1>4, <1>5

(* approve: a new record, that no attempt or rollback holds *)
LEMMA ApproveIInv ==
  ASSUME IInv, NEW a \in Approvals, NEW decision \in {"APPROVED", "REJECTED"},
         ApproveDeploy(a, decision) \/ \E k \in AttemptKeys : ApproveRollback(a, k, decision)
  PROVE  IInv'
<1> USE DEF IInv
<1> DEFINE Frame == UNCHANGED <<environment, plan, attempts, rollbacks, call, target>>
<1>1. PICK action \in {"DEPLOY", "ROLLBACK"}, k \in AttemptKeys \cup {None} :
        approvals' = [approvals EXCEPT ![a] =
                        [action |-> action, decision |-> decision, deployment_attempt |-> k,
                         consumed |-> decision = "REJECTED", expired |-> FALSE]]
  BY DEF ApproveDeploy, ApproveRollback
<1>2. Frame /\ approvals[a] = None
  BY DEF ApproveDeploy, ApproveRollback
<1>3. state' = state \/ (state = "AWAITING_DEPLOYMENT_APPROVAL" /\ state' = "REJECTED")
  BY DEF ApproveDeploy, ApproveRollback
<1>4. [action |-> action, decision |-> decision, deployment_attempt |-> k,
       consumed |-> decision = "REJECTED", expired |-> FALSE] \in Approval
  BY DEF Approval
<1>5. TypeOK'
  BY <1>1, <1>2, <1>3, <1>4 DEF TypeOK
<1>6. /\ \A j \in AttemptKeys : attempts[j] # None =>
           attempts[j].approval # a /\ approvals'[attempts[j].approval] = approvals[attempts[j].approval]
      /\ \A r \in RollbackKeys : rollbacks[r] # None =>
           rollbacks[r].approval # a /\ approvals'[rollbacks[r].approval] = approvals[rollbacks[r].approval]
  BY <1>1, <1>2 DEF ApprovalsFit, TypeOK, Attempt, Rollback
<1>7. ApprovalsFit'
  BY <1>2, <1>6 DEF ApprovalsFit
<1>8. AttemptsFit' /\ RollbacksFit'
  BY <1>2, <1>3 DEF AttemptsFit, RollbacksFit, Status
<1>9. \A c \in Calls : CallFits(c)'
  BY <1>2 DEF CallFits, SnapshotRestorable
<1> QED
  BY <1>5, <1>7, <1>8, <1>9

(* An approval expires; only its expiry changes *)
LEMMA ExpireIInv ==
  ASSUME IInv, NEW a \in Approvals, ApprovalExpires(a)
  PROVE  IInv'
<1> USE DEF IInv, ApprovalExpires
<1>1. TypeOK'
  <2>1. [approvals[a] EXCEPT !.expired = TRUE] \in Approval
    BY DEF TypeOK, Approval
  <2> QED
    BY <2>1 DEF TypeOK
<1>2. \A b \in Approvals : approvals[b] # None =>
        /\ approvals'[b] # None
        /\ approvals'[b].action = approvals[b].action
        /\ approvals'[b].decision = approvals[b].decision
        /\ approvals'[b].deployment_attempt = approvals[b].deployment_attempt
        /\ approvals'[b].consumed = approvals[b].consumed
  BY <1>1, NoneAssumption DEF TypeOK, Approval
<1>3. ApprovalsFit'
  BY <1>2 DEF ApprovalsFit, TypeOK, Attempt, Rollback
<1>4. AttemptsFit' /\ RollbacksFit'
  BY DEF AttemptsFit, RollbacksFit, Status
<1>5. \A c \in Calls : CallFits(c)'
  BY DEF CallFits, SnapshotRestorable
<1> QED
  BY <1>1, <1>3, <1>4, <1>5
-----------------------------------------------------------------------------
(* The approval an execution consumes is held by no record yet *)
LEMMA ConsumeFits ==
  ASSUME IInv, NEW a \in Approvals, NEW action, NEW k, Usable(a, action, k), Consume(a)
  PROVE  /\ approvals' \in [Approvals -> Approval \cup {None}]
         /\ \A b \in Approvals : approvals[b] # None =>
              /\ approvals'[b] # None
              /\ approvals'[b].action = approvals[b].action
              /\ approvals'[b].decision = approvals[b].decision
              /\ approvals'[b].deployment_attempt = approvals[b].deployment_attempt
              /\ approvals[b].consumed => approvals'[b].consumed
         /\ approvals'[a].consumed
         /\ \A j \in AttemptKeys : attempts[j] # None => attempts[j].approval # a
         /\ \A r \in RollbackKeys : rollbacks[r] # None => rollbacks[r].approval # a
<1> USE DEF IInv, Usable, Consume
<1>1. approvals[a] \in Approval
  BY DEF TypeOK
<1>2. [approvals[a] EXCEPT !.consumed = TRUE] \in Approval
  BY <1>1 DEF Approval
<1>3. approvals' = [approvals EXCEPT ![a] = [approvals[a] EXCEPT !.consumed = TRUE]]
  OBVIOUS
<1>4. approvals' \in [Approvals -> Approval \cup {None}]
  BY <1>2, <1>3 DEF TypeOK
<1>5. approvals'[a] # None
  BY <1>2, <1>3, NoneAssumption DEF TypeOK
<1>6. approvals'[a].consumed /\ approvals'[a].action = approvals[a].action
      /\ approvals'[a].decision = approvals[a].decision
      /\ approvals'[a].deployment_attempt = approvals[a].deployment_attempt
  BY <1>1, <1>3 DEF TypeOK, Approval
<1>7. \A b \in Approvals : b # a => approvals'[b] = approvals[b]
  BY <1>3 DEF TypeOK
<1> QED
  BY <1>4, <1>5, <1>6, <1>7 DEF ApprovalsFit

(* The intent of a deployment *)
LEMMA StartIInv ==
  ASSUME IInv, NEW c \in Calls, NEW k \in AttemptKeys, NEW a \in Approvals,
         NEW kind \in {"dry-run", "local-k3d"}, NEW pc,
         (kind = "dry-run" /\ pc = "dry_run") \/ (kind = "local-k3d" /\ pc = "credential"),
         StartAttempt(c, k, a, kind, pc)
  PROVE  IInv'
<1> USE DEF IInv, StartAttempt
<1> DEFINE row == [status |-> "RUNNING", approval |-> a, previous |-> None, observed |-> None]
           held == [NoCall EXCEPT !.pc = pc, !.key = k, !.wanted = k]
<1>1. row \in Attempt /\ row # None
  BY NoneAssumption DEF Attempt
<1>2. /\ attempts[k] = None
      /\ attempts' = [attempts EXCEPT ![k] = row]
      /\ attempts' \in [AttemptKeys -> Attempt \cup {None}]
      /\ attempts'[k] = row
      /\ \A j \in AttemptKeys : j # k => attempts'[j] = attempts[j]
  BY <1>1 DEF TypeOK
<1>3. held \in CallState /\ held.pc = pc /\ held.op = "APPLY_PLAN" /\ held.key = k /\ held.wanted = k
      /\ held.error = "NULL"
  BY DEF NoCall, CallState, Release
<1>4. /\ call' \in [Calls -> CallState]
      /\ call'[c] = held
      /\ \A d \in Calls : d # c => call'[d] = call[d]
  BY <1>3 DEF TypeOK
<1>5. /\ approvals' \in [Approvals -> Approval \cup {None}]
      /\ \A b \in Approvals : approvals[b] # None =>
           /\ approvals'[b] # None
           /\ approvals'[b].action = approvals[b].action
           /\ approvals'[b].decision = approvals[b].decision
           /\ approvals'[b].deployment_attempt = approvals[b].deployment_attempt
           /\ approvals[b].consumed => approvals'[b].consumed
      /\ approvals'[a].consumed
      /\ \A j \in AttemptKeys : attempts[j] # None => attempts[j].approval # a
  BY ConsumeFits
<1>6. TypeOK'
  BY <1>2, <1>4, <1>5 DEF TypeOK
<1>7. approvals[a] # None /\ approvals[a].action = "DEPLOY" /\ approvals[a].decision = "APPROVED"
  BY DEF Usable
<1>8. ApprovalsFit'
  BY <1>1, <1>2, <1>5, <1>7 DEF ApprovalsFit, TypeOK, Attempt, Rollback
<1>9. AttemptsFit'
  BY <1>1, <1>2 DEF AttemptsFit, Status
<1>10. RollbacksFit'
  <2>1. \A r \in RollbackKeys : rollbacks[r] = None
    BY DEF RollbacksFit, AttemptsFit, TypeOK, Rollback
  <2> QED
    BY <2>1 DEF RollbacksFit, Status
<1>11. CallFits(c)'
  BY <1>1, <1>2, <1>3, <1>4 DEF CallFits, SnapshotRestorable
<1>12. \A d \in Calls : d # c => CallFits(d)'
  BY <1>1, <1>2, <1>4, OtherCall
<1> QED
  BY <1>6, <1>8, <1>9, <1>10, <1>11, <1>12

(* The intent of a rollback *)
LEMMA StartRollbackIInv ==
  ASSUME IInv, NEW c \in Calls, NEW r \in RollbackKeys, NEW k \in AttemptKeys, NEW a \in Approvals,
         ExecuteLocalRollback(c, r, k, a)
  PROVE  IInv'
<1> USE DEF IInv, ExecuteLocalRollback
<1> DEFINE row == [status |-> "RUNNING", attempt |-> k, approval |-> a, observed |-> None]
           held == [NoCall EXCEPT !.pc = "credential", !.op = "ROLLBACK", !.key = r,
                                  !.wanted = attempts[k].previous]
<1>1. row \in Rollback /\ row # None
  BY NoneAssumption DEF Rollback
<1>2. /\ rollbacks[r] = None
      /\ rollbacks' \in [RollbackKeys -> Rollback \cup {None}]
      /\ rollbacks'[r] = row
      /\ \A q \in RollbackKeys : q # r => rollbacks'[q] = rollbacks[q]
  BY <1>1 DEF TypeOK
<1>3. attempts[k] \in Attempt
  BY DEF TypeOK, Status
<1>4. held \in CallState /\ held.pc = "credential" /\ held.op = "ROLLBACK" /\ held.key = r
      /\ held.wanted = attempts[k].previous /\ held.error = "NULL"
  BY <1>3 DEF NoCall, CallState, Attempt
<1>5. /\ call' \in [Calls -> CallState]
      /\ call'[c] = held
      /\ \A d \in Calls : d # c => call'[d] = call[d]
  BY <1>4 DEF TypeOK
<1>6. /\ approvals' \in [Approvals -> Approval \cup {None}]
      /\ \A b \in Approvals : approvals[b] # None =>
           /\ approvals'[b] # None
           /\ approvals'[b].action = approvals[b].action
           /\ approvals'[b].decision = approvals[b].decision
           /\ approvals'[b].deployment_attempt = approvals[b].deployment_attempt
           /\ approvals[b].consumed => approvals'[b].consumed
      /\ approvals'[a].consumed
      /\ \A q \in RollbackKeys : rollbacks[q] # None => rollbacks[q].approval # a
  BY ConsumeFits
<1>7. TypeOK'
  BY <1>2, <1>5, <1>6 DEF TypeOK
<1>8. approvals[a] # None /\ approvals[a].action = "ROLLBACK" /\ approvals[a].decision = "APPROVED"
      /\ approvals[a].deployment_attempt = k
  BY DEF Usable
<1>9. ApprovalsFit'
  BY <1>1, <1>2, <1>6, <1>8 DEF ApprovalsFit, TypeOK, Attempt, Rollback
<1>10. AttemptsFit'
  BY DEF AttemptsFit, Status
<1>11. RollbacksFit'
  BY <1>1, <1>2 DEF RollbacksFit, Status
<1>12. CallFits(c)'
  BY <1>1, <1>2, <1>4, <1>5 DEF CallFits
<1>13. \A d \in Calls : d # c => CallFits(d)'
  BY <1>1, <1>2, <1>5, OtherCall
<1> QED
  BY <1>7, <1>9, <1>10, <1>11, <1>12, <1>13
-----------------------------------------------------------------------------
(* A request that raises while it drives the target *)
LEMMA RaiseFits ==
  ASSUME IInv, NEW c \in Calls, NEW error \in {"FAILED", "UNKNOWN", "ROLLBACK_REQUIRED"},
         Raise(c, error), call[c].pc \in {"credential", "reading", "writing", "observing"},
         call[c].op = "ROLLBACK" => error # "ROLLBACK_REQUIRED",
         UNCHANGED <<state, environment, plan, approvals, attempts, rollbacks, target>>
  PROVE  IInv'
<1>1. call \in [Calls -> CallState]
  BY DEF IInv, TypeOK
<1>2. /\ call' \in [Calls -> CallState]
      /\ \A d \in Calls : d # c => call'[d] = call[d]
      /\ call'[c] = [call[c] EXCEPT !.pc = "raised", !.error = error]
  BY <1>1, RaiseTyped
<1>3. /\ call'[c].pc = "raised" /\ call'[c].error = error
      /\ call'[c].op = call[c].op /\ call'[c].key = call[c].key /\ call'[c].wanted = call[c].wanted
  BY <1>1, <1>2 DEF CallState
<1>4. CallFits(c)
  BY DEF IInv
<1>5. CallFits(c)'
  BY <1>3, <1>4 DEF CallFits
<1>6. \A d \in Calls : d # c => CallFits(d)'
  BY <1>2, OtherCall
<1>7. target' \in Release
  BY DEF IInv, TypeOK
<1> QED
  BY <1>2, <1>5, <1>6, <1>7, TablesUnchanged DEF IInv

(* The credential is issued, or is not *)
LEMMA CredentialIInv ==
  ASSUME IInv, NEW c \in Calls, IssueCredential(c)
  PROVE  IInv'
<1>1. CASE Raise(c, "FAILED")
  BY <1>1, RaiseFits DEF IssueCredential
<1>2. CASE SnapshotRestorable(c) /\ call' = [call EXCEPT ![c].pc = "reading"]
  <2>1. call \in [Calls -> CallState] /\ target \in Release /\ CallFits(c)
    BY DEF IInv, TypeOK
  <2>2. [call[c] EXCEPT !.pc = "reading"] \in CallState
    BY <2>1, CallFields
  <2>3. /\ call' \in [Calls -> CallState]
        /\ \A d \in Calls : d # c => call'[d] = call[d]
        /\ call'[c] = [call[c] EXCEPT !.pc = "reading"]
    BY <1>2, <2>1, <2>2
  <2>4. /\ call'[c].pc = "reading" /\ call'[c].error = call[c].error
        /\ call'[c].op = call[c].op /\ call'[c].key = call[c].key /\ call'[c].wanted = call[c].wanted
    BY <2>1, <2>3 DEF CallState
  <2>5. CallFits(c)'
    BY <1>2, <2>1, <2>4 DEF CallFits, SnapshotRestorable, IssueCredential
  <2>6. \A d \in Calls : d # c => CallFits(d)'
    BY <2>3, OtherCall DEF IssueCredential
  <2> QED
    BY <2>1, <2>3, <2>5, <2>6, TablesUnchanged DEF IInv, IssueCredential
<1> QED
  BY <1>1, <1>2 DEF IssueCredential

(* The release marker is read before the change *)
LEMMA ReadIInv ==
  ASSUME IInv, NEW c \in Calls, ReadTarget(c)
  PROVE  IInv'
<1>1. CASE Raise(c, "FAILED")
  BY <1>1, RaiseFits DEF ReadTarget
<1>2. CASE ~Raise(c, "FAILED")
  <2> DEFINE pc == IF target = call[c].wanted THEN "observing" ELSE "writing"
             held == [call[c] EXCEPT !.pc = pc, !.read = target, !.fresh = TRUE, !.previous = target]
  <2>1. call \in [Calls -> CallState] /\ target \in Release /\ CallFits(c)
    BY DEF IInv, TypeOK
  <2>2. held \in CallState /\ held.pc = pc /\ held.previous = target /\ held.error = call[c].error
        /\ held.op = call[c].op /\ held.key = call[c].key /\ held.wanted = call[c].wanted
    <3>1. [call[c] EXCEPT !.pc = pc] \in CallState
      BY <2>1, CallFields
    <3>2. [[call[c] EXCEPT !.pc = pc] EXCEPT !.read = target] \in CallState
      BY <2>1, <3>1, CallFields
    <3>3. [[[call[c] EXCEPT !.pc = pc] EXCEPT !.read = target] EXCEPT !.fresh = TRUE] \in CallState
      BY <3>2, CallFields
    <3>4. [[[[call[c] EXCEPT !.pc = pc] EXCEPT !.read = target] EXCEPT !.fresh = TRUE]
              EXCEPT !.previous = target] \in CallState
      BY <2>1, <3>3, CallFields
    <3>5. held \in CallState
      BY <3>4
    <3> QED
      BY <2>1, <3>5 DEF CallState
  <2>3. call' = [call EXCEPT ![c] = held]
    BY <1>2 DEF ReadTarget
  <2>4. /\ call' \in [Calls -> CallState]
        /\ \A d \in Calls : d # c => call'[d] = call[d]
        /\ call'[c] = held
    BY <2>1, <2>2, <2>3
  <2>5. CallFits(c)'
    BY <2>1, <2>2, <2>4 DEF CallFits, SnapshotRestorable, ReadTarget
  <2>6. \A d \in Calls : d # c => CallFits(d)'
    BY <2>4, OtherCall DEF ReadTarget
  <2> QED
    BY <2>1, <2>4, <2>5, <2>6, TablesUnchanged DEF IInv, ReadTarget
<1> QED
  BY <1>1, <1>2

(* Whoever changes the marker: requests keep all but the freshness of what they read *)
LEMMA OutdatedTyped ==
  ASSUME call \in [Calls -> CallState]
  PROVE  /\ Outdated(call) \in [Calls -> CallState]
         /\ \A d \in Calls : /\ ~Outdated(call)[d].fresh
                             /\ Outdated(call)[d].pc = call[d].pc
                             /\ Outdated(call)[d].op = call[d].op
                             /\ Outdated(call)[d].key = call[d].key
                             /\ Outdated(call)[d].wanted = call[d].wanted
                             /\ Outdated(call)[d].read = call[d].read
                             /\ Outdated(call)[d].error = call[d].error
<1>1. ASSUME NEW d \in Calls
      PROVE  /\ Outdated(call)[d] = [call[d] EXCEPT !.fresh = FALSE]
             /\ call[d] \in CallState
  BY DEF Outdated
<1>2. ASSUME NEW r \in CallState
      PROVE  LET o == [r EXCEPT !.fresh = FALSE]
             IN /\ o \in CallState /\ ~o.fresh /\ o.pc = r.pc /\ o.op = r.op /\ o.key = r.key
                /\ o.wanted = r.wanted /\ o.read = r.read /\ o.error = r.error
  BY DEF CallState
<1>3. \A d \in Calls : Outdated(call)[d] \in CallState
  BY <1>1, <1>2
<1>4. Outdated(call) \in [Calls -> CallState]
  BY <1>3 DEF Outdated
<1> QED
  BY <1>1, <1>2, <1>4

(* The marker is changed by someone else *)
LEMMA OtherReleaseIInv ==
  ASSUME IInv, OtherRelease
  PROVE  IInv'
<1>1. call \in [Calls -> CallState]
  BY DEF IInv, TypeOK
<1>2. call' \in [Calls -> CallState] /\ target' \in Release
  BY <1>1, OutdatedTyped DEF OtherRelease, Release
<1>3. \A d \in Calls : CallFits(d)'
  BY <1>1, OutdatedTyped DEF IInv, OtherRelease, CallFits, SnapshotRestorable
<1> QED
  BY <1>2, <1>3, TablesUnchanged DEF IInv, OtherRelease

(* The put of a request whose version is current changes the marker *)
LEMMA PutChanges ==
  ASSUME IInv, NEW c \in Calls, call[c].pc = "writing", target' = call[c].wanted,
         \/ call' = [Outdated(call) EXCEPT ![c].pc = "observing"]
         \/ \E error \in {"UNKNOWN", "FAILED"} :
              call' = [Outdated(call) EXCEPT ![c].pc = "raised", ![c].error = error],
         UNCHANGED <<state, environment, plan, approvals, attempts, rollbacks>>
  PROVE  IInv'
<1> DEFINE was == Outdated(call)
<1>1. call \in [Calls -> CallState] /\ CallFits(c)
  BY DEF IInv, TypeOK
<1>2. /\ was \in [Calls -> CallState]
      /\ \A d \in Calls : /\ ~was[d].fresh
                          /\ was[d].pc = call[d].pc /\ was[d].op = call[d].op
                          /\ was[d].key = call[d].key /\ was[d].wanted = call[d].wanted
                          /\ was[d].read = call[d].read /\ was[d].error = call[d].error
  BY <1>1, OutdatedTyped
<1>3. target' \in Release
  BY <1>1 DEF CallFits, CallState, Release
<1>4. PICK held \in CallState :
        /\ call' = [was EXCEPT ![c] = held]
        /\ held.pc \in {"observing", "raised"} /\ held.error \in {call[c].error, "UNKNOWN", "FAILED"}
        /\ held.pc = "raised" => held.error \in {"UNKNOWN", "FAILED"}
        /\ held.op = call[c].op /\ held.key = call[c].key /\ held.wanted = call[c].wanted
  <2> HIDE DEF was
  <2>1. CASE call' = [was EXCEPT ![c].pc = "observing"]
    <3>1. [was[c] EXCEPT !.pc = "observing"] \in CallState
      BY <1>2, CallFields
    <3>2. call' = [was EXCEPT ![c] = [was[c] EXCEPT !.pc = "observing"]]
      BY <2>1
    <3> WITNESS [was[c] EXCEPT !.pc = "observing"] \in CallState
    <3> QED
      BY <1>2, <3>2 DEF CallState
  <2>2. ASSUME NEW error \in {"UNKNOWN", "FAILED"}, call' = [was EXCEPT ![c].pc = "raised", ![c].error = error]
        PROVE  \E held \in CallState :
                 /\ call' = [was EXCEPT ![c] = held]
                 /\ held.pc \in {"observing", "raised"} /\ held.error \in {call[c].error, "UNKNOWN", "FAILED"}
                 /\ held.pc = "raised" => held.error \in {"UNKNOWN", "FAILED"}
                 /\ held.op = call[c].op /\ held.key = call[c].key /\ held.wanted = call[c].wanted
    <3>1. [was[c] EXCEPT !.pc = "raised"] \in CallState
      BY <1>2, CallFields
    <3>2. [[was[c] EXCEPT !.pc = "raised"] EXCEPT !.error = error] \in CallState
      BY <3>1, CallFields
    <3>3. call' = [was EXCEPT ![c] = [[was[c] EXCEPT !.pc = "raised"] EXCEPT !.error = error]]
      BY <2>2
    <3> WITNESS [[was[c] EXCEPT !.pc = "raised"] EXCEPT !.error = error] \in CallState
    <3> QED
      BY <1>2, <3>3 DEF CallState
  <2> QED
    BY <2>1, <2>2 DEF was
<1>5. call' \in [Calls -> CallState] /\ call'[c] = held /\ \A d \in Calls : d # c => call'[d] = was[d]
  BY <1>2, <1>4
<1>6. CallFits(c)'
  BY <1>1, <1>4, <1>5 DEF CallFits, SnapshotRestorable
<1>7. \A d \in Calls : d # c => CallFits(d)'
  BY <1>2, <1>5 DEF IInv, CallFits, SnapshotRestorable
<1> QED
  BY <1>3, <1>5, <1>6, <1>7, TablesUnchanged DEF IInv

LEMMA PutIInv ==
  ASSUME IInv, NEW c \in Calls, PutTarget(c)
  PROVE  IInv'
<1>1. CASE target' = target /\ \E error \in {"UNKNOWN", "FAILED"} : Raise(c, error)
  BY <1>1, RaiseFits DEF PutTarget
<1>2. CASE ~(target' = target /\ \E error \in {"UNKNOWN", "FAILED"} : Raise(c, error))
  BY <1>2, PutChanges DEF PutTarget
<1> QED
  BY <1>1, <1>2

(* The second read *)
LEMMA ObserveIInv ==
  ASSUME IInv, NEW c \in Calls, ObserveTarget(c)
  PROVE  IInv'
<1>1. CASE Raise(c, Unobserved(c)) \/ Raise(c, "FAILED")
  BY <1>1, RaiseFits DEF ObserveTarget, Unobserved
<1>2. CASE call' = [call EXCEPT ![c].pc = "finished", ![c].read = target]
  <2>1. call \in [Calls -> CallState] /\ target \in Release /\ CallFits(c)
    BY DEF IInv, TypeOK
  <2>2. [[call[c] EXCEPT !.pc = "finished"] EXCEPT !.read = target] \in CallState
    BY <2>1, CallFields
  <2>3. call' = [call EXCEPT ![c] = [[call[c] EXCEPT !.pc = "finished"] EXCEPT !.read = target]]
    BY <1>2
  <2>4. /\ call' \in [Calls -> CallState]
        /\ \A d \in Calls : d # c => call'[d] = call[d]
        /\ call'[c] = [[call[c] EXCEPT !.pc = "finished"] EXCEPT !.read = target]
    BY <2>1, <2>2, <2>3
  <2>5. /\ call'[c].pc = "finished" /\ call'[c].error = call[c].error /\ call'[c].read = target
        /\ call'[c].op = call[c].op /\ call'[c].key = call[c].key /\ call'[c].wanted = call[c].wanted
    BY <2>1, <2>4 DEF CallState
  <2>6. CallFits(c)'
    BY <2>1, <2>5, NoneAssumption DEF CallFits, SnapshotRestorable, ObserveTarget
  <2>7. \A d \in Calls : d # c => CallFits(d)'
    BY <2>4, OtherCall DEF ObserveTarget
  <2> QED
    BY <2>1, <2>4, <2>6, <2>7, TablesUnchanged DEF IInv, ObserveTarget
<1> QED
  BY <1>1, <1>2 DEF ObserveTarget
-----------------------------------------------------------------------------
(* How a running attempt ends.  One that moves the workflow finds it where no *)
(* other attempt has left it, which makes it the only one of its outcome.     *)
LEMMA AttemptEnds ==
  ASSUME IInv, NEW c \in Calls, NEW k \in AttemptKeys, NEW row \in Attempt,
         call[c].pc # "idle", attempts[k] # None, attempts[k].status = "RUNNING",
         row.approval = attempts[k].approval, row.status # "RUNNING",
         attempts' = [attempts EXCEPT ![k] = row], Return(c),
         UNCHANGED <<environment, plan, approvals, rollbacks, target>>,
         \/ row.status \in {"FAILED", "UNKNOWN"} /\ state' = state
         \/ row.status = "SUCCEEDED" /\ plan = "dry-run" /\ state' = state
         \/ /\ row.status = "SUCCEEDED" /\ row.observed = k
            /\ state = "AWAITING_DEPLOYMENT_APPROVAL" /\ state' = "DEPLOYED" /\ plan = "local-k3d"
         \/ /\ row.status = "ROLLBACK_REQUIRED"
            /\ state \in {"AWAITING_DEPLOYMENT_APPROVAL", "DEPLOYED"} /\ state' = "ROLLBACK_REQUIRED"
  PROVE  IInv'
<1>1. /\ TypeOK /\ ApprovalsFit /\ AttemptsFit /\ RollbacksFit
      /\ call \in [Calls -> CallState] /\ attempts \in [AttemptKeys -> Attempt \cup {None}]
  BY DEF IInv, TypeOK
<1>2. /\ attempts' \in [AttemptKeys -> Attempt \cup {None}]
      /\ attempts'[k] = row /\ row # None
      /\ \A j \in AttemptKeys : j # k => attempts'[j] = attempts[j]
  BY <1>1, NoneAssumption
<1>3. /\ call' \in [Calls -> CallState]
      /\ \A d \in Calls : d # c => call'[d] = call[d]
      /\ call'[c] = NoCall
  BY <1>1, ReturnTyped
<1>4. TypeOK'
  BY <1>1, <1>2, <1>3 DEF TypeOK
<1>5. ApprovalsFit'
  BY <1>1, <1>2 DEF ApprovalsFit
<1>6. /\ Status(attempts[k]) = "RUNNING"
      /\ \A j \in AttemptKeys : Status(attempts[j])' = IF j = k THEN row.status ELSE Status(attempts[j])
  BY <1>2 DEF Status
<1>7. AttemptsFit'
  BY <1>1, <1>2, <1>6 DEF AttemptsFit
<1>8. \A r \in RollbackKeys : rollbacks[r] # None =>
        rollbacks[r].attempt \in AttemptKeys /\ rollbacks[r].attempt # k
  BY <1>1, <1>6 DEF RollbacksFit, TypeOK, Rollback
<1>9. \A r \in RollbackKeys : Status(rollbacks[r])' = Status(rollbacks[r])
                              /\ (Status(rollbacks[r]) = "SUCCEEDED" => rollbacks[r] # None)
  BY DEF Status
<1>10. RollbacksFit'
  BY <1>1, <1>2, <1>6, <1>8, <1>9 DEF RollbacksFit
<1>11. CallFits(c)'
  BY <1>3 DEF CallFits, NoCall
<1>12. \A d \in Calls : d # c => CallFits(d)'
  BY <1>2, <1>3, OtherCall
<1> QED
  BY <1>4, <1>5, <1>7, <1>10, <1>11, <1>12 DEF IInv

(* How a running rollback ends *)
LEMMA RollbackEnds ==
  ASSUME IInv, NEW c \in Calls, NEW r \in RollbackKeys, NEW row \in Rollback,
         call[c].pc # "idle", rollbacks[r] # None, rollbacks[r].status = "RUNNING",
         row.approval = rollbacks[r].approval, row.attempt = rollbacks[r].attempt, row.status # "RUNNING",
         rollbacks' = [rollbacks EXCEPT ![r] = row], Return(c),
         UNCHANGED <<environment, plan, approvals, attempts, target>>,
         \/ row.status \in {"FAILED", "UNKNOWN"} /\ state' = state
         \/ /\ row.status = "SUCCEEDED" /\ state = "ROLLBACK_REQUIRED" /\ state' = "ROLLED_BACK"
            /\ row.observed = attempts[row.attempt].previous
            /\ row.observed \in {"previous", "other"}
  PROVE  IInv'
<1>1. /\ TypeOK /\ ApprovalsFit /\ AttemptsFit /\ RollbacksFit
      /\ call \in [Calls -> CallState] /\ rollbacks \in [RollbackKeys -> Rollback \cup {None}]
  BY DEF IInv, TypeOK
<1>2. /\ rollbacks' \in [RollbackKeys -> Rollback \cup {None}]
      /\ rollbacks'[r] = row /\ row # None
      /\ \A q \in RollbackKeys : q # r => rollbacks'[q] = rollbacks[q]
  BY <1>1, NoneAssumption
<1>3. /\ call' \in [Calls -> CallState]
      /\ \A d \in Calls : d # c => call'[d] = call[d]
      /\ call'[c] = NoCall
  BY <1>1, ReturnTyped
<1>4. TypeOK'
  BY <1>1, <1>2, <1>3 DEF TypeOK
<1>5. ApprovalsFit'
  BY <1>1, <1>2 DEF ApprovalsFit
<1>6. /\ Status(rollbacks[r]) = "RUNNING"
      /\ \A q \in RollbackKeys : Status(rollbacks[q])' = IF q = r THEN row.status ELSE Status(rollbacks[q])
      /\ \A j \in AttemptKeys : Status(attempts[j])' = Status(attempts[j])
  BY <1>2 DEF Status
<1>7. AttemptsFit'
  BY <1>1, <1>6 DEF AttemptsFit
<1>8. /\ \A q \in RollbackKeys : rollbacks'[q] # None =>
           rollbacks[q] # None /\ rollbacks'[q].attempt = rollbacks[q].attempt
      /\ \A q \in RollbackKeys : rollbacks'[q] # None => Status(attempts[rollbacks[q].attempt])' = "ROLLBACK_REQUIRED"
  BY <1>1, <1>2 DEF RollbacksFit, Status
<1>9. RollbacksFit'
  BY <1>1, <1>2, <1>6, <1>8 DEF RollbacksFit
<1>10. CallFits(c)'
  BY <1>3 DEF CallFits, NoCall
<1>11. \A d \in Calls : d # c => CallFits(d)'
  BY <1>2, <1>3, OtherCall
<1> QED
  BY <1>4, <1>5, <1>7, <1>9, <1>10, <1>11 DEF IInv

(* A request that ends and records nothing: a refused transition, a crash *)
LEMMA EndsWithoutTrace ==
  ASSUME IInv, NEW c \in Calls, Return(c),
         UNCHANGED <<state, environment, plan, approvals, attempts, rollbacks, target>>
  PROVE  IInv'
<1>1. call \in [Calls -> CallState] /\ target \in Release
  BY DEF IInv, TypeOK
<1>2. /\ call' \in [Calls -> CallState]
      /\ \A d \in Calls : d # c => call'[d] = call[d]
      /\ call'[c] = NoCall
  BY <1>1, ReturnTyped
<1>3. CallFits(c)'
  BY <1>2 DEF CallFits, NoCall
<1>4. \A d \in Calls : d # c => CallFits(d)'
  BY <1>2, OtherCall
<1> QED
  BY <1>1, <1>2, <1>3, <1>4, TablesUnchanged DEF IInv
-----------------------------------------------------------------------------
(* The end of a simulation *)
LEMMA FinishDryRunIInv ==
  ASSUME IInv, NEW c \in Calls, FinishDryRun(c)
  PROVE  IInv'
<1> DEFINE k == call[c].key
<1>1. k \in AttemptKeys /\ attempts[k] # None /\ attempts[k].status = "RUNNING" /\ plan = "dry-run"
  BY DEF IInv, CallFits, FinishDryRun
<1>2. attempts[k] \in Attempt
  BY <1>1 DEF IInv, TypeOK
<1>3. PICK outcome \in {"SUCCEEDED", "FAILED"} : attempts' = [attempts EXCEPT ![k].status = outcome]
  BY DEF FinishDryRun
<1> DEFINE row == [attempts[k] EXCEPT !.status = outcome]
<1>4. row \in Attempt /\ row.status = outcome /\ row.approval = attempts[k].approval
  BY <1>2 DEF Attempt
<1>5. attempts' = [attempts EXCEPT ![k] = row]
  BY <1>3
<1>6. /\ call[c].pc # "idle" /\ Return(c) /\ state' = state
      /\ UNCHANGED <<environment, plan, approvals, rollbacks, target>>
  BY DEF FinishDryRun
<1> HIDE DEF k, row
<1> QED
  BY <1>1, <1>3, <1>4, <1>5, <1>6, AttemptEnds

(* The regular end of a local deployment *)
LEMMA FinishDeploymentIInv ==
  ASSUME IInv, NEW c \in Calls, FinishDeployment(c)
  PROVE  IInv'
<1> DEFINE k == call[c].key
           verified == call[c].read = call[c].wanted
           next == IF verified THEN "DEPLOYED" ELSE "ROLLBACK_REQUIRED"
           outcome == IF verified THEN "SUCCEEDED" ELSE "ROLLBACK_REQUIRED"
           row == [[[attempts[k] EXCEPT !.status = outcome] EXCEPT !.previous = call[c].previous]
                     EXCEPT !.observed = call[c].read]
<1>1. /\ k \in AttemptKeys /\ attempts[k] # None /\ call[c].wanted = k /\ plan = "local-k3d"
      /\ call[c].pc # "idle" /\ Return(c)
      /\ UNCHANGED <<environment, plan, approvals, rollbacks, target>>
  BY DEF IInv, CallFits, FinishDeployment
<1>2. CASE attempts[k].status = "RUNNING" /\ TransitionAllowed(state, next)
  <2>1. attempts[k] \in Attempt /\ call[c] \in CallState
    BY <1>1 DEF IInv, TypeOK
  <2>2. call[c].previous \in Release \cup {None} /\ call[c].read \in Release \cup {None}
    BY <2>1 DEF CallState
  <2>3. outcome \in {"SUCCEEDED", "ROLLBACK_REQUIRED"}
    OBVIOUS
  <2>4. [attempts[k] EXCEPT !.status = outcome] \in Attempt
    BY <2>1, <2>3 DEF Attempt
  <2>5. [[attempts[k] EXCEPT !.status = outcome] EXCEPT !.previous = call[c].previous] \in Attempt
    BY <2>2, <2>4 DEF Attempt
  <2>6. row \in Attempt
    BY <2>2, <2>5 DEF Attempt
  <2>7. row.status = outcome /\ row.approval = attempts[k].approval /\ row.observed = call[c].read
    BY <2>1 DEF Attempt
  <2>8. attempts' = [attempts EXCEPT ![k] = row] /\ state' = next
    BY <1>2 DEF FinishDeployment
  <2>9. state \in {"MERGED", "AWAITING_DEPLOYMENT_APPROVAL", "REJECTED", "DEPLOYED", "ROLLBACK_REQUIRED",
                   "ROLLED_BACK"}
    BY DEF IInv, TypeOK
  <2>10. \/ /\ row.status = "SUCCEEDED" /\ row.observed = k
            /\ state = "AWAITING_DEPLOYMENT_APPROVAL" /\ state' = "DEPLOYED"
         \/ /\ row.status = "ROLLBACK_REQUIRED"
            /\ state \in {"AWAITING_DEPLOYMENT_APPROVAL", "DEPLOYED"} /\ state' = "ROLLBACK_REQUIRED"
    <3>1. CASE verified
      <4>1. outcome = "SUCCEEDED" /\ next = "DEPLOYED"
        BY <3>1
      <4> HIDE DEF row, outcome, next
      <4> QED
        BY <1>1, <1>2, <2>7, <2>8, <2>9, <3>1, <4>1, Moves
    <3>2. CASE ~verified
      <4>1. outcome = "ROLLBACK_REQUIRED" /\ next = "ROLLBACK_REQUIRED"
        BY <3>2
      <4> HIDE DEF row, outcome, next
      <4> QED
        BY <1>2, <2>7, <2>8, <2>9, <4>1, Moves
    <3> QED
      BY <3>1, <3>2
  <2> HIDE DEF k, row
  <2> QED
    BY <1>1, <1>2, <2>6, <2>7, <2>8, <2>10, AttemptEnds
<1>3. CASE ~(attempts[k].status = "RUNNING" /\ TransitionAllowed(state, next))
  BY <1>1, <1>3, EndsWithoutTrace DEF FinishDeployment
<1> QED
  BY <1>2, <1>3

(* _fail_local_deployment *)
LEMMA FailDeploymentIInv ==
  ASSUME IInv, NEW c \in Calls, FailLocalDeployment(c)
  PROVE  IInv'
<1> DEFINE k == call[c].key
           recorded == /\ attempts[k].status = "RUNNING"
                       /\ call[c].error = "ROLLBACK_REQUIRED" => TransitionAllowed(state, "ROLLBACK_REQUIRED")
           row == [attempts[k] EXCEPT !.status = call[c].error]
<1>1. /\ k \in AttemptKeys /\ attempts[k] # None /\ call[c].pc # "idle" /\ Return(c)
      /\ UNCHANGED <<environment, plan, approvals, rollbacks, target>>
  BY DEF IInv, CallFits, FailLocalDeployment
<1>2. CASE recorded
  <2>1. attempts[k] \in Attempt /\ call[c] \in CallState
    BY <1>1 DEF IInv, TypeOK
  <2>2. call[c].error \in {"FAILED", "UNKNOWN", "ROLLBACK_REQUIRED"}
    BY <2>1 DEF IInv, CallFits, FailLocalDeployment, CallState
  <2>3. row \in Attempt /\ row.status = call[c].error /\ row.approval = attempts[k].approval
    BY <2>1, <2>2 DEF Attempt
  <2>4. attempts' = [attempts EXCEPT ![k] = row]
    BY <1>2 DEF FailLocalDeployment
  <2>5. state' = IF call[c].error = "ROLLBACK_REQUIRED" THEN "ROLLBACK_REQUIRED" ELSE state
    BY <1>2 DEF FailLocalDeployment
  <2>6. state \in {"MERGED", "AWAITING_DEPLOYMENT_APPROVAL", "REJECTED", "DEPLOYED", "ROLLBACK_REQUIRED",
                   "ROLLED_BACK"}
    BY DEF IInv, TypeOK
  <2>7. call[c].error = "ROLLBACK_REQUIRED" => state \in {"AWAITING_DEPLOYMENT_APPROVAL", "DEPLOYED"}
    BY <1>2, <2>6, Moves
  <2>8. attempts[k].status = "RUNNING"
    BY <1>2
  <2> HIDE DEF k, row, recorded
  <2> QED
    BY <1>1, <2>2, <2>3, <2>4, <2>5, <2>7, <2>8, AttemptEnds
<1>3. CASE ~recorded
  BY <1>1, <1>3, EndsWithoutTrace DEF FailLocalDeployment
<1> QED
  BY <1>2, <1>3

(* The regular end of a rollback: what it read back is the snapshot, and the  *)
(* snapshot was found to be a release that is not this plan's                 *)
LEMMA FinishRollbackIInv ==
  ASSUME IInv, NEW c \in Calls, FinishRollback(c)
  PROVE  IInv'
<1> DEFINE r == call[c].key
           recovered == call[c].read = call[c].wanted
           recorded == rollbacks[r].status = "RUNNING" /\ (recovered => TransitionAllowed(state, "ROLLED_BACK"))
           outcome == IF recovered THEN "SUCCEEDED" ELSE "FAILED"
           row == [[rollbacks[r] EXCEPT !.status = outcome] EXCEPT !.observed = call[c].read]
<1>1. /\ r \in RollbackKeys /\ rollbacks[r] # None /\ call[c].pc # "idle" /\ Return(c)
      /\ call[c].wanted = attempts[rollbacks[r].attempt].previous
      /\ SnapshotRestorable(c) /\ call[c].read # None
      /\ UNCHANGED <<environment, plan, approvals, attempts, target>>
  BY DEF IInv, CallFits, FinishRollback
<1>2. CASE recorded
  <2>1. rollbacks[r] \in Rollback /\ call[c] \in CallState
    BY <1>1 DEF IInv, TypeOK
  <2>2. call[c].read \in Release
    BY <1>1, <2>1 DEF CallState
  <2>3. outcome \in {"SUCCEEDED", "FAILED"}
    OBVIOUS
  <2>4. [rollbacks[r] EXCEPT !.status = outcome] \in Rollback
    BY <2>1, <2>3 DEF Rollback
  <2>5. row \in Rollback
    BY <2>2, <2>4 DEF Rollback
  <2>6. /\ row.status = outcome /\ row.approval = rollbacks[r].approval
        /\ row.attempt = rollbacks[r].attempt /\ row.observed = call[c].read
    BY <2>1 DEF Rollback
  <2>7. /\ rollbacks' = [rollbacks EXCEPT ![r] = row]
        /\ state' = IF recovered THEN "ROLLED_BACK" ELSE state
    BY <1>2 DEF FinishRollback
  <2>8. state \in {"MERGED", "AWAITING_DEPLOYMENT_APPROVAL", "REJECTED", "DEPLOYED", "ROLLBACK_REQUIRED",
                   "ROLLED_BACK"}
    BY DEF IInv, TypeOK
  <2>9. \/ row.status = "FAILED" /\ state' = state
        \/ /\ row.status = "SUCCEEDED" /\ state = "ROLLBACK_REQUIRED" /\ state' = "ROLLED_BACK"
           /\ row.observed = attempts[row.attempt].previous
           /\ row.observed \in {"previous", "other"}
    <3>1. CASE recovered
      <4>1. outcome = "SUCCEEDED" /\ state' = "ROLLED_BACK" /\ TransitionAllowed(state, "ROLLED_BACK")
        BY <1>2, <2>7, <3>1
      <4>2. state = "ROLLBACK_REQUIRED"
        BY <2>8, <4>1, Moves
      <4>3. call[c].read \in {"previous", "other"}
        BY <1>1, <2>2, <3>1 DEF FinishRollback, SnapshotRestorable, Release
      <4> HIDE DEF row, outcome
      <4> QED
        BY <1>1, <2>6, <3>1, <4>1, <4>2, <4>3
    <3>2. CASE ~recovered
      BY <2>6, <2>7, <3>2
    <3> QED
      BY <3>1, <3>2
  <2>10. rollbacks[r].status = "RUNNING"
    BY <1>2
  <2> HIDE DEF r, row, recorded
  <2> QED
    BY <1>1, <2>5, <2>6, <2>7, <2>9, <2>10, RollbackEnds
<1>3. CASE ~recorded
  BY <1>1, <1>3, EndsWithoutTrace DEF FinishRollback
<1> QED
  BY <1>2, <1>3

(* _fail_local_rollback *)
LEMMA FailRollbackIInv ==
  ASSUME IInv, NEW c \in Calls, FailLocalRollback(c)
  PROVE  IInv'
<1> DEFINE r == call[c].key
           row == [rollbacks[r] EXCEPT !.status = call[c].error]
<1>1. /\ r \in RollbackKeys /\ rollbacks[r] # None /\ call[c].pc # "idle" /\ Return(c)
      /\ UNCHANGED <<state, environment, plan, approvals, attempts, target>>
  BY DEF IInv, CallFits, FailLocalRollback
<1>2. CASE rollbacks[r].status = "RUNNING"
  <2>1. rollbacks[r] \in Rollback /\ call[c] \in CallState
    BY <1>1 DEF IInv, TypeOK
  <2>2. call[c].error \in {"FAILED", "UNKNOWN"}
    BY <2>1 DEF IInv, CallFits, FailLocalRollback, CallState
  <2>3. /\ row \in Rollback /\ row.status = call[c].error
        /\ row.approval = rollbacks[r].approval /\ row.attempt = rollbacks[r].attempt
    BY <2>1, <2>2 DEF Rollback
  <2>4. rollbacks' = [rollbacks EXCEPT ![r] = row]
    BY <1>2 DEF FailLocalRollback
  <2> HIDE DEF r, row
  <2> QED
    BY <1>1, <1>2, <2>2, <2>3, <2>4, RollbackEnds
<1>3. CASE rollbacks[r].status # "RUNNING"
  BY <1>1, <1>3, EndsWithoutTrace DEF FailLocalRollback
<1> QED
  BY <1>2, <1>3
-----------------------------------------------------------------------------
(* Every step of the system keeps the invariant *)
LEMMA NextIInv == IInv /\ [Next]_vars => IInv'
<1> SUFFICES ASSUME IInv, [Next]_vars PROVE IInv'
  OBVIOUS
<1>1. CASE \E config \in EnvironmentConfig : RegisterDeploymentEnvironment(config)
  BY <1>1, RegisterIInv
<1>2. CASE CreateDeploymentPlan
  BY <1>2, PlanIInv
<1>3. CASE \E a \in Approvals, decision \in {"APPROVED", "REJECTED"} :
             ApproveDeploy(a, decision) \/ \E k \in AttemptKeys : ApproveRollback(a, k, decision)
  BY <1>3, ApproveIInv
<1>4. CASE \E a \in Approvals : ApprovalExpires(a)
  BY <1>4, ExpireIInv
<1>5. ASSUME NEW c \in Calls, CallStep(c) PROVE IInv'
  <2>1. CASE \E k \in AttemptKeys, a \in Approvals :
               ExecuteDeploymentDryRun(c, k, a) \/ ExecuteLocalDeployment(c, k, a)
    BY <2>1, StartIInv DEF ExecuteDeploymentDryRun, ExecuteLocalDeployment
  <2>2. CASE \E r \in RollbackKeys, k \in AttemptKeys, a \in Approvals : ExecuteLocalRollback(c, r, k, a)
    BY <2>2, StartRollbackIInv
  <2>3. CASE FinishDryRun(c)
    BY <2>3, FinishDryRunIInv
  <2>4. CASE IssueCredential(c)
    BY <2>4, CredentialIInv
  <2>5. CASE ReadTarget(c)
    BY <2>5, ReadIInv
  <2>6. CASE PutTarget(c)
    BY <2>6, PutIInv
  <2>7. CASE ObserveTarget(c)
    BY <2>7, ObserveIInv
  <2>8. CASE FinishDeployment(c)
    BY <2>8, FinishDeploymentIInv
  <2>9. CASE FailLocalDeployment(c)
    BY <2>9, FailDeploymentIInv
  <2>10. CASE FinishRollback(c)
    BY <2>10, FinishRollbackIInv
  <2>11. CASE FailLocalRollback(c)
    BY <2>11, FailRollbackIInv
  <2>12. CASE Crash(c)
    BY <2>12, EndsWithoutTrace DEF Crash
  <2> QED
    BY <1>5, <2>1, <2>2, <2>3, <2>4, <2>5, <2>6, <2>7, <2>8, <2>9, <2>10, <2>11, <2>12 DEF CallStep
<1>6. CASE OtherRelease
  BY <1>6, OtherReleaseIInv
<1>7. CASE UNCHANGED vars
  <2>1. TypeOK'
    BY <1>7 DEF vars, IInv, TypeOK
  <2>2. ApprovalsFit'
    BY <1>7 DEF vars, IInv, ApprovalsFit
  <2>3. AttemptsFit'
    BY <1>7 DEF vars, IInv, AttemptsFit
  <2>4. RollbacksFit'
    BY <1>7 DEF vars, IInv, RollbacksFit
  <2>5. ASSUME NEW c \in Calls PROVE CallFits(c)'
    BY <1>7 DEF vars, IInv, CallFits, SnapshotRestorable
  <2> QED
    BY <2>1, <2>2, <2>3, <2>4, <2>5 DEF IInv
<1> QED
  BY <1>1, <1>2, <1>3, <1>4, <1>5, <1>6, <1>7 DEF Next

(* IInv is an inductive invariant of the deployment stage *)
THEOREM Inductive == Spec => []IInv
BY InitIInv, NextIInv, PTL DEF Spec

(* The statuses of attempts, rollbacks and approvals stay within their tables *)
(* for any number of requests: an adapter's exception that only an attempt    *)
(* can record is never recorded on a rollback.                                *)
THEOREM TypeCorrect == Spec => []TypeOK
<1>1. IInv => TypeOK
  BY DEF IInv
<1> QED
  BY <1>1, Inductive, PTL

(* However many executions run at once, the workflow is DEPLOYED by one local *)
(* attempt at most, and one that read back its own release.                   *)
THEOREM DeployedVerified == Spec => []DeployedIsVerified
<1>1. IInv => DeployedIsVerified
  <2> SUFFICES ASSUME IInv PROVE DeployedIsVerified
    OBVIOUS
  <2> DEFINE succeeded == {k \in AttemptKeys : Status(attempts[k]) = "SUCCEEDED"}
  <2>1. AttemptsFit
    BY DEF IInv
  <2>2. plan = "local-k3d" => Cardinality(succeeded) <= 1
    <3> SUFFICES ASSUME plan = "local-k3d" PROVE Cardinality(succeeded) <= 1
      OBVIOUS
    <3>1. \A a, b \in succeeded : a = b
      BY <2>1 DEF AttemptsFit
    <3> HIDE DEF succeeded
    <3> QED
      BY <3>1, AtMostOne
  <2> QED
    BY <2>1, <2>2 DEF AttemptsFit, DeployedIsVerified
<1> QED
  BY <1>1, Inductive, PTL

(* However attempts end, at most one of them contains the workflow, and it is *)
(* contained exactly if one does: FinishDeployment and FailLocalDeployment    *)
(* record ROLLBACK_REQUIRED only in the transaction that moves the workflow.  *)
THEOREM Contained == Spec => []ContainedByOneAttempt
<1>1. IInv => ContainedByOneAttempt
  <2> SUFFICES ASSUME IInv PROVE ContainedByOneAttempt
    OBVIOUS
  <2> DEFINE contained == {k \in AttemptKeys : Status(attempts[k]) = "ROLLBACK_REQUIRED"}
  <2>1. AttemptsFit
    BY DEF IInv
  <2>2. Cardinality(contained) <= 1
    <3>1. \A a, b \in contained : a = b
      BY <2>1 DEF AttemptsFit
    <3> HIDE DEF contained
    <3> QED
      BY <3>1, AtMostOne
  <2>3. state \in {"ROLLBACK_REQUIRED", "ROLLED_BACK"} <=> contained # {}
    BY <2>1 DEF AttemptsFit
  <2> QED
    BY <2>2, <2>3 DEF ContainedByOneAttempt
<1> QED
  BY <1>1, Inductive, PTL

(* A workflow is ROLLED_BACK exactly if one rollback succeeded, and it read   *)
(* back the snapshot of the contained attempt, never a release of this plan.  *)
THEOREM RolledBack == Spec => []RolledBackIsRestored
<1>1. IInv => RolledBackIsRestored
  <2> SUFFICES ASSUME IInv PROVE RolledBackIsRestored
    OBVIOUS
  <2> DEFINE succeeded == {r \in RollbackKeys : Status(rollbacks[r]) = "SUCCEEDED"}
  <2>1. RollbacksFit
    BY DEF IInv
  <2>2. Cardinality(succeeded) <= 1
    <3>1. \A a, b \in succeeded : a = b
      BY <2>1 DEF RollbacksFit
    <3> HIDE DEF succeeded
    <3> QED
      BY <3>1, AtMostOne
  <2>3. state = "ROLLED_BACK" <=> succeeded # {}
    BY <2>1 DEF RollbacksFit
  <2> QED
    BY <2>1, <2>2, <2>3 DEF RollbacksFit, RolledBackIsRestored
<1> QED
  BY <1>1, Inductive, PTL

(* No approval is spent twice, whatever requests are concurrent: the intent   *)
(* that reads it as unconsumed consumes it in the same transaction.           *)
THEOREM SpentOnce == Spec => []ApprovalSpentOnce
<1>1. IInv => ApprovalSpentOnce
  BY DEF IInv, ApprovalsFit, ApprovalSpentOnce
<1> QED
  BY <1>1, Inductive, PTL

(* The update carries the version of the read, so what it replaces is what    *)
(* the attempt records as previous, whoever else writes the marker.           *)
THEOREM WrittenOverRead == Spec => WrittenOverWhatWasRead
<1> DEFINE Replaces(c) == (call[c].pc = "writing" /\ call'[c].pc # "writing" /\ target' # target)
                            => target = call[c].previous
<1>1. IInv /\ [Next]_vars => [\A c \in Calls : Replaces(c)]_vars
  <2> SUFFICES ASSUME IInv, Next, target' # target, NEW c \in Calls,
                      call[c].pc = "writing", call'[c].pc # "writing"
               PROVE  target = call[c].previous
    BY DEF vars
  <2>1. call \in [Calls -> CallState] /\ CallFits(c)
    BY DEF IInv, TypeOK
  <2>2. \A d \in Calls : Outdated(call)[d].pc = call[d].pc
    BY <2>1, OutdatedTyped
  <2>3. CASE OtherRelease
    BY <2>2, <2>3 DEF OtherRelease
  <2>4. ASSUME NEW d \in Calls, PutTarget(d) PROVE target = call[c].previous
    <3>1. call[d].fresh /\ \A e \in Calls : e # d => call'[e] = Outdated(call)[e]
      BY <2>4 DEF PutTarget, Outdated
    <3>2. d = c
      BY <2>2, <3>1
    <3> QED
      BY <2>1, <3>1, <3>2 DEF CallFits
  <2>5. OtherRelease \/ \E d \in Calls : PutTarget(d)
    <3>1. ASSUME NEW config \in EnvironmentConfig PROVE ~RegisterDeploymentEnvironment(config)
      BY DEF RegisterDeploymentEnvironment
    <3>2. ~CreateDeploymentPlan
      BY DEF CreateDeploymentPlan
    <3>3. ASSUME NEW a \in Approvals, NEW decision \in {"APPROVED", "REJECTED"}, NEW k \in AttemptKeys
          PROVE  ~ApproveRollback(a, k, decision)
      BY DEF ApproveRollback
    <3>4. ASSUME NEW a \in Approvals
          PROVE  ~ApprovalExpires(a) /\ \A decision \in {"APPROVED", "REJECTED"} : ~ApproveDeploy(a, decision)
      BY DEF ApprovalExpires, ApproveDeploy
    <3>5. ASSUME NEW d \in Calls, CallStep(d) PROVE PutTarget(d)
      <4>1. \A k \in AttemptKeys, a \in Approvals :
              ~ExecuteDeploymentDryRun(d, k, a) /\ ~ExecuteLocalDeployment(d, k, a)
        BY DEF ExecuteDeploymentDryRun, ExecuteLocalDeployment, StartAttempt
      <4>2. \A r \in RollbackKeys, k \in AttemptKeys, a \in Approvals : ~ExecuteLocalRollback(d, r, k, a)
        BY DEF ExecuteLocalRollback
      <4>3. ~FinishDryRun(d) /\ ~IssueCredential(d)
        BY DEF FinishDryRun, IssueCredential
      <4>4. ~ReadTarget(d) /\ ~ObserveTarget(d) /\ ~Crash(d)
        BY DEF ReadTarget, ObserveTarget, Crash
      <4>5. ~FinishDeployment(d) /\ ~FailLocalDeployment(d)
        BY DEF FinishDeployment, FailLocalDeployment
      <4>6. ~FinishRollback(d) /\ ~FailLocalRollback(d)
        BY DEF FinishRollback, FailLocalRollback
      <4> QED
        BY <3>5, <4>1, <4>2, <4>3, <4>4, <4>5, <4>6 DEF CallStep
    <3> QED
      BY <3>1, <3>2, <3>3, <3>4, <3>5 DEF Next
  <2> QED
    BY <2>3, <2>4, <2>5
<1> QED
  BY <1>1, Inductive, PTL DEF Spec, WrittenOverWhatWasRead
=============================================================================
