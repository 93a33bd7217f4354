--------------------------- MODULE WorkflowStates ---------------------------
(***************************************************************************)
(* The vocabulary every part of the control plane shares: the states of a  *)
(* workflow and the allowlist of transitions between them                  *)
(* (state_machine.py), the kinds of task and the workflow state each kind  *)
(* of task belongs to (domain.py, workflow_tasks.py).                      *)
(***************************************************************************)

(* domain.py: WorkflowState *)
WorkflowState ==
  {"CREATED", "PLANNING", "ARCHITECTURE_REVIEW", "APPROVED_FOR_IMPLEMENTATION",
   "IMPLEMENTING", "TESTING", "SECURITY_REVIEW", "CODE_REVIEW",
   "AWAITING_HUMAN_APPROVAL", "APPROVED", "MERGED",
   "AWAITING_DEPLOYMENT_APPROVAL", "DEPLOYED", "ROLLBACK_REQUIRED",
   "ROLLED_BACK", "BLOCKED", "FAILED", "REJECTED", "CANCELLED"}

(* state_machine.py: ALLOWED_TRANSITIONS *)
ALLOWED_TRANSITIONS ==
  [s \in WorkflowState |->
    CASE s = "CREATED"                      -> {"PLANNING", "BLOCKED", "CANCELLED"}
      [] s = "PLANNING"                     -> {"ARCHITECTURE_REVIEW", "BLOCKED", "FAILED", "CANCELLED"}
      [] s = "ARCHITECTURE_REVIEW"          -> {"APPROVED_FOR_IMPLEMENTATION", "BLOCKED", "FAILED", "CANCELLED"}
      [] s = "APPROVED_FOR_IMPLEMENTATION"  -> {"IMPLEMENTING", "CANCELLED"}
      [] s = "IMPLEMENTING"                 -> {"TESTING", "BLOCKED", "FAILED", "CANCELLED"}
      [] s = "TESTING"                      -> {"SECURITY_REVIEW", "IMPLEMENTING", "BLOCKED", "FAILED", "CANCELLED"}
      [] s = "SECURITY_REVIEW"              -> {"CODE_REVIEW", "IMPLEMENTING", "BLOCKED", "FAILED", "CANCELLED"}
      [] s = "CODE_REVIEW"                  -> {"AWAITING_HUMAN_APPROVAL", "IMPLEMENTING",
                                                "BLOCKED", "FAILED", "CANCELLED"}
      [] s = "AWAITING_HUMAN_APPROVAL"      -> {"APPROVED", "REJECTED", "CANCELLED"}
      [] s = "APPROVED"                     -> {"MERGED", "CANCELLED"}
      [] s = "MERGED"                       -> {"AWAITING_DEPLOYMENT_APPROVAL"}
      [] s = "AWAITING_DEPLOYMENT_APPROVAL" -> {"DEPLOYED", "REJECTED", "ROLLBACK_REQUIRED"}
      [] s = "DEPLOYED"                     -> {"ROLLBACK_REQUIRED"}
      [] s = "ROLLBACK_REQUIRED"            -> {"ROLLED_BACK"}
      [] s = "ROLLED_BACK"                  -> {}
      [] s = "BLOCKED"                      -> {"PLANNING", "ARCHITECTURE_REVIEW", "IMPLEMENTING", "TESTING",
                                                "SECURITY_REVIEW", "CODE_REVIEW", "FAILED", "REJECTED", "CANCELLED"}
      [] s = "FAILED"                       -> {}
      [] s = "REJECTED"                     -> {}
      [] s = "CANCELLED"                    -> {}]

(* Mutant: the allowlist lacks the block of a code review *)
TransitionAllowedNoBlock(current, target) ==
  target \in ALLOWED_TRANSITIONS[current] /\ <<current, target>> # <<"CODE_REVIEW", "BLOCKED">>

(* state_machine.py: assert_transition_allowed, as a predicate *)
TransitionAllowed(current, target) == target \in ALLOWED_TRANSITIONS[current]

(* domain.py: TaskKind *)
TaskKind == {"PLAN", "ARCHITECTURE_REVIEW", "IMPLEMENT", "TEST", "SECURITY_REVIEW", "CODE_REVIEW"}

(* The kinds of task that examine the output of an earlier task *)
ReviewKind == TaskKind \ {"PLAN", "IMPLEMENT"}

(* workflow_tasks.py: REVIEW_PRODUCER_KIND, the kind of task whose output a  *)
(* reviewing task examines                                                   *)
REVIEW_PRODUCER_KIND ==
  [kind \in ReviewKind |->
    CASE kind = "ARCHITECTURE_REVIEW" -> "PLAN"
      [] kind = "TEST"                -> "IMPLEMENT"
      [] kind = "SECURITY_REVIEW"     -> "IMPLEMENT"
      [] kind = "CODE_REVIEW"         -> "IMPLEMENT"]

(* workflow_tasks.py: TASK_WORKFLOW_STATE *)
TASK_WORKFLOW_STATE ==
  [kind \in TaskKind |->
    CASE kind = "PLAN"                -> "PLANNING"
      [] kind = "ARCHITECTURE_REVIEW" -> "ARCHITECTURE_REVIEW"
      [] kind = "IMPLEMENT"           -> "IMPLEMENTING"
      [] kind = "TEST"                -> "TESTING"
      [] kind = "SECURITY_REVIEW"     -> "SECURITY_REVIEW"
      [] kind = "CODE_REVIEW"         -> "CODE_REVIEW"]

(* The states in which a task is queued or being executed *)
WorkState == {TASK_WORKFLOW_STATE[kind] : kind \in TaskKind}
=============================================================================
