------------------------ MODULE WorkflowTasksProofs ------------------------
(***************************************************************************)
(* Proofs about WorkflowTasks, for any sets of workflows, workers, tokens, *)
(* providers and revisions and any bounds.                                 *)
(*                                                                         *)
(* The inductive invariant IInv relates the row of a workflow to its       *)
(* tasks.  TypeOK alone is not inductive: a transition only keeps a row a  *)
(* row if there is a row, so a task must imply that its workflow exists,   *)
(* and a worker's handle (workflow and position) must point at rows that   *)
(* exist.  LiveTaskDrivesState is not inductive either: that a finished    *)
(* task leads to exactly one next task depends on the task being the last  *)
(* one, and on what a finished last task says about the state.             *)
(*                                                                         *)
(* The last sections are lemmas on the refinement mapping to the lifecycle *)
(* of a workflow, for LifecycleProofs.                                     *)
(***************************************************************************)
EXTENDS WorkflowTasks, TLAPS

(* What the status of the last task says about the state of the workflow *)
StateFits(state, task) ==
  /\ task.status \in LiveStatus => state = TASK_WORKFLOW_STATE[task.kind]
  /\ task.status = "SUCCEEDED" => state \in {"AWAITING_HUMAN_APPROVAL", "APPROVED", "REJECTED", "CANCELLED"}
  /\ task.status \in {"FAILED", "RECONCILED"} => state = "FAILED"
  /\ task.status = "BLOCKED" => state \in {"BLOCKED", "CANCELLED"}
  /\ task.status = "CANCELLED" => state = "CANCELLED"

(* The kinds of task that need a candidate revision to be recorded *)
NeedsCandidate == {"TEST", "SECURITY_REVIEW", "CODE_REVIEW"}

(* A grant is in force exactly while its task is live *)
GrantFits(task) == task.grant # "INACTIVE" <=> task.status \in LiveStatus

(* The row of a workflow and the tasks it has *)
Consistent(row, ts) ==
  /\ row = None => ts = <<>>
  /\ \A i \in 1 .. Len(ts) : GrantFits(ts[i])
  /\ \A i \in 1 .. Len(ts) : i < Len(ts) => ts[i].status \in {"SUCCEEDED", "RECONCILED"}
  /\ row # None =>
       /\ ts = <<>> => row.state \in {"BLOCKED", "REJECTED", "CANCELLED"}
       /\ row.block_reason = "INPUT_DISPOSITION_REQUIRED" => ts = <<>>
       /\ ts # <<>> => /\ StateFits(row.state, ts[Len(ts)])
                       /\ ts[Len(ts)].kind \in NeedsCandidate => row.candidate_revision # None

(* A worker's handle points at a task *)
HandleFits(p) ==
  worker[p].pc # "idle" => worker[p].wf \in Workflows /\ worker[p].pos \in Positions(worker[p].wf)

IInv ==
  /\ TypeOK
  /\ \A w \in Workflows : Consistent(workflow[w], tasks[w])
  /\ \A p \in Workers : HandleFits(p)
-----------------------------------------------------------------------------
(* Sequences *)

(* Writing an element of a sequence keeps its length and the other elements *)
LEMMA PutInSeq ==
  ASSUME NEW S, NEW s \in Seq(S), NEW i \in 1 .. Len(s), NEW e \in S
  PROVE  /\ [s EXCEPT ![i] = e] \in Seq(S)
         /\ Len([s EXCEPT ![i] = e]) = Len(s)
         /\ \A j \in 1 .. Len(s) : [s EXCEPT ![i] = e][j] = IF j = i THEN e ELSE s[j]
OBVIOUS

(* Appending lengthens a sequence by the new element and keeps the others *)
LEMMA AppendToSeq ==
  ASSUME NEW S, NEW s \in Seq(S), NEW e \in S
  PROVE  /\ Append(s, e) \in Seq(S)
         /\ Len(Append(s, e)) = Len(s) + 1
         /\ \A j \in 1 .. Len(s) : Append(s, e)[j] = s[j]
         /\ Append(s, e)[Len(s) + 1] = e
OBVIOUS

(* A sequence is the function of its elements *)
LEMMA SeqIsFunction ==
  ASSUME NEW S, NEW s \in Seq(S)
  PROVE  s = [i \in 1 .. Len(s) |-> s[i]]
OBVIOUS

(* A sequence followed by one element *)
LEMMA ConcatOne ==
  ASSUME NEW S, NEW s \in Seq(S), NEW e \in S
  PROVE  s \o <<e>> = Append(s, e)
<1>1. /\ s \o <<e>> \in Seq(S) /\ Len(s \o <<e>>) = Len(s) + 1 /\ Len(s) \in Nat
      /\ \A j \in 1 .. Len(s) + 1 : (s \o <<e>>)[j] = IF j <= Len(s) THEN s[j] ELSE e
  OBVIOUS
<1>2. \A j \in 1 .. Len(s) + 1 : Append(s, e)[j] = IF j <= Len(s) THEN s[j] ELSE e
  OBVIOUS
<1> QED
  BY <1>1, <1>2, AppendToSeq, SeqIsFunction

(* A sequence followed by nothing *)
LEMMA ConcatNone ==
  ASSUME NEW S, NEW s \in Seq(S)
  PROVE  s \o <<>> = s
OBVIOUS

(* The length of a sequence is a natural number *)
LEMMA LenIsNat ==
  ASSUME NEW S, NEW s \in Seq(S)
  PROVE  Len(s) \in Nat /\ Len(s) + 1 \in Nat
OBVIOUS

(* A function on 1 .. n is a sequence of length n *)
LEMMA FunctionIsSeq ==
  ASSUME NEW S, NEW n \in Nat, NEW f \in [1 .. n -> S]
  PROVE  f \in Seq(S) /\ Len(f) = n
OBVIOUS
-----------------------------------------------------------------------------
(* The tables of WorkflowStates *)

(* Every stage is a state from which blocking, failing and cancelling are    *)
(* allowed, and to which a blocked workflow may return                       *)
LEMMA StageTransitions ==
  ASSUME NEW kind \in TaskKind
  PROVE  /\ TASK_WORKFLOW_STATE[kind] \in WorkState
         /\ TASK_WORKFLOW_STATE[kind] \in WorkflowState
         /\ TASK_WORKFLOW_STATE[kind] \notin {"BLOCKED", "FAILED", "CANCELLED", "REJECTED",
                                              "AWAITING_HUMAN_APPROVAL", "APPROVED"}
         /\ TransitionAllowed(TASK_WORKFLOW_STATE[kind], "BLOCKED")
         /\ TransitionAllowed(TASK_WORKFLOW_STATE[kind], "FAILED")
BY Zenon DEF TASK_WORKFLOW_STATE, TaskKind, WorkflowState, WorkState, TransitionAllowed, ALLOWED_TRANSITIONS

(* Only the stages are work states *)
LEMMA WorkStates ==
  WorkState \cap {"BLOCKED", "FAILED", "CANCELLED", "REJECTED", "AWAITING_HUMAN_APPROVAL", "APPROVED"} = {}
BY Zenon, StageTransitions DEF WorkState

(* The state an advance leads to is the stage of the task it schedules; the  *)
(* last review leads to the human.  Both transitions of an architecture      *)
(* review are in the allowlist.                                              *)
LEMMA AdvanceTable ==
  ASSUME NEW kind \in TaskKind
  PROVE  /\ NextState[kind] \in WorkflowState
         /\ kind = "CODE_REVIEW" =>
              NextState[kind] = "AWAITING_HUMAN_APPROVAL" /\ FollowingTasks(kind) = <<>>
         /\ kind # "CODE_REVIEW" => \E next \in TaskKind :
              /\ NextState[kind] = TASK_WORKFLOW_STATE[next]
              /\ FollowingTasks(kind) = <<NewTask(next)>>
              /\ next \in NeedsCandidate => kind = "IMPLEMENT" \/ kind \in NeedsCandidate
         /\ kind # "ARCHITECTURE_REVIEW" => TransitionAllowed(TASK_WORKFLOW_STATE[kind], NextState[kind])
         /\ kind = "ARCHITECTURE_REVIEW" =>
              /\ TransitionAllowed(TASK_WORKFLOW_STATE[kind], "APPROVED_FOR_IMPLEMENTATION")
              /\ TransitionAllowed("APPROVED_FOR_IMPLEMENTATION", NextState[kind])
<1> USE DEF TaskKind, WorkflowState, NextState, FollowingTasks, TASK_WORKFLOW_STATE, NeedsCandidate,
            TransitionAllowed, ALLOWED_TRANSITIONS
<1>1. CASE kind = "PLAN"
  BY Zenon, <1>1
<1>2. CASE kind = "ARCHITECTURE_REVIEW"
  BY Zenon, <1>2
<1>3. CASE kind = "IMPLEMENT"
  BY Zenon, <1>3
<1>4. CASE kind = "TEST"
  BY Zenon, <1>4
<1>5. CASE kind = "SECURITY_REVIEW"
  BY Zenon, <1>5
<1>6. CASE kind = "CODE_REVIEW"
  BY Zenon, <1>6
<1>7. QED
  BY Zenon, <1>1, <1>2, <1>3, <1>4, <1>5, <1>6
-----------------------------------------------------------------------------
(* The helpers of WorkflowTaskService on one row *)

(* A transition changes state and version only *)
LEMMA TransitionRow ==
  ASSUME NEW row \in WorkflowRow, NEW target \in WorkflowState
  PROVE  /\ Transition(row, target) \in WorkflowRow
         /\ Transition(row, target).state = target
         /\ Transition(row, target).block_reason = row.block_reason
         /\ Transition(row, target).candidate_revision = row.candidate_revision
<1> DEFINE moved == [row EXCEPT !.state = target]
<1>1. Transition(row, target) = [moved EXCEPT !.version = row.version + 1]
  BY Zenon DEF Transition
<1>2. /\ moved \in WorkflowRow
      /\ moved.state = target
      /\ moved.block_reason = row.block_reason
      /\ moved.candidate_revision = row.candidate_revision
  BY Zenon DEF WorkflowRow
<1>3. row.version + 1 \in Nat
  BY DEF WorkflowRow
<1> HIDE DEF moved
<1>4. QED
  BY Zenon, <1>1, <1>2, <1>3 DEF WorkflowRow

(* A transition that also records why the workflow is blocked *)
LEMMA TransitionWithReason ==
  ASSUME NEW row \in WorkflowRow, NEW target \in WorkflowState, NEW reason \in BlockReason
  PROVE  LET new == Transition([row EXCEPT !.block_reason = reason], target)
         IN /\ new \in WorkflowRow
            /\ new.state = target
            /\ new.block_reason = reason
            /\ new.candidate_revision = row.candidate_revision
<1>1. /\ [row EXCEPT !.block_reason = reason] \in WorkflowRow
      /\ [row EXCEPT !.block_reason = reason].block_reason = reason
      /\ [row EXCEPT !.block_reason = reason].candidate_revision = row.candidate_revision
  BY Zenon DEF WorkflowRow
<1>2. QED
  BY Zenon, <1>1, TransitionRow

(* A scheduled task is live and holds a grant *)
LEMMA NewTaskFits ==
  ASSUME NEW kind \in TaskKind
  PROVE  /\ NewTask(kind) \in Task
         /\ NewTask(kind).kind = kind
         /\ NewTask(kind).status = "READY"
         /\ GrantFits(NewTask(kind))
BY LeaseAssumption DEF NewTask, Task, TaskStatus, GrantFits, LiveStatus

(* Clearing a lease touches nothing else *)
LEMMA ClearLeaseTask ==
  ASSUME NEW task \in Task
  PROVE  /\ ClearLease(task) \in Task
         /\ ClearLease(task).kind = task.kind
         /\ ClearLease(task).status = task.status
         /\ ClearLease(task).grant = task.grant
         /\ ClearLease(task).attempts = task.attempts
<1> DEFINE free == [task EXCEPT !.lease_owner = "NULL"]
           bare == [free EXCEPT !.lease_token = None]
           Same(t) == /\ t \in Task /\ t.kind = task.kind /\ t.status = task.status
                      /\ t.grant = task.grant /\ t.attempts = task.attempts
<1>1. ClearLease(task) = [bare EXCEPT !.lease_left = 0]
  BY Zenon DEF ClearLease
<1>2. Same(free)
  BY Zenon DEF Task
<1> HIDE DEF free
<1>3. Same(bare)
  BY Zenon, <1>2 DEF Task
<1> HIDE DEF bare
<1>4. Same([bare EXCEPT !.lease_left = 0])
  BY <1>3, LeaseAssumption DEF Task
<1>5. QED
  BY Zenon, <1>1, <1>4

(* Nor does deactivating a grant *)
LEMMA DeactivateGrantTask ==
  ASSUME NEW task \in Task
  PROVE  /\ DeactivateGrant(task) \in Task
         /\ DeactivateGrant(task).kind = task.kind
         /\ DeactivateGrant(task).status = task.status
         /\ DeactivateGrant(task).grant = "INACTIVE"
         /\ DeactivateGrant(task).attempts = task.attempts
BY Zenon DEF DeactivateGrant, Task

(* A task whose status is replaced *)
LEMMA StatusTask ==
  ASSUME NEW task \in Task, NEW status \in TaskStatus
  PROVE  /\ [task EXCEPT !.status = status] \in Task
         /\ [task EXCEPT !.status = status].kind = task.kind
         /\ [task EXCEPT !.status = status].status = status
         /\ [task EXCEPT !.status = status].grant = task.grant
         /\ [task EXCEPT !.status = status].attempts = task.attempts
BY Zenon DEF Task

(* A task whose attempts are replaced *)
LEMMA AttemptsTask ==
  ASSUME NEW task \in Task, NEW attempts \in Seq(Attempt)
  PROVE  /\ [task EXCEPT !.attempts = attempts] \in Task
         /\ [task EXCEPT !.attempts = attempts].kind = task.kind
         /\ [task EXCEPT !.attempts = attempts].status = task.status
         /\ [task EXCEPT !.attempts = attempts].grant = task.grant
         /\ [task EXCEPT !.attempts = attempts].attempts = attempts
BY Zenon DEF Task
-----------------------------------------------------------------------------
(* How the tasks and the row of a workflow change together *)

(* A task that is live or blocked is the last one of its workflow, and the   *)
(* workflow is in the state that goes with it                                *)
LEMMA LiveIsLast ==
  ASSUME NEW row \in WorkflowRow \cup {None}, NEW ts \in Seq(Task), Consistent(row, ts),
         NEW i \in 1 .. Len(ts), ts[i].status \in LiveStatus \cup {"BLOCKED"}
  PROVE  /\ i = Len(ts)
         /\ row # None
         /\ row \in WorkflowRow
         /\ StateFits(row.state, ts[i])
         /\ row.block_reason # "INPUT_DISPOSITION_REQUIRED"
         /\ ts[i].kind \in NeedsCandidate => row.candidate_revision # None
<1>1. ts # <<>>
  OBVIOUS
<1>2. i = Len(ts)
  BY DEF Consistent, LiveStatus
<1>3. QED
  BY Zenon, <1>1, <1>2 DEF Consistent

(* Replacing the last task *)
LEMMA ReplaceLast ==
  ASSUME NEW row \in WorkflowRow, NEW ts \in Seq(Task), Consistent(row, ts),
         NEW i \in 1 .. Len(ts), i = Len(ts),
         NEW new \in WorkflowRow,
         NEW task \in Task, task.kind = ts[i].kind, GrantFits(task), StateFits(new.state, task),
         new.block_reason # "INPUT_DISPOSITION_REQUIRED",
         row.candidate_revision # None => new.candidate_revision # None
  PROVE  Consistent(new, [ts EXCEPT ![i] = task])
<1> DEFINE us == [ts EXCEPT ![i] = task]
<1>1. /\ us \in Seq(Task)
      /\ Len(us) = Len(ts)
      /\ \A j \in 1 .. Len(ts) : us[j] = IF j = i THEN task ELSE ts[j]
  BY PutInSeq
<1>2. us # <<>> /\ ts # <<>> /\ us[Len(us)] = task
  BY <1>1
<1> HIDE DEF us
<1>3. QED
  BY <1>1, <1>2, RowAssumption DEF Consistent

(* Scheduling the next task after the ones that are finished *)
LEMMA AppendNext ==
  ASSUME NEW ts \in Seq(Task), \A i \in 1 .. Len(ts) : GrantFits(ts[i]),
         \A i \in 1 .. Len(ts) : ts[i].status \in {"SUCCEEDED", "RECONCILED"},
         NEW kind \in TaskKind, NEW new \in WorkflowRow,
         new.state = TASK_WORKFLOW_STATE[kind],
         new.block_reason # "INPUT_DISPOSITION_REQUIRED",
         kind \in NeedsCandidate => new.candidate_revision # None
  PROVE  Consistent(new, Append(ts, NewTask(kind)))
<1> DEFINE us == Append(ts, NewTask(kind))
<1>1. /\ us \in Seq(Task)
      /\ Len(us) = Len(ts) + 1
      /\ \A j \in 1 .. Len(ts) : us[j] = ts[j]
      /\ us[Len(us)] = NewTask(kind)
  BY AppendToSeq, NewTaskFits
<1>2. us # <<>>
  BY <1>1
<1>3. StateFits(new.state, NewTask(kind))
  BY Zenon, NewTaskFits DEF StateFits
<1> HIDE DEF us
<1>4. QED
  BY <1>1, <1>2, <1>3, NewTaskFits, RowAssumption DEF Consistent
-----------------------------------------------------------------------------
(* Attempts *)

(* The attempts of a task are attempts *)
LEMMA AttemptTyped ==
  ASSUME NEW task \in Task, NEW n \in 1 .. Len(task.attempts)
  PROVE  task.attempts[n] \in Attempt
BY DEF Task

(* Editing an attempt by a function that keeps attempts attempts keeps the   *)
(* history a history of the same length; where there is no attempt n it does *)
(* nothing                                                                   *)
LEMMA EditAttempts ==
  ASSUME NEW s \in Seq(Attempt), NEW n, NEW a, n \in 1 .. Len(s) => a \in Attempt
  PROVE  [s EXCEPT ![n] = a] \in Seq(Attempt) /\ Len([s EXCEPT ![n] = a]) = Len(s)
<1>1. CASE n \in 1 .. Len(s)
  BY <1>1, PutInSeq
<1>2. CASE n \notin 1 .. Len(s)
  <2>1. DOMAIN s = 1 .. Len(s) /\ s = [i \in DOMAIN s |-> s[i]]
    OBVIOUS
  <2>2. [s EXCEPT ![n] = a] = [i \in DOMAIN s |-> IF i = n THEN a ELSE s[i]]
    BY <2>1, Zenon
  <2>3. [s EXCEPT ![n] = a] = s
    BY Zenon, <1>2, <2>1, <2>2
  <2>4. QED
    BY Zenon, <2>3
<1>3. QED
  BY Zenon, <1>1, <1>2

(* What the edits of a task below keep *)
SameTask(t, task) ==
  t \in Task /\ t.kind = task.kind /\ t.grant = task.grant /\ Len(t.attempts) = Len(task.attempts)

(* Editing an attempt of a task touches no other field of the task *)
LEMMA EditTask ==
  ASSUME NEW task \in Task, NEW n, NEW a, n \in 1 .. Len(task.attempts) => a \in Attempt
  PROVE  LET t == [task EXCEPT !.attempts = [task.attempts EXCEPT ![n] = a]]
         IN SameTask(t, task) /\ t.status = task.status
<1> DEFINE attempts == [task.attempts EXCEPT ![n] = a]
<1>1. task.attempts \in Seq(Attempt)
  BY Zenon DEF Task
<1>2. attempts \in Seq(Attempt) /\ Len(attempts) = Len(task.attempts)
  BY Zenon, <1>1, EditAttempts
<1> HIDE DEF attempts
<1>3. SameTask([task EXCEPT !.attempts = attempts], task) /\ [task EXCEPT !.attempts = attempts].status = task.status
  BY Zenon, <1>2, AttemptsTask DEF SameTask
<1>4. QED
  BY Zenon, <1>3 DEF attempts

(* A successful attempt gets a status, the revision of its artifact and its output *)
LEMMA SucceedAttempt ==
  ASSUME NEW old \in Attempt, NEW c \in Revisions \cup {None}, NEW size \in OutputSizes
  PROVE  [old EXCEPT !.status = "SUCCEEDED", !.artifact = c, !.output = size] \in Attempt
<1>1. [old EXCEPT !.status = "SUCCEEDED"] \in Attempt
  BY Zenon DEF Attempt
<1>2. [[old EXCEPT !.status = "SUCCEEDED"] EXCEPT !.artifact = c] \in Attempt
  BY Zenon, <1>1 DEF Attempt
<1>3. size \in {"FITS", "OVERSIZED"}
  BY Zenon, SizeAssumption
<1>4. [[[old EXCEPT !.status = "SUCCEEDED"] EXCEPT !.artifact = c] EXCEPT !.output = size] \in Attempt
  BY Zenon, <1>2, <1>3 DEF Attempt
<1>5. QED
  BY Zenon, <1>4

(* A task succeeds with its attempt *)
LEMMA SucceedTask ==
  ASSUME NEW task \in Task, NEW n, NEW a, n \in 1 .. Len(task.attempts) => a \in Attempt
  PROVE  LET t == [task EXCEPT !.status = "SUCCEEDED", !.attempts[n] = a]
         IN SameTask(t, task) /\ t.status = "SUCCEEDED"
<1> DEFINE m == [task EXCEPT !.status = "SUCCEEDED"]
<1>1. [task EXCEPT !.status = "SUCCEEDED", !.attempts[n] = a] = [m EXCEPT !.attempts = [m.attempts EXCEPT ![n] = a]]
  BY Zenon DEF Task
<1>2. m \in Task /\ m.attempts = task.attempts /\ SameTask(m, task) /\ m.status = "SUCCEEDED"
  BY Zenon, StatusTask DEF TaskStatus, SameTask
<1>3. ASSUME n \in 1 .. Len(m.attempts) PROVE a \in Attempt
  BY Zenon, <1>2, <1>3
<1> HIDE DEF m
<1>4. LET t == [m EXCEPT !.attempts = [m.attempts EXCEPT ![n] = a]]
      IN SameTask(t, m) /\ t.status = "SUCCEEDED"
  BY Zenon, <1>2, <1>3, EditTask
<1>5. QED
  BY Zenon, <1>1, <1>2, <1>4 DEF SameTask

(* Recording a human decision on an attempt closes its task *)
LEMMA ReconcileAttempt ==
  ASSUME NEW task \in Task, NEW n, NEW decision \in {"RETRY", "FAIL"}
  PROVE  LET t == [task EXCEPT !.status = "RECONCILED", !.attempts[n].reconciliation = decision]
         IN SameTask(t, task) /\ t.status = "RECONCILED"
<1> DEFINE a == [task.attempts[n] EXCEPT !.reconciliation = decision]
           m == [task EXCEPT !.status = "RECONCILED"]
<1>1. [task EXCEPT !.status = "RECONCILED", !.attempts[n].reconciliation = decision]
        = [m EXCEPT !.attempts = [m.attempts EXCEPT ![n] = a]]
  BY Zenon DEF Task
<1>2. m \in Task /\ m.attempts = task.attempts /\ SameTask(m, task) /\ m.status = "RECONCILED"
  BY Zenon, StatusTask DEF TaskStatus, SameTask
<1>3. ASSUME n \in 1 .. Len(m.attempts) PROVE a \in Attempt
  <2>1. task.attempts[n] \in Attempt
    BY <1>2, <1>3 DEF Task
  <2>2. QED
    BY Zenon, <2>1 DEF Attempt
<1> HIDE DEF a, m
<1>4. LET t == [m EXCEPT !.attempts = [m.attempts EXCEPT ![n] = a]]
      IN SameTask(t, m) /\ t.status = "RECONCILED"
  BY Zenon, <1>2, <1>3, EditTask
<1>5. QED
  BY Zenon, <1>1, <1>2, <1>4 DEF SameTask

(* A failed or timed out attempt gets a status and an error code *)
LEMMA EndAttempt ==
  ASSUME NEW task \in Task, NEW n, NEW status \in {"FAILED", "TIMED_OUT"},
         NEW error \in RunErrors \cup {"LeaseExpired"}
  PROVE  LET t == [task EXCEPT !.attempts[n].status = status, !.attempts[n].error_code = error]
         IN SameTask(t, task) /\ t.status = task.status
<1> DEFINE a == [[task.attempts[n] EXCEPT !.status = status] EXCEPT !.error_code = error]
<1>1. [task EXCEPT !.attempts[n].status = status, !.attempts[n].error_code = error]
        = [task EXCEPT !.attempts = [task.attempts EXCEPT ![n] = a]]
  BY Zenon DEF Task
<1>2. ASSUME n \in 1 .. Len(task.attempts) PROVE a \in Attempt
  <2>1. task.attempts[n] \in Attempt
    BY <1>2 DEF Task
  <2>2. [task.attempts[n] EXCEPT !.status = status] \in Attempt
    BY Zenon, <2>1 DEF Attempt
  <2>3. QED
    BY Zenon, <2>2 DEF Attempt, RunErrors
<1> HIDE DEF a
<1> DEFINE t == [task EXCEPT !.attempts = [task.attempts EXCEPT ![n] = a]]
<1>3. SameTask(t, task) /\ t.status = task.status
  BY Zenon, <1>2, EditTask
<1> HIDE DEF t
<1>4. [task EXCEPT !.attempts[n].status = status, !.attempts[n].error_code = error] = t
  BY Zenon, <1>1 DEF t
<1>5. QED
  BY Zenon, <1>3, <1>4
-----------------------------------------------------------------------------
(* Steps *)

(* A worker process is as before, or its new handle points at a task *)
HandleStep(p) == worker'[p] = worker[p] \/ HandleFits(p)'

(* A step that rewrites rows and tasks consistently and without losing a     *)
(* task preserves the invariant                                              *)
LEMMA AllWorkflows ==
  ASSUME IInv,
         workflow' \in [Workflows -> WorkflowRow \cup {None}], tasks' \in [Workflows -> Seq(Task)],
         \A w \in Workflows : Consistent(workflow'[w], tasks'[w]) /\ Len(tasks[w]) <= Len(tasks'[w]),
         worker' \in [Workers -> WorkerState], \A p \in Workers : HandleStep(p)
  PROVE  IInv'
<1>1. ASSUME NEW p \in Workers PROVE HandleFits(p)'
  <2>1. CASE worker'[p] = worker[p]
    <3> SUFFICES ASSUME worker[p].pc # "idle"
                 PROVE  worker'[p].wf \in Workflows /\ worker'[p].pos \in 1 .. Len(tasks'[worker'[p].wf])
      BY Zenon, <2>1 DEF HandleFits, Positions
    <3>1. worker[p].wf \in Workflows /\ worker[p].pos \in 1 .. Len(tasks[worker[p].wf])
      BY Zenon DEF IInv, HandleFits, Positions
    <3>2. Len(tasks[worker[p].wf]) \in Nat /\ Len(tasks'[worker[p].wf]) \in Nat
      BY <3>1 DEF IInv, TypeOK
    <3>3. QED
      BY <2>1, <3>1, <3>2
  <2>2. QED
    BY Zenon, <2>1 DEF HandleStep
<1>2. QED
  BY Zenon, <1>1 DEF IInv, TypeOK

(* A step that rewrites the row and the tasks of one workflow *)
LEMMA OneWorkflow ==
  ASSUME IInv, NEW w \in Workflows,
         NEW row \in WorkflowRow \cup {None}, NEW ts \in Seq(Task),
         Consistent(row, ts), Len(tasks[w]) <= Len(ts),
         workflow' = [workflow EXCEPT ![w] = row], tasks' = [tasks EXCEPT ![w] = ts],
         worker' \in [Workers -> WorkerState], \A p \in Workers : HandleStep(p)
  PROVE  IInv'
<1>1. /\ workflow' \in [Workflows -> WorkflowRow \cup {None}]
      /\ tasks' \in [Workflows -> Seq(Task)]
  BY Zenon DEF IInv, TypeOK
<1>2. \A v \in Workflows : /\ workflow'[v] = IF v = w THEN row ELSE workflow[v]
                           /\ tasks'[v] = IF v = w THEN ts ELSE tasks[v]
  BY Zenon DEF IInv, TypeOK
<1>3. \A v \in Workflows : Len(tasks[v]) \in Nat
  BY Zenon, LenIsNat DEF IInv, TypeOK
<1>4. ASSUME NEW v \in Workflows
      PROVE  Consistent(workflow'[v], tasks'[v]) /\ Len(tasks[v]) <= Len(tasks'[v])
  BY <1>2, <1>3 DEF IInv
<1>5. QED
  BY Zenon, <1>1, <1>4, AllWorkflows

(* A step that rewrites the row of one workflow and no task *)
LEMMA RowOnly ==
  ASSUME IInv, NEW w \in Workflows, NEW row \in WorkflowRow, Consistent(row, tasks[w]),
         workflow' = [workflow EXCEPT ![w] = row], UNCHANGED <<tasks, worker>>
  PROVE  IInv'
<1>1. workflow' \in [Workflows -> WorkflowRow \cup {None}] /\ tasks' \in [Workflows -> Seq(Task)]
  BY Zenon DEF IInv, TypeOK
<1>2. \A v \in Workflows : workflow'[v] = IF v = w THEN row ELSE workflow[v]
  BY Zenon DEF IInv, TypeOK
<1>3. ASSUME NEW v \in Workflows
      PROVE  Consistent(workflow'[v], tasks'[v]) /\ Len(tasks[v]) <= Len(tasks'[v])
  <2>1. Len(tasks[v]) \in Nat
    BY Zenon, LenIsNat DEF IInv, TypeOK
  <2>2. QED
    BY <1>2, <2>1 DEF IInv
<1>4. worker' \in [Workers -> WorkerState] /\ \A p \in Workers : HandleStep(p)
  BY Zenon DEF IInv, TypeOK, HandleStep
<1>5. QED
  BY Zenon, <1>1, <1>3, <1>4, AllWorkflows

(* A step that only makes a worker process forget what it held *)
LEMMA WorkerForgets ==
  ASSUME IInv, NEW p \in Workers, worker' = [worker EXCEPT ![p] = Idle]
  PROVE  worker' \in [Workers -> WorkerState] /\ \A q \in Workers : HandleStep(q)
<1>1. Idle \in WorkerState /\ Idle.pc = "idle"
  BY Zenon DEF Idle, WorkerState
<1>2. worker' \in [Workers -> WorkerState] /\ \A q \in Workers : worker'[q] = IF q = p THEN Idle ELSE worker[q]
  BY Zenon, <1>1 DEF IInv, TypeOK
<1>3. QED
  BY Zenon, <1>1, <1>2 DEF HandleStep, HandleFits

(* A step that leaves every worker process as it is *)
LEMMA WorkerUnchanged ==
  ASSUME IInv, UNCHANGED worker
  PROVE  worker' \in [Workers -> WorkerState] /\ \A q \in Workers : HandleStep(q)
BY Zenon DEF IInv, TypeOK, HandleStep

(* What the invariant says about a task, its workflow and the worker holding it *)
LEMMA TaskFacts ==
  ASSUME IInv, NEW w \in Workflows, NEW i \in Positions(w)
  PROVE  /\ workflow[w] \in WorkflowRow \cup {None}
         /\ tasks[w] \in Seq(Task) /\ i \in 1 .. Len(tasks[w]) /\ tasks[w][i] \in Task
         /\ GrantFits(tasks[w][i])
         /\ Consistent(workflow[w], tasks[w])
         /\ tasks = [tasks EXCEPT ![w] = tasks[w]] /\ workflow = [workflow EXCEPT ![w] = workflow[w]]
         /\ tasks[w][i].status \in LiveStatus \cup {"BLOCKED"} =>
              /\ i = Len(tasks[w])
              /\ workflow[w] # None
              /\ workflow[w] \in WorkflowRow
              /\ StateFits(workflow[w].state, tasks[w][i])
              /\ workflow[w].block_reason # "INPUT_DISPOSITION_REQUIRED"
              /\ tasks[w][i].kind \in NeedsCandidate => workflow[w].candidate_revision # None
<1>1. /\ workflow[w] \in WorkflowRow \cup {None}
      /\ tasks[w] \in Seq(Task) /\ i \in 1 .. Len(tasks[w])
      /\ Consistent(workflow[w], tasks[w])
  BY Zenon DEF IInv, TypeOK, Positions
<1>2. tasks[w][i] \in Task
  BY <1>1
<1>3. tasks = [tasks EXCEPT ![w] = tasks[w]] /\ workflow = [workflow EXCEPT ![w] = workflow[w]]
  BY Zenon DEF IInv, TypeOK
<1>4. GrantFits(tasks[w][i])
  BY Zenon, <1>1 DEF Consistent
<1>5. QED
  BY Zenon, <1>1, <1>2, <1>3, <1>4, LiveIsLast

(* A worker process that is not idle holds a handle on an existing task *)
LEMMA HeldFacts ==
  ASSUME IInv, NEW p \in Workers, worker[p].pc # "idle"
  PROVE  worker[p].wf \in Workflows /\ worker[p].pos \in Positions(worker[p].wf)
BY Zenon DEF IInv, HandleFits

(* Rewriting the last task of a workflow together with its row *)
LEMMA RewriteLast ==
  ASSUME IInv, NEW w \in Workflows, NEW i \in Positions(w),
         tasks[w][i].status \in LiveStatus \cup {"BLOCKED"},
         NEW task \in Task, task.kind = tasks[w][i].kind, GrantFits(task),
         NEW row \in WorkflowRow, StateFits(row.state, task),
         row.block_reason # "INPUT_DISPOSITION_REQUIRED",
         row.candidate_revision = workflow[w].candidate_revision,
         workflow' = [workflow EXCEPT ![w] = row],
         tasks' = [tasks EXCEPT ![w] = PutTask(w, i, task)],
         worker' \in [Workers -> WorkerState], \A p \in Workers : HandleStep(p)
  PROVE  IInv'
<1>1. i \in 1 .. Len(tasks[w]) /\ i = Len(tasks[w]) /\ tasks[w] \in Seq(Task) /\ workflow[w] \in WorkflowRow
        /\ Consistent(workflow[w], tasks[w])
  BY Zenon, TaskFacts
<1>2. Consistent(row, PutTask(w, i, task))
  BY Zenon, <1>1, ReplaceLast DEF PutTask
<1>3. PutTask(w, i, task) \in Seq(Task) /\ Len(PutTask(w, i, task)) = Len(tasks[w])
  BY <1>1, PutInSeq DEF PutTask
<1>4. Len(tasks[w]) <= Len(PutTask(w, i, task))
  BY <1>1, <1>3
<1>5. QED
  BY Zenon, <1>2, <1>3, <1>4, OneWorkflow

(* Rewriting a live task so that it stays live, the workflow as it is *)
LEMMA StayLive ==
  ASSUME IInv, NEW w \in Workflows, NEW i \in Positions(w),
         tasks[w][i].status \in LiveStatus,
         NEW task \in Task, task.kind = tasks[w][i].kind, task.status \in LiveStatus, GrantFits(task),
         UNCHANGED workflow,
         tasks' = [tasks EXCEPT ![w] = PutTask(w, i, task)],
         worker' \in [Workers -> WorkerState], \A p \in Workers : HandleStep(p)
  PROVE  IInv'
<1>1. StateFits(workflow[w].state, task)
  BY TaskFacts DEF StateFits, LiveStatus
<1>2. /\ workflow[w] \in WorkflowRow
      /\ workflow[w].block_reason # "INPUT_DISPOSITION_REQUIRED"
      /\ workflow' = [workflow EXCEPT ![w] = workflow[w]]
  BY Zenon, TaskFacts
<1>3. QED
  BY Zenon, <1>1, <1>2, RewriteLast
-----------------------------------------------------------------------------
(* Each action preserves the invariant *)

(* No workflow exists at first and every worker process is idle *)
LEMMA InitIInv == Init => IInv
<1> SUFFICES ASSUME Init PROVE IInv
  BY Zenon
<1>1. Idle \in WorkerState /\ Idle.pc = "idle"
  BY Zenon DEF Idle, WorkerState
<1>2. TypeOK
  BY <1>1 DEF Init, TypeOK
<1>3. ASSUME NEW w \in Workflows PROVE Consistent(workflow[w], tasks[w])
  <2>1. workflow[w] = None /\ tasks[w] = <<>> /\ Len(tasks[w]) = 0
    BY Zenon DEF Init
  <2>2. QED
    BY <2>1 DEF Consistent
<1>4. ASSUME NEW p \in Workers PROVE HandleFits(p)
  BY Zenon, <1>1 DEF Init, HandleFits
<1>5. QED
  BY Zenon, <1>2, <1>3, <1>4 DEF IInv

(* create_workflow: the first task, or a contained workflow without tasks *)
LEMMA CreateStep ==
  ASSUME IInv, NEW w \in Workflows, NEW suspicious \in BOOLEAN, CreateWorkflow(w, suspicious)
  PROVE  IInv'
<1> DEFINE row == [state |-> "CREATED", version |-> 1,
                   block_reason |-> IF suspicious THEN "INPUT_DISPOSITION_REQUIRED" ELSE "NULL",
                   containment_required |-> suspicious, candidate_revision |-> None,
                   disposition |-> "NULL", merge_approval |-> None]
           new == Transition(row, IF suspicious THEN "BLOCKED" ELSE "PLANNING")
           ts == IF suspicious THEN <<>> ELSE <<NewTask("PLAN")>>
<1>1. row \in WorkflowRow /\ row.block_reason = IF suspicious THEN "INPUT_DISPOSITION_REQUIRED" ELSE "NULL"
  BY Zenon DEF WorkflowRow, WorkflowState, BlockReason
<1>2. workflow' = [workflow EXCEPT ![w] = new] /\ tasks' = [tasks EXCEPT ![w] = ts] /\ UNCHANGED worker
  BY Zenon DEF CreateWorkflow
<1> HIDE DEF row
<1>3. /\ new \in WorkflowRow
      /\ new.state = IF suspicious THEN "BLOCKED" ELSE "PLANNING"
      /\ new.block_reason = IF suspicious THEN "INPUT_DISPOSITION_REQUIRED" ELSE "NULL"
  BY <1>1, TransitionRow DEF WorkflowState
<1> HIDE DEF new
<1>4. ts \in Seq(Task) /\ Consistent(new, ts)
  <2>1. CASE suspicious
    BY <1>3, <2>1, RowAssumption DEF Consistent
  <2>2. CASE ~suspicious
    <3>1. "PLAN" \in TaskKind /\ "PLAN" \notin NeedsCandidate /\ TASK_WORKFLOW_STATE["PLAN"] = "PLANNING"
      BY Zenon DEF TaskKind, NeedsCandidate, TASK_WORKFLOW_STATE
    <3> DEFINE none == <<>>
    <3>2. ts = Append(none, NewTask("PLAN"))
      BY <2>2
    <3>3. none \in Seq(Task) /\ 1 .. Len(none) = {}
      OBVIOUS
    <3>4. new.block_reason = "NULL" /\ new.state = "PLANNING"
      BY Zenon, <1>3, <2>2
    <3> HIDE DEF none, ts
    <3>5. Consistent(new, Append(none, NewTask("PLAN")))
      BY Zenon, <1>3, <3>1, <3>3, <3>4, AppendNext
    <3>6. QED
      BY Zenon, <3>1, <3>2, <3>3, <3>5, NewTaskFits, AppendToSeq
  <2>3. QED
    BY Zenon, <2>1, <2>2
<1>5. Len(tasks[w]) <= Len(ts)
  <2>1. tasks[w] = <<>>
    BY Zenon DEF IInv, Consistent, CreateWorkflow, Created
  <2>2. QED
    BY <1>4, <2>1
<1> HIDE DEF ts
<1>6. QED
  BY Zenon, <1>2, <1>3, <1>4, <1>5, WorkerUnchanged, OneWorkflow

(* lease_next_task: a READY task becomes LEASED and the worker holds it *)
LEMMA LeaseStep ==
  ASSUME IInv, NEW p \in Workers, NEW w \in Workflows, NEW i \in Positions(w), LeaseNextTask(p, w, i)
  PROVE  IInv'
<1> DEFINE task == [tasks[w][i] EXCEPT !.status = "LEASED", !.lease_owner = "orchestrator",
                                       !.lease_token = FreshToken, !.lease_left = LeaseTicks]
           held == [pc |-> "leased", wf |-> w, pos |-> i, token |-> FreshToken, attempt |-> 0]
<1>1. FreshToken \in Tokens
  BY Zenon DEF LeaseNextTask, FreshToken
<1>2. tasks[w][i] \in Task /\ tasks[w][i].status = "READY" /\ GrantFits(tasks[w][i])
  BY Zenon, TaskFacts DEF LeaseNextTask
<1>3. task \in Task /\ task.kind = tasks[w][i].kind /\ task.status = "LEASED" /\ task.grant = tasks[w][i].grant
  <2> DEFINE t1 == [tasks[w][i] EXCEPT !.status = "LEASED"]
             t2 == [t1 EXCEPT !.lease_owner = "orchestrator"]
             t3 == [t2 EXCEPT !.lease_token = FreshToken]
             Like(t) == t \in Task /\ t.kind = tasks[w][i].kind /\ t.status = "LEASED" /\ t.grant = tasks[w][i].grant
  <2>1. task = [t3 EXCEPT !.lease_left = LeaseTicks]
    BY Zenon, <1>2 DEF Task
  <2>2. Like(t1)
    BY Zenon, <1>2, StatusTask DEF TaskStatus
  <2> HIDE DEF t1
  <2>3. Like(t2)
    BY Zenon, <2>2 DEF Task
  <2> HIDE DEF t2
  <2>4. Like(t3)
    BY Zenon, <1>1, <2>3 DEF Task
  <2> HIDE DEF t3
  <2>5. Like([t3 EXCEPT !.lease_left = LeaseTicks])
    BY <2>4, LeaseAssumption DEF Task
  <2>6. QED
    BY Zenon, <2>1, <2>5
<1>4. /\ tasks' = [tasks EXCEPT ![w] = PutTask(w, i, task)]
      /\ worker' = [worker EXCEPT ![p] = held]
      /\ UNCHANGED workflow
  BY Zenon DEF LeaseNextTask
<1> HIDE DEF task
<1>5. GrantFits(task) /\ task.status \in LiveStatus /\ tasks[w][i].status \in LiveStatus
  BY Zenon, <1>2, <1>3 DEF GrantFits, LiveStatus
<1>6. held \in WorkerState
  BY <1>1 DEF WorkerState, Positions
<1>7. /\ worker' \in [Workers -> WorkerState]
      /\ \A q \in Workers : worker'[q] = IF q = p THEN held ELSE worker[q]
  BY Zenon, <1>4, <1>6 DEF IInv, TypeOK
<1>8. ASSUME NEW q \in Workers PROVE HandleStep(q)
  <2>1. CASE q = p
    <3>1. tasks'[w] = PutTask(w, i, task)
      BY Zenon, <1>4 DEF IInv, TypeOK
    <3>2. Len(tasks'[w]) = Len(tasks[w])
      BY <1>3, <3>1, TaskFacts, PutInSeq DEF PutTask
    <3>3. QED
      BY <1>7, <2>1, <3>2 DEF HandleStep, HandleFits, Positions
  <2>2. CASE q # p
    BY Zenon, <1>7, <2>2 DEF HandleStep
  <2>3. QED
    BY Zenon, <2>1, <2>2
<1>9. QED
  BY Zenon, <1>3, <1>4, <1>5, <1>7, <1>8, StayLive

(* _prepare_execution: a LEASED task becomes RUNNING with a new attempt *)
LEMMA PrepareStep ==
  ASSUME IInv, NEW p \in Workers, NEW provider \in Providers, PrepareExecution(p, provider)
  PROVE  IInv'
<1> DEFINE w == worker[p].wf
           i == worker[p].pos
           attempt == [status |-> "RUNNING", error_code |-> None, provider |-> provider,
                       examined |-> workflow[w].candidate_revision, artifact |-> None,
                       output |-> "NULL", reconciliation |-> "NULL"]
           attempts == Append(tasks[w][i].attempts, attempt)
           task == [tasks[w][i] EXCEPT !.status = "RUNNING", !.lease_left = LeaseTicks, !.attempts = Append(@, attempt)]
           held == [worker[p] EXCEPT !.pc = "executing", !.attempt = Len(tasks[w][i].attempts) + 1]
<1>1. w \in Workflows /\ i \in Positions(w) /\ worker[p] \in WorkerState
  BY Zenon, HeldFacts DEF PrepareExecution, IInv, TypeOK
<1>2. tasks[w][i].status = "LEASED"
  BY Zenon DEF PrepareExecution, PrepareAllowed, HoldsLease, HeldTask
<1>3. tasks[w][i] \in Task /\ GrantFits(tasks[w][i]) /\ workflow[w] \in WorkflowRow
  BY Zenon, <1>1, <1>2, TaskFacts DEF LiveStatus
<1>4. attempts \in Seq(Attempt) /\ Len(tasks[w][i].attempts) + 1 \in Nat
  <2>1. attempt \in Attempt
    BY Zenon, <1>3 DEF Attempt, WorkflowRow
  <2>2. tasks[w][i].attempts \in Seq(Attempt)
    BY Zenon, <1>3 DEF Task
  <2> HIDE DEF attempt
  <2>3. attempts \in Seq(Attempt)
    BY Zenon, <2>1, <2>2, AppendToSeq
  <2>4. Len(tasks[w][i].attempts) + 1 \in Nat
    BY Zenon, <2>2, LenIsNat
  <2> HIDE DEF attempts
  <2>5. QED
    BY Zenon, <2>3, <2>4
<1>5. task \in Task /\ task.kind = tasks[w][i].kind /\ task.status = "RUNNING" /\ task.grant = tasks[w][i].grant
  <2> DEFINE t1 == [tasks[w][i] EXCEPT !.status = "RUNNING"]
             t2 == [t1 EXCEPT !.lease_left = LeaseTicks]
             Like(t) == t \in Task /\ t.kind = tasks[w][i].kind /\ t.status = "RUNNING" /\ t.grant = tasks[w][i].grant
  <2>1. task = [t2 EXCEPT !.attempts = attempts]
    BY Zenon, <1>3 DEF Task
  <2>2. Like(t1)
    BY Zenon, <1>3, StatusTask DEF TaskStatus
  <2> HIDE DEF t1
  <2>3. Like(t2)
    BY <2>2, LeaseAssumption DEF Task
  <2> HIDE DEF t2, attempts
  <2>4. Like([t2 EXCEPT !.attempts = attempts])
    BY Zenon, <1>4, <2>3, AttemptsTask
  <2>5. QED
    BY Zenon, <2>1, <2>4
<1>6. /\ tasks' = [tasks EXCEPT ![w] = PutTask(w, i, task)]
      /\ worker' = [worker EXCEPT ![p] = held]
      /\ UNCHANGED workflow
  BY Zenon DEF PrepareExecution, HeldTask, IInv, TypeOK
<1>7. held \in WorkerState /\ held.wf = w /\ held.pos = i
  <2> DEFINE h == [worker[p] EXCEPT !.pc = "executing"]
  <2>1. held = [h EXCEPT !.attempt = Len(tasks[w][i].attempts) + 1]
    BY Zenon
  <2>2. h \in WorkerState /\ h.wf = w /\ h.pos = i
    BY Zenon, <1>1 DEF WorkerState
  <2> HIDE DEF h, attempts
  <2>3. QED
    BY Zenon, <1>4, <2>1, <2>2 DEF WorkerState
<1> HIDE DEF task, held, attempts, attempt
<1>8. GrantFits(task) /\ task.status \in LiveStatus /\ tasks[w][i].status \in LiveStatus
  BY Zenon, <1>2, <1>3, <1>5 DEF GrantFits, LiveStatus
<1>9. /\ worker' \in [Workers -> WorkerState]
      /\ \A q \in Workers : worker'[q] = IF q = p THEN held ELSE worker[q]
  BY Zenon, <1>6, <1>7 DEF IInv, TypeOK
<1>10. ASSUME NEW q \in Workers PROVE HandleStep(q)
  <2>1. CASE q = p
    <3>1. tasks'[w] = PutTask(w, i, task)
      BY Zenon, <1>1, <1>6 DEF IInv, TypeOK
    <3>2. Len(tasks'[w]) = Len(tasks[w])
      BY <1>1, <1>5, <3>1, TaskFacts, PutInSeq DEF PutTask
    <3>3. worker'[q].wf = w /\ worker'[q].pos = i
      BY Zenon, <1>7, <1>9, <2>1
    <3>4. QED
      BY Zenon, <1>1, <3>2, <3>3 DEF HandleStep, HandleFits, Positions
  <2>2. CASE q # p
    BY Zenon, <1>9, <2>2 DEF HandleStep
  <2>3. QED
    BY Zenon, <2>1, <2>2
<1>11. QED
  BY Zenon, <1>1, <1>5, <1>6, <1>8, <1>9, <1>10, StayLive

(* _record_routing_block: the leased, hence last, task and its workflow block *)
LEMMA RoutingBlockedStep ==
  ASSUME IInv, NEW p \in Workers, RoutingBlocked(p)
  PROVE  IInv'
<1> DEFINE w == worker[p].wf
           i == worker[p].pos
           attempt == [status |-> "FAILED", error_code |-> "RoutingBlocked", provider |-> None,
                       examined |-> None, artifact |-> None, output |-> "NULL", reconciliation |-> "NULL"]
           attempts == Append(tasks[w][i].attempts, attempt)
           blocked == [tasks[w][i] EXCEPT !.status = "BLOCKED", !.attempts = Append(@, attempt)]
           task == DeactivateGrant(ClearLease(blocked))
           row == Transition([workflow[w] EXCEPT !.block_reason = "NO_ELIGIBLE_PROVIDER"], "BLOCKED")
<1>1. w \in Workflows /\ i \in Positions(w)
  BY Zenon, HeldFacts DEF RoutingBlocked
<1>2. tasks[w][i].status = "LEASED"
  BY Zenon DEF RoutingBlocked, PrepareAllowed, HoldsLease, HeldTask
<1>3. tasks[w][i] \in Task /\ workflow[w] \in WorkflowRow /\ tasks[w][i].status \in LiveStatus
  BY Zenon, <1>1, <1>2, TaskFacts DEF LiveStatus
<1>4. attempts \in Seq(Attempt)
  <2>1. attempt \in Attempt
    BY Zenon DEF Attempt
  <2>2. QED
    BY Zenon, <1>3, <2>1, AppendToSeq DEF Task
<1>5. blocked \in Task /\ blocked.kind = tasks[w][i].kind /\ blocked.status = "BLOCKED"
  <2> DEFINE t1 == [tasks[w][i] EXCEPT !.status = "BLOCKED"]
  <2>1. blocked = [t1 EXCEPT !.attempts = attempts]
    BY Zenon, <1>3 DEF Task
  <2>2. t1 \in Task /\ t1.kind = tasks[w][i].kind /\ t1.status = "BLOCKED"
    BY Zenon, <1>3, StatusTask DEF TaskStatus
  <2> HIDE DEF t1, attempts
  <2>3. QED
    BY <1>4, <2>1, <2>2, AttemptsTask
<1>6. /\ tasks' = [tasks EXCEPT ![w] = PutTask(w, i, task)]
      /\ workflow' = [workflow EXCEPT ![w] = row]
      /\ worker' = [worker EXCEPT ![p] = Idle]
  BY Zenon DEF RoutingBlocked, HeldTask
<1> HIDE DEF blocked
<1>7. task \in Task /\ task.kind = tasks[w][i].kind /\ task.status = "BLOCKED" /\ task.grant = "INACTIVE"
  BY ZenonT(30), <1>5, ClearLeaseTask, DeactivateGrantTask
<1>8. /\ row \in WorkflowRow /\ row.state = "BLOCKED" /\ row.block_reason = "NO_ELIGIBLE_PROVIDER"
      /\ row.candidate_revision = workflow[w].candidate_revision
  <2>1. "BLOCKED" \in WorkflowState /\ "NO_ELIGIBLE_PROVIDER" \in BlockReason
    BY Zenon DEF WorkflowState, BlockReason
  <2>2. QED
    BY <1>3, <2>1, TransitionWithReason
<1> HIDE DEF task, row
<1>9. GrantFits(task) /\ StateFits(row.state, task)
  BY Zenon, <1>7, <1>8 DEF GrantFits, StateFits, LiveStatus
<1>10. QED
  BY Zenon, <1>1, <1>3, <1>6, <1>7, <1>8, <1>9, WorkerForgets, RewriteLast

(* PrepareRefused, FinalizeRefused and Crash: a worker process forgets *)
LEMMA ForgetStep ==
  ASSUME IInv, NEW p \in Workers, worker' = [worker EXCEPT ![p] = Idle], UNCHANGED <<workflow, tasks>>
  PROVE  IInv'
<1>1. worker' \in [Workers -> WorkerState] /\ \A q \in Workers : HandleStep(q)
  BY Zenon, WorkerForgets
<1>2. \A q \in Workers : HandleFits(q)'
  BY Zenon, <1>1 DEF IInv, HandleStep, HandleFits, Positions
<1>3. QED
  BY Zenon, <1>1, <1>2 DEF IInv, TypeOK

(* Changing what is left of a lease touches no other field *)
LEMMA RenewedTask ==
  ASSUME NEW task \in Task, NEW left \in 0 .. LeaseTicks
  PROVE  LET t == [task EXCEPT !.lease_left = left]
         IN t \in Task /\ t.kind = task.kind /\ t.status = task.status /\ t.grant = task.grant
BY Zenon DEF Task

(* heartbeat_task renews the lease of a running task *)
LEMMA HeartbeatStep ==
  ASSUME IInv, NEW p \in Workers, HeartbeatTask(p)
  PROVE  IInv'
<1> DEFINE w == worker[p].wf
           i == worker[p].pos
           task == [tasks[w][i] EXCEPT !.lease_left = LeaseTicks]
<1>1. w \in Workflows /\ i \in Positions(w)
  BY Zenon, HeldFacts DEF HeartbeatTask
<1>2. tasks[w][i].status = "RUNNING"
  BY Zenon DEF HeartbeatTask, HoldsLease, HeldTask
<1>3. tasks[w][i] \in Task /\ GrantFits(tasks[w][i])
  BY Zenon, <1>1, TaskFacts
<1>4. tasks' = [tasks EXCEPT ![w] = PutTask(w, i, task)] /\ UNCHANGED workflow /\ UNCHANGED worker
  BY Zenon DEF HeartbeatTask, HeldTask
<1>5. task \in Task /\ task.kind = tasks[w][i].kind /\ task.status = "RUNNING" /\ task.grant = tasks[w][i].grant
  BY <1>2, <1>3, RenewedTask, LeaseAssumption
<1> HIDE DEF task
<1>6. GrantFits(task) /\ task.status \in LiveStatus /\ tasks[w][i].status \in LiveStatus
  BY Zenon, <1>2, <1>3, <1>5 DEF GrantFits, LiveStatus
<1>7. QED
  BY Zenon, <1>1, <1>4, <1>5, <1>6, WorkerUnchanged, StayLive

(* The passing of time shortens a lease *)
LEMMA LeaseTickStep ==
  ASSUME IInv, NEW w \in Workflows, NEW i \in Positions(w), LeaseTick(w, i)
  PROVE  IInv'
<1> DEFINE task == [tasks[w][i] EXCEPT !.lease_left = @ - 1]
<1>1. tasks[w][i].status \in LiveStatus
  BY Zenon DEF LeaseTick, LiveStatus
<1>2. tasks[w][i] \in Task /\ GrantFits(tasks[w][i])
  BY Zenon, TaskFacts
<1>3. tasks' = [tasks EXCEPT ![w] = PutTask(w, i, task)] /\ UNCHANGED workflow /\ UNCHANGED worker
  BY Zenon DEF LeaseTick
<1>4. tasks[w][i].lease_left - 1 \in 0 .. LeaseTicks
  BY <1>2, LeaseAssumption DEF LeaseTick, Task
<1>5. task \in Task /\ task.kind = tasks[w][i].kind /\ task.status = tasks[w][i].status /\ task.grant = tasks[w][i].grant
  BY Zenon, <1>2, <1>4, RenewedTask
<1> HIDE DEF task
<1>6. GrantFits(task) /\ task.status \in LiveStatus
  BY Zenon, <1>1, <1>2, <1>5 DEF GrantFits
<1>7. QED
  BY Zenon, <1>1, <1>3, <1>5, <1>6, WorkerUnchanged, StayLive

(* A grant that expires was in force, so its task is live and stays so *)
LEMMA GrantExpiresStep ==
  ASSUME IInv, NEW w \in Workflows, NEW i \in Positions(w), GrantExpires(w, i)
  PROVE  IInv'
<1> DEFINE task == [tasks[w][i] EXCEPT !.grant = "EXPIRED"]
<1>1. tasks[w][i] \in Task /\ tasks[w][i].status \in LiveStatus
  BY Zenon, TaskFacts DEF GrantExpires, GrantFits
<1>2. tasks' = [tasks EXCEPT ![w] = PutTask(w, i, task)] /\ UNCHANGED workflow /\ UNCHANGED worker
  BY Zenon DEF GrantExpires
<1>3. task \in Task /\ task.kind = tasks[w][i].kind /\ task.status = tasks[w][i].status /\ task.grant = "EXPIRED"
  BY Zenon, <1>1 DEF Task
<1> HIDE DEF task
<1>4. GrantFits(task) /\ task.status \in LiveStatus
  BY Zenon, <1>1, <1>3 DEF GrantFits
<1>5. QED
  BY Zenon, <1>1, <1>2, <1>3, <1>4, WorkerUnchanged, StayLive

(* _finalize_execution_failure: the task is queued again, or fails with its workflow *)
LEMMA FailureStep ==
  ASSUME IInv, NEW p \in Workers, NEW error \in RunErrors, FinalizeExecutionFailure(p, error)
  PROVE  IInv'
<1> DEFINE w == worker[p].wf
           i == worker[p].pos
           n == worker[p].attempt
           ended == [tasks[w][i] EXCEPT !.attempts[n].status = "FAILED", !.attempts[n].error_code = error]
           failed == ClearLease(ended)
           again == [failed EXCEPT !.status = "READY"]
           over == DeactivateGrant([failed EXCEPT !.status = "FAILED"])
           row == Transition(workflow[w], "FAILED")
<1>1. w \in Workflows /\ i \in Positions(w)
  BY Zenon, HeldFacts DEF FinalizeExecutionFailure
<1>2. tasks[w][i].status = "RUNNING"
  BY Zenon DEF FinalizeExecutionFailure, RunStillLeased, HoldsLease, HeldTask
<1>3. /\ tasks[w][i] \in Task /\ GrantFits(tasks[w][i]) /\ tasks[w][i].status \in LiveStatus
      /\ workflow[w] \in WorkflowRow /\ workflow[w].block_reason # "INPUT_DISPOSITION_REQUIRED"
  BY Zenon, <1>1, <1>2, TaskFacts DEF LiveStatus
<1>4. /\ \/ tasks' = [tasks EXCEPT ![w] = PutTask(w, i, again)] /\ UNCHANGED workflow
         \/ /\ tasks' = [tasks EXCEPT ![w] = PutTask(w, i, over)]
            /\ workflow' = [workflow EXCEPT ![w] = row]
      /\ worker' = [worker EXCEPT ![p] = Idle]
  BY Zenon DEF FinalizeExecutionFailure, HeldTask
<1>5. SameTask(ended, tasks[w][i])
  BY Zenon, <1>3, EndAttempt
<1> HIDE DEF ended
<1>6. failed \in Task /\ failed.kind = tasks[w][i].kind /\ failed.grant = tasks[w][i].grant
  BY Zenon, <1>5, ClearLeaseTask DEF SameTask
<1> HIDE DEF failed
<1>7. CASE tasks' = [tasks EXCEPT ![w] = PutTask(w, i, again)] /\ UNCHANGED workflow
  <2>1. again \in Task /\ again.kind = tasks[w][i].kind /\ again.status = "READY" /\ again.grant = tasks[w][i].grant
    BY Zenon, <1>6, StatusTask DEF TaskStatus
  <2> HIDE DEF again
  <2>2. GrantFits(again) /\ again.status \in LiveStatus
    BY Zenon, <1>3, <2>1 DEF GrantFits, LiveStatus
  <2>3. QED
    BY Zenon, <1>1, <1>3, <1>4, <1>7, <2>1, <2>2, WorkerForgets, StayLive
<1>8. CASE tasks' = [tasks EXCEPT ![w] = PutTask(w, i, over)] /\ workflow' = [workflow EXCEPT ![w] = row]
  <2>1. over \in Task /\ over.kind = tasks[w][i].kind /\ over.status = "FAILED" /\ over.grant = "INACTIVE"
    <3> DEFINE closed == [failed EXCEPT !.status = "FAILED"]
    <3>1. closed \in Task /\ closed.kind = tasks[w][i].kind /\ closed.status = "FAILED"
      BY Zenon, <1>6, StatusTask DEF TaskStatus
    <3> HIDE DEF closed
    <3>2. DeactivateGrant(closed) \in Task /\ DeactivateGrant(closed).kind = tasks[w][i].kind
            /\ DeactivateGrant(closed).status = "FAILED" /\ DeactivateGrant(closed).grant = "INACTIVE"
      BY Zenon, <3>1, DeactivateGrantTask
    <3>3. QED
      BY Zenon, <3>2 DEF closed
  <2>2. "FAILED" \in WorkflowState
    BY Zenon DEF WorkflowState
  <2>3. /\ row \in WorkflowRow /\ row.state = "FAILED" /\ row.block_reason = workflow[w].block_reason
        /\ row.candidate_revision = workflow[w].candidate_revision
    BY Zenon, <1>3, <2>2, TransitionRow
  <2> HIDE DEF over, row
  <2>4. GrantFits(over) /\ StateFits(row.state, over)
    BY Zenon, <2>1, <2>3 DEF GrantFits, StateFits, LiveStatus
  <2>5. QED
    BY Zenon, <1>1, <1>3, <1>4, <1>8, <2>1, <2>3, <2>4, WorkerForgets, RewriteLast
<1>9. QED
  BY Zenon, <1>4, <1>7, <1>8

(* _finalize_execution_success: the last task ends and the next one follows *)
LEMMA SuccessStep ==
  ASSUME IInv, NEW p \in Workers, NEW revision \in Revisions, NEW size \in OutputSizes,
         FinalizeExecutionSuccess(p, revision, size)
  PROVE  IInv'
<1> DEFINE w == worker[p].wf
           i == worker[p].pos
           n == worker[p].attempt
           kind == tasks[w][i].kind
           row == IF kind = "IMPLEMENT"
                  THEN [workflow[w] EXCEPT !.candidate_revision = revision]
                  ELSE workflow[w]
           a == [tasks[w][i].attempts[n] EXCEPT !.status = "SUCCEEDED", !.artifact = row.candidate_revision,
                                                !.output = size]
           done == [tasks[w][i] EXCEPT !.status = "SUCCEEDED", !.attempts[n] = a]
           task == DeactivateGrant(ClearLease(done))
           new == AdvanceRow(row, kind)
           put == PutTask(w, i, task)
           ts == put \o FollowingTasks(kind)
<1>1. w \in Workflows /\ i \in Positions(w)
  BY Zenon, HeldFacts DEF FinalizeExecutionSuccess
<1>2. tasks[w][i].status = "RUNNING"
  BY Zenon DEF FinalizeExecutionSuccess, RunStillLeased, HoldsLease, HeldTask
<1>3. /\ tasks[w][i] \in Task /\ kind \in TaskKind /\ i = Len(tasks[w]) /\ i \in 1 .. Len(tasks[w])
      /\ tasks[w] \in Seq(Task) /\ Consistent(workflow[w], tasks[w])
      /\ workflow[w] \in WorkflowRow /\ workflow[w].block_reason # "INPUT_DISPOSITION_REQUIRED"
      /\ kind \in NeedsCandidate => workflow[w].candidate_revision # None
  BY Zenon, <1>1, <1>2, TaskFacts DEF LiveStatus, Task
<1>4. /\ workflow' = [workflow EXCEPT ![w] = new]
      /\ tasks' = [tasks EXCEPT ![w] = ts]
      /\ worker' = [worker EXCEPT ![p] = Idle]
  BY Zenon DEF FinalizeExecutionSuccess, HeldTask
<1>5. /\ row \in WorkflowRow /\ row.block_reason # "INPUT_DISPOSITION_REQUIRED"
      /\ row.candidate_revision \in Revisions \cup {None}
      /\ kind = "IMPLEMENT" \/ kind \in NeedsCandidate => row.candidate_revision # None
  BY Zenon, <1>3, NoneAssumption DEF WorkflowRow
<1> HIDE DEF row
<1>6. SameTask(done, tasks[w][i]) /\ done.status = "SUCCEEDED"
  <2>1. n \in 1 .. Len(tasks[w][i].attempts) => a \in Attempt
    <3>1. n \in 1 .. Len(tasks[w][i].attempts) => tasks[w][i].attempts[n] \in Attempt
      BY Zenon, <1>3, AttemptTyped
    <3>2. QED
      BY Zenon, <1>5, <3>1, SucceedAttempt
  <2> HIDE DEF a
  <2>2. QED
    BY Zenon, <1>3, <2>1, SucceedTask
<1> HIDE DEF done
<1>7. task \in Task /\ task.kind = kind /\ task.status = "SUCCEEDED" /\ task.grant = "INACTIVE"
  BY Zenon, <1>6, ClearLeaseTask, DeactivateGrantTask DEF SameTask
<1> HIDE DEF task
<1>8. /\ new \in WorkflowRow /\ new.state = NextState[kind]
      /\ new.block_reason = row.block_reason /\ new.candidate_revision = row.candidate_revision
  <2> DEFINE mid == Transition(row, "APPROVED_FOR_IMPLEMENTATION")
  <2>1. NextState[kind] \in WorkflowState /\ "APPROVED_FOR_IMPLEMENTATION" \in WorkflowState
    BY Zenon, <1>3, AdvanceTable DEF WorkflowState
  <2>2. mid \in WorkflowRow /\ mid.block_reason = row.block_reason /\ mid.candidate_revision = row.candidate_revision
    BY Zenon, <1>5, <2>1, TransitionRow
  <2>3. new = IF kind = "ARCHITECTURE_REVIEW" THEN Transition(mid, NextState[kind]) ELSE Transition(row, NextState[kind])
    BY Zenon DEF AdvanceRow
  <2> HIDE DEF mid, new
  <2>4. QED
    BY Zenon, <1>5, <2>1, <2>2, <2>3, TransitionRow
<1>9. /\ put \in Seq(Task) /\ Len(put) = Len(tasks[w])
      /\ \A j \in 1 .. Len(put) : put[j] = IF j = i THEN task ELSE tasks[w][j]
  BY <1>3, <1>7, PutInSeq DEF PutTask
<1>10. \A j \in 1 .. Len(put) : GrantFits(put[j]) /\ put[j].status \in {"SUCCEEDED", "RECONCILED"}
  <2>1. GrantFits(task)
    BY Zenon, <1>7 DEF GrantFits, LiveStatus
  <2>2. \A j \in 1 .. Len(tasks[w]) :
          GrantFits(tasks[w][j]) /\ (j < Len(tasks[w]) => tasks[w][j].status \in {"SUCCEEDED", "RECONCILED"})
    BY Zenon, <1>3 DEF Consistent
  <2> HIDE DEF put
  <2>3. SUFFICES ASSUME NEW j \in 1 .. Len(tasks[w])
                 PROVE  GrantFits(put[j]) /\ put[j].status \in {"SUCCEEDED", "RECONCILED"}
    BY Zenon, <1>9
  <2>4. CASE j = i
    BY Zenon, <1>7, <1>9, <2>1, <2>4
  <2>5. CASE j # i
    <3>1. j < Len(tasks[w]) /\ put[j] = tasks[w][j]
      BY <1>3, <1>9, <2>5, LenIsNat
    <3> QED
      BY Zenon, <2>2, <3>1
  <2>6. QED
    BY Zenon, <2>4, <2>5
<1>11. ts \in Seq(Task) /\ Consistent(new, ts) /\ Len(tasks[w]) <= Len(ts)
  <2>1. CASE kind = "CODE_REVIEW"
    <3>1. ts = put /\ new.state = "AWAITING_HUMAN_APPROVAL"
      <4>1. FollowingTasks(kind) = <<>> /\ NextState[kind] = "AWAITING_HUMAN_APPROVAL"
        BY Zenon, <1>3, <2>1, AdvanceTable
      <4> HIDE DEF put, new
      <4>2. put \o <<>> = put
        BY Zenon, <1>9, ConcatNone
      <4>3. QED
        BY Zenon, <1>8, <4>1, <4>2
    <3>2. GrantFits(task) /\ StateFits(new.state, task)
      BY Zenon, <1>7, <3>1 DEF GrantFits, StateFits, LiveStatus
    <3> HIDE DEF ts, new
    <3>3. Consistent(new, put)
      BY Zenon, <1>3, <1>5, <1>7, <1>8, <2>1, <3>2, ReplaceLast DEF PutTask, NeedsCandidate
    <3> HIDE DEF put
    <3>4. QED
      BY <1>3, <1>9, <3>1, <3>3, LenIsNat
  <2>2. CASE kind # "CODE_REVIEW"
    <3>1. PICK next \in TaskKind :
            /\ NextState[kind] = TASK_WORKFLOW_STATE[next]
            /\ FollowingTasks(kind) = <<NewTask(next)>>
            /\ next \in NeedsCandidate => kind = "IMPLEMENT" \/ kind \in NeedsCandidate
      BY Zenon, <1>3, <2>2, AdvanceTable
    <3> HIDE DEF put, new
    <3>2. ts = Append(put, NewTask(next))
      <4>1. NewTask(next) \in Task
        BY Zenon, NewTaskFits
      <4>2. put \o <<NewTask(next)>> = Append(put, NewTask(next))
        BY Zenon, <1>9, <4>1, ConcatOne
      <4>3. QED
        BY Zenon, <3>1, <4>2
    <3> HIDE DEF ts
    <3>3. Consistent(new, ts)
      BY Zenon, <1>5, <1>8, <1>9, <1>10, <3>1, <3>2, AppendNext
    <3>4. ts \in Seq(Task) /\ Len(ts) = Len(put) + 1
      BY <1>9, <3>2, NewTaskFits, AppendToSeq
    <3>5. QED
      BY <1>3, <1>9, <3>3, <3>4, LenIsNat
  <2>3. QED
    BY Zenon, <2>1, <2>2
<1> HIDE DEF ts, new
<1>12. QED
  BY Zenon, <1>1, <1>4, <1>8, <1>11, WorkerForgets, OneWorkflow

(* What the sweep makes of an expired task *)
LEMMA ReclaimedTask ==
  ASSUME NEW task \in Task, Expired(task)
  PROVE  /\ ReclaimTask(task) \in Task
         /\ ReclaimTask(task).kind = task.kind
         /\ task.status = "LEASED" => ReclaimTask(task).status = "READY" /\ ReclaimTask(task).grant = task.grant
         /\ task.status = "RUNNING" => ReclaimTask(task).status = "BLOCKED" /\ ReclaimTask(task).grant = "INACTIVE"
<1>1. CASE task.status = "LEASED"
  <2> DEFINE ready == [task EXCEPT !.status = "READY"]
  <2>1. ReclaimTask(task) = ClearLease(ready)
    BY Zenon, <1>1 DEF ReclaimTask
  <2>2. ready \in Task /\ ready.kind = task.kind /\ ready.status = "READY" /\ ready.grant = task.grant
    BY Zenon, StatusTask DEF TaskStatus
  <2> HIDE DEF ready
  <2>3. QED
    BY Zenon, <1>1, <2>1, <2>2, ClearLeaseTask
<1>2. CASE task.status = "RUNNING"
  <2> DEFINE running == {n \in DOMAIN task.attempts : task.attempts[n].status = "RUNNING"}
             newest == CHOOSE n \in running : \A m \in running : m <= n
             timed_out == IF running = {} THEN task ELSE
                            [task EXCEPT !.attempts[newest].status = "TIMED_OUT",
                                         !.attempts[newest].error_code = "LeaseExpired"]
             blocked == [timed_out EXCEPT !.status = "BLOCKED"]
  <2>1. ReclaimTask(task) = DeactivateGrant(ClearLease(blocked))
    BY Zenon, <1>2 DEF ReclaimTask
  <2> HIDE DEF newest, running
  <2>2. timed_out \in Task /\ timed_out.kind = task.kind
    <3>1. SameTask([task EXCEPT !.attempts[newest].status = "TIMED_OUT",
                                !.attempts[newest].error_code = "LeaseExpired"], task)
      BY Zenon, EndAttempt
    <3>2. QED
      BY Zenon, <3>1 DEF SameTask
  <2> HIDE DEF timed_out
  <2>3. blocked \in Task /\ blocked.kind = task.kind /\ blocked.status = "BLOCKED"
    BY Zenon, <2>2, StatusTask DEF TaskStatus
  <2> HIDE DEF blocked
  <2>4. QED
    BY <1>2, <2>1, <2>3, ClearLeaseTask, DeactivateGrantTask
<1>3. QED
  BY Zenon, <1>1, <1>2 DEF Expired

(* reclaim_expired_tasks: at most the last task of each workflow is swept *)
LEMMA ReclaimStep ==
  ASSUME IInv, NEW p \in Workers, NEW swept \in SUBSET ExpiredTasks, ReclaimExpiredTasks(p, swept)
  PROVE  IInv'
<1> DEFINE running(w) == {i \in Positions(w) : <<w, i>> \in swept /\ tasks[w][i].status = "RUNNING"}
           row(w) == IF running(w) # {} THEN BlockForReconciliation(workflow[w]) ELSE workflow[w]
           ts(w) == [i \in Positions(w) |->
                       IF <<w, i>> \in swept THEN ReclaimTask(tasks[w][i]) ELSE tasks[w][i]]
<1>1. /\ workflow' = [w \in Workflows |-> row(w)]
      /\ tasks' = [w \in Workflows |-> ts(w)]
      /\ UNCHANGED worker
  BY Zenon DEF ReclaimExpiredTasks
<1>2. ASSUME NEW w \in Workflows
      PROVE  /\ row(w) \in WorkflowRow \cup {None}
             /\ ts(w) \in Seq(Task)
             /\ Len(tasks[w]) <= Len(ts(w))
             /\ Consistent(row(w), ts(w))
  <2>1. /\ workflow[w] \in WorkflowRow \cup {None}
        /\ tasks[w] \in Seq(Task) /\ Len(tasks[w]) \in Nat
        /\ Consistent(workflow[w], tasks[w])
    BY Zenon, LenIsNat DEF IInv, TypeOK
  <2>2. CASE \A i \in Positions(w) : <<w, i>> \notin swept
    <3>1. running(w) = {}
      BY Zenon, <2>2
    <3>2. ts(w) = [i \in Positions(w) |-> tasks[w][i]]
      BY Zenon, <2>2
    <3>3. ts(w) = tasks[w]
      <4> HIDE DEF ts
      <4>1. QED
        BY Zenon, <2>1, <3>2, SeqIsFunction DEF Positions
    <3>4. row(w) = workflow[w]
      BY Zenon, <3>1
    <3> HIDE DEF row, ts
    <3>5. QED
      BY <2>1, <3>3, <3>4
  <2>3. CASE \E i \in Positions(w) : <<w, i>> \in swept
    <3>1. PICK i \in Positions(w) : <<w, i>> \in swept
      BY Zenon, <2>3
    <3>2. \A j \in Positions(w) : <<w, j>> \in swept => Expired(tasks[w][j])
      BY DEF ExpiredTasks
    <3>3. \A j \in Positions(w) : <<w, j>> \in swept => j = Len(tasks[w])
      BY Zenon, <3>2, TaskFacts DEF Expired, LiveStatus
    <3>4. i = Len(tasks[w]) /\ i \in 1 .. Len(tasks[w]) /\ Expired(tasks[w][i]) /\ tasks[w][i] \in Task
      BY Zenon, <3>1, <3>2, <3>3, TaskFacts
    <3> DEFINE task == ReclaimTask(tasks[w][i])
    <3>5. ts(w) = [tasks[w] EXCEPT ![i] = task]
      <4>1. [tasks[w] EXCEPT ![i] = task] = [j \in 1 .. Len(tasks[w]) |-> IF j = i THEN task ELSE tasks[w][j]]
        BY <2>1
      <4>2. QED
        BY Zenon, <3>1, <3>3, <3>4, <4>1 DEF Positions
    <3>6. /\ task \in Task
          /\ task.kind = tasks[w][i].kind
          /\ tasks[w][i].status = "LEASED" => task.status = "READY" /\ task.grant = tasks[w][i].grant
          /\ tasks[w][i].status = "RUNNING" => task.status = "BLOCKED" /\ task.grant = "INACTIVE"
      BY Zenon, <3>4, ReclaimedTask
    <3> HIDE DEF task, ts
    <3>7. ts(w) \in Seq(Task) /\ Len(ts(w)) = Len(tasks[w])
      BY <2>1, <3>4, <3>5, <3>6, PutInSeq
    <3>8. /\ workflow[w] \in WorkflowRow /\ StateFits(workflow[w].state, tasks[w][i])
          /\ workflow[w].block_reason # "INPUT_DISPOSITION_REQUIRED" /\ GrantFits(tasks[w][i])
      BY Zenon, <3>1, <3>4, TaskFacts DEF Expired, LiveStatus
    <3>9. CASE tasks[w][i].status = "LEASED"
      <4>1. running(w) = {}
        BY Zenon, <3>3, <3>4, <3>9
      <4>2. row(w) = workflow[w]
        BY Zenon, <4>1
      <4>3. GrantFits(task) /\ StateFits(workflow[w].state, task)
        BY Zenon, <3>6, <3>8, <3>9 DEF GrantFits, StateFits, LiveStatus
      <4> HIDE DEF row
      <4>4. Consistent(workflow[w], ts(w))
        BY <2>1, <3>4, <3>5, <3>6, <3>8, <4>3, ReplaceLast
      <4>5. QED
        BY <2>1, <3>7, <4>2, <4>4
    <3>10. CASE tasks[w][i].status = "RUNNING"
      <4>1. i \in running(w)
        BY Zenon, <3>1, <3>10
      <4>2. row(w) = BlockForReconciliation(workflow[w])
        BY Zenon, <4>1
      <4> HIDE DEF row
      <4>3. "BLOCKED" \in WorkflowState /\ "EXECUTION_RECONCILIATION_REQUIRED" \in BlockReason
        BY Zenon DEF WorkflowState, BlockReason
      <4>4. /\ row(w) \in WorkflowRow /\ row(w).state = "BLOCKED"
            /\ row(w).block_reason = "EXECUTION_RECONCILIATION_REQUIRED"
            /\ row(w).candidate_revision = workflow[w].candidate_revision
        BY <3>8, <4>2, <4>3, TransitionWithReason DEF BlockForReconciliation
      <4>5. GrantFits(task) /\ StateFits(row(w).state, task)
        BY Zenon, <3>6, <3>10, <4>4 DEF GrantFits, StateFits, LiveStatus
      <4>6. Consistent(row(w), ts(w))
        BY <2>1, <3>4, <3>5, <3>6, <3>8, <4>4, <4>5, ReplaceLast
      <4>7. QED
        BY <2>1, <3>7, <4>4, <4>6
    <3>11. QED
      BY Zenon, <3>4, <3>9, <3>10 DEF Expired
  <2>4. QED
    BY Zenon, <2>2, <2>3
<1> HIDE DEF row, ts
<1>3. QED
  BY Zenon, <1>1, <1>2, WorkerUnchanged, AllWorkflows

(* A workflow that exists has a row *)
LEMMA RowFacts ==
  ASSUME IInv, NEW w \in Workflows, Created(w)
  PROVE  /\ workflow[w] \in WorkflowRow
         /\ tasks[w] \in Seq(Task) /\ Len(tasks[w]) \in Nat
         /\ Consistent(workflow[w], tasks[w])
BY Zenon, LenIsNat DEF IInv, TypeOK, Created

(* disposition_workflow: only a workflow without tasks is dispositioned *)
LEMMA DispositionStep ==
  ASSUME IInv, NEW w \in Workflows, NEW decision \in {"RESUME", "REJECT"}, DispositionWorkflow(w, decision)
  PROVE  IInv'
<1>1. /\ workflow[w] \in WorkflowRow /\ tasks[w] \in Seq(Task) /\ Len(tasks[w]) \in Nat
      /\ Consistent(workflow[w], tasks[w])
      /\ workflow[w] # None /\ workflow[w].block_reason = "INPUT_DISPOSITION_REQUIRED"
      /\ UNCHANGED worker
  BY Zenon, RowFacts DEF DispositionWorkflow, Created
<1>2. tasks[w] = <<>> /\ 1 .. Len(tasks[w]) = {}
  BY <1>1 DEF Consistent
<1> DEFINE noted == [workflow[w] EXCEPT !.disposition = decision]
<1>3. noted \in WorkflowRow
  BY Zenon, <1>1 DEF WorkflowRow
<1>4. CASE decision = "REJECT"
  <2> DEFINE row == Transition([noted EXCEPT !.block_reason = "INPUT_REJECTED"], "REJECTED")
  <2>1. workflow' = [workflow EXCEPT ![w] = row] /\ UNCHANGED tasks
    BY Zenon, <1>1, <1>4 DEF DispositionWorkflow
  <2>2. "REJECTED" \in WorkflowState /\ "INPUT_REJECTED" \in BlockReason
    BY Zenon DEF WorkflowState, BlockReason
  <2> HIDE DEF noted
  <2>3. row \in WorkflowRow /\ row.state = "REJECTED"
    BY <1>3, <2>2, TransitionWithReason
  <2> HIDE DEF row
  <2>4. Consistent(row, tasks[w])
    BY Zenon, <1>2, <2>3, RowAssumption DEF Consistent
  <2>5. QED
    BY Zenon, <1>1, <2>1, <2>3, <2>4, RowOnly
<1>5. CASE decision = "RESUME"
  <2> DEFINE freed == [noted EXCEPT !.block_reason = "NULL"]
             kept == [freed EXCEPT !.containment_required = TRUE]
             row == Transition(kept, "PLANNING")
  <2>1. workflow' = [workflow EXCEPT ![w] = row] /\ tasks' = [tasks EXCEPT ![w] = Append(tasks[w], NewTask("PLAN"))]
    BY Zenon, <1>1, <1>5 DEF DispositionWorkflow
  <2> HIDE DEF noted
  <2>2. freed \in WorkflowRow /\ freed.block_reason = "NULL"
    BY Zenon, <1>3 DEF WorkflowRow, BlockReason
  <2> HIDE DEF freed
  <2>3. kept \in WorkflowRow /\ kept.block_reason = "NULL"
    BY Zenon, <2>2 DEF WorkflowRow
  <2> HIDE DEF kept
  <2>4. row \in WorkflowRow /\ row.state = "PLANNING" /\ row.block_reason = "NULL"
    BY Zenon, <2>3, TransitionRow DEF WorkflowState
  <2> HIDE DEF row
  <2>5. "PLAN" \in TaskKind /\ "PLAN" \notin NeedsCandidate /\ TASK_WORKFLOW_STATE["PLAN"] = "PLANNING"
    BY Zenon DEF TaskKind, NeedsCandidate, TASK_WORKFLOW_STATE
  <2>6. Consistent(row, Append(tasks[w], NewTask("PLAN")))
    BY Zenon, <1>1, <1>2, <2>4, <2>5, AppendNext
  <2>7. /\ Append(tasks[w], NewTask("PLAN")) \in Seq(Task)
        /\ Len(tasks[w]) <= Len(Append(tasks[w], NewTask("PLAN")))
    BY <1>1, <2>5, NewTaskFits, AppendToSeq
  <2>8. QED
    BY Zenon, <1>1, <2>1, <2>4, <2>6, <2>7, WorkerUnchanged, OneWorkflow
<1>6. QED
  BY Zenon, <1>4, <1>5

(* reconcile_execution: the blocked, hence last, task is closed *)
LEMMA ReconcileStep ==
  ASSUME IInv, NEW w \in Workflows, NEW i \in Positions(w), NEW decision \in {"RETRY", "FAIL"},
         ReconcileExecution(w, i, decision)
  PROVE  IInv'
<1> DEFINE task == [tasks[w][i] EXCEPT !.status = "RECONCILED",
                                       !.attempts[AbandonedAttempt(tasks[w][i])].reconciliation = decision]
           kind == tasks[w][i].kind
           closed == PutTask(w, i, task)
<1>1. tasks[w][i].status = "BLOCKED" /\ UNCHANGED worker
  BY Zenon DEF ReconcileExecution, Reconcilable
<1>2. /\ tasks[w] \in Seq(Task) /\ i \in 1 .. Len(tasks[w]) /\ i = Len(tasks[w]) /\ Len(tasks[w]) \in Nat
      /\ tasks[w][i] \in Task /\ kind \in TaskKind /\ GrantFits(tasks[w][i])
      /\ workflow[w] \in WorkflowRow /\ Consistent(workflow[w], tasks[w])
      /\ kind \in NeedsCandidate => workflow[w].candidate_revision # None
      /\ tasks[w][i].status \in LiveStatus \cup {"BLOCKED"}
  BY Zenon, <1>1, TaskFacts, LenIsNat DEF Task
<1>3. SameTask(task, tasks[w][i]) /\ task.status = "RECONCILED"
  BY Zenon, <1>2, ReconcileAttempt
<1>4. \/ /\ workflow' = [workflow EXCEPT ![w] =
                           Transition([workflow[w] EXCEPT !.block_reason = "NULL"], TASK_WORKFLOW_STATE[kind])]
         /\ tasks' = [tasks EXCEPT ![w] = Append(closed, NewTask(kind))]
      \/ /\ workflow' = [workflow EXCEPT ![w] =
              Transition([workflow[w] EXCEPT !.block_reason = "EXECUTION_RECONCILED_FAILED"], "FAILED")]
         /\ tasks' = [tasks EXCEPT ![w] = closed]
  BY Zenon DEF ReconcileExecution
<1> HIDE DEF task
<1>5. task \in Task /\ task.kind = kind /\ GrantFits(task)
  BY Zenon, <1>1, <1>2, <1>3 DEF SameTask, GrantFits, LiveStatus
<1>6. /\ closed \in Seq(Task) /\ Len(closed) = Len(tasks[w])
      /\ \A j \in 1 .. Len(closed) : closed[j] = IF j = i THEN task ELSE tasks[w][j]
  BY <1>2, <1>5, PutInSeq DEF PutTask
<1>7. CASE /\ workflow' = [workflow EXCEPT ![w] =
                Transition([workflow[w] EXCEPT !.block_reason = "NULL"], TASK_WORKFLOW_STATE[kind])]
           /\ tasks' = [tasks EXCEPT ![w] = Append(closed, NewTask(kind))]
  <2> DEFINE row == Transition([workflow[w] EXCEPT !.block_reason = "NULL"], TASK_WORKFLOW_STATE[kind])
  <2>1. TASK_WORKFLOW_STATE[kind] \in WorkflowState /\ "NULL" \in BlockReason
    BY Zenon, <1>2, StageTransitions DEF BlockReason
  <2>2. /\ row \in WorkflowRow /\ row.state = TASK_WORKFLOW_STATE[kind] /\ row.block_reason = "NULL"
        /\ row.candidate_revision = workflow[w].candidate_revision
    BY <1>2, <2>1, TransitionWithReason
  <2>3. workflow' = [workflow EXCEPT ![w] = row]
    BY Zenon, <1>7
  <2> HIDE DEF row, closed
  <2>4. \A j \in 1 .. Len(closed) : GrantFits(closed[j]) /\ closed[j].status \in {"SUCCEEDED", "RECONCILED"}
    BY <1>2, <1>3, <1>5, <1>6 DEF Consistent
  <2>5. Consistent(row, Append(closed, NewTask(kind)))
    BY Zenon, <1>2, <1>6, <2>2, <2>4, AppendNext
  <2>6. Append(closed, NewTask(kind)) \in Seq(Task) /\ Len(tasks[w]) <= Len(Append(closed, NewTask(kind)))
    BY <1>2, <1>6, NewTaskFits, AppendToSeq
  <2>7. QED
    BY Zenon, <1>1, <1>7, <2>2, <2>3, <2>5, <2>6, WorkerUnchanged, OneWorkflow
<1>8. CASE /\ workflow' = [workflow EXCEPT ![w] =
                Transition([workflow[w] EXCEPT !.block_reason = "EXECUTION_RECONCILED_FAILED"], "FAILED")]
           /\ tasks' = [tasks EXCEPT ![w] = closed]
  <2> DEFINE row == Transition([workflow[w] EXCEPT !.block_reason = "EXECUTION_RECONCILED_FAILED"], "FAILED")
  <2>1. "FAILED" \in WorkflowState /\ "EXECUTION_RECONCILED_FAILED" \in BlockReason
    BY Zenon DEF BlockReason, WorkflowState
  <2>2. /\ row \in WorkflowRow /\ row.state = "FAILED" /\ row.block_reason = "EXECUTION_RECONCILED_FAILED"
        /\ row.candidate_revision = workflow[w].candidate_revision
    BY <1>2, <2>1, TransitionWithReason
  <2>3. workflow' = [workflow EXCEPT ![w] = row]
    BY Zenon, <1>8
  <2> HIDE DEF row
  <2>4. StateFits(row.state, task)
    BY Zenon, <1>3, <2>2 DEF StateFits, LiveStatus
  <2>5. QED
    BY Zenon, <1>1, <1>2, <1>5, <1>8, <2>2, <2>3, <2>4, WorkerUnchanged, RewriteLast
<1>9. QED
  BY Zenon, <1>4, <1>7, <1>8

(* approve: the last task of a workflow that awaits approval has succeeded *)
LEMMA ApproveStep ==
  ASSUME IInv, NEW w \in Workflows, NEW revision \in Revisions, NEW decision \in {"APPROVED", "REJECTED"},
         ApproveMerge(w, revision, decision)
  PROVE  IInv'
<1> DEFINE noted == [workflow[w] EXCEPT !.merge_approval = [decision |-> decision, revision |-> revision]]
           row == Transition(noted, IF decision = "APPROVED" THEN "APPROVED" ELSE "REJECTED")
<1>1. /\ workflow[w] \in WorkflowRow /\ workflow[w] # None /\ workflow[w].state = "AWAITING_HUMAN_APPROVAL"
      /\ tasks[w] \in Seq(Task) /\ Len(tasks[w]) \in Nat /\ Consistent(workflow[w], tasks[w])
      /\ UNCHANGED <<tasks, worker>> /\ workflow' = [workflow EXCEPT ![w] = row]
  BY Zenon, RowFacts DEF ApproveMerge, Created
<1>2. /\ noted \in WorkflowRow /\ noted.block_reason = workflow[w].block_reason
      /\ noted.candidate_revision = workflow[w].candidate_revision
  BY Zenon, <1>1 DEF WorkflowRow
<1> HIDE DEF noted
<1>3. /\ row \in WorkflowRow /\ row.state \in {"APPROVED", "REJECTED"}
      /\ row.block_reason = workflow[w].block_reason
      /\ row.candidate_revision = workflow[w].candidate_revision
  BY <1>2, TransitionRow DEF WorkflowState
<1> HIDE DEF row
<1>4. tasks[w] # <<>>
  BY Zenon, <1>1 DEF Consistent
<1> DEFINE last == tasks[w][Len(tasks[w])]
<1>5. last \in Task /\ StateFits(workflow[w].state, last)
  BY <1>1, <1>4 DEF Consistent
<1>6. last.status = "SUCCEEDED"
  BY Zenon, <1>1, <1>5, StageTransitions DEF StateFits, Task, TaskStatus, LiveStatus
<1>7. StateFits(row.state, last)
  BY Zenon, <1>3, <1>6 DEF StateFits, LiveStatus
<1>8. Consistent(row, tasks[w])
  BY Zenon, <1>1, <1>3, <1>4, <1>7, RowAssumption DEF Consistent
<1>9. QED
  BY Zenon, <1>1, <1>3, <1>8, RowOnly

(* cancel_workflow: no task of a cancelled workflow stays live *)
LEMMA CancelStep ==
  ASSUME IInv, NEW w \in Workflows, CancelWorkflow(w)
  PROVE  IInv'
<1> DEFINE row == Transition(workflow[w], "CANCELLED")
           stop(i) == DeactivateGrant([tasks[w][i] EXCEPT !.status = "CANCELLED"])
           ts == [i \in 1 .. Len(tasks[w]) |-> IF tasks[w][i].status \in LiveStatus THEN stop(i) ELSE tasks[w][i]]
<1>1. /\ workflow[w] \in WorkflowRow /\ workflow[w] # None
      /\ tasks[w] \in Seq(Task) /\ Len(tasks[w]) \in Nat /\ Consistent(workflow[w], tasks[w])
      /\ UNCHANGED worker /\ workflow' = [workflow EXCEPT ![w] = row]
  BY Zenon, RowFacts DEF CancelWorkflow, Created
<1>2. tasks' = [tasks EXCEPT ![w] = ts]
  BY Zenon DEF CancelWorkflow, LiveStatus, Positions
<1>3. workflow[w].state # "FAILED"
  BY Zenon DEF CancelWorkflow, TransitionAllowed, ALLOWED_TRANSITIONS, WorkflowState
<1>4. "CANCELLED" \in WorkflowState
  BY Zenon DEF WorkflowState
<1>5. /\ row \in WorkflowRow /\ row.state = "CANCELLED"
      /\ row.block_reason = workflow[w].block_reason
      /\ row.candidate_revision = workflow[w].candidate_revision
  BY Zenon, <1>1, <1>4, TransitionRow
<1> HIDE DEF row
<1>6. ASSUME NEW i \in 1 .. Len(tasks[w])
      PROVE  /\ stop(i) \in Task /\ stop(i).kind = tasks[w][i].kind
             /\ stop(i).status = "CANCELLED" /\ stop(i).grant = "INACTIVE"
  <2> DEFINE t == [tasks[w][i] EXCEPT !.status = "CANCELLED"]
  <2>1. tasks[w][i] \in Task
    BY <1>1
  <2>2. t \in Task /\ t.kind = tasks[w][i].kind /\ t.status = "CANCELLED"
    BY Zenon, <2>1, StatusTask DEF TaskStatus
  <2> HIDE DEF t
  <2>3. /\ DeactivateGrant(t) \in Task /\ DeactivateGrant(t).kind = tasks[w][i].kind
        /\ DeactivateGrant(t).status = "CANCELLED" /\ DeactivateGrant(t).grant = "INACTIVE"
    BY Zenon, <2>2, DeactivateGrantTask
  <2>4. QED
    BY Zenon, <2>3 DEF t
<1> HIDE DEF stop
<1>7. ts \in [1 .. Len(tasks[w]) -> Task]
  BY <1>1, <1>6
<1>8. \A i \in 1 .. Len(tasks[w]) : ts[i] = IF tasks[w][i].status \in LiveStatus THEN stop(i) ELSE tasks[w][i]
  BY Zenon
<1> HIDE DEF ts
<1>9. ts \in Seq(Task) /\ Len(ts) = Len(tasks[w])
  BY Zenon, <1>1, <1>7, FunctionIsSeq
<1>10. ASSUME NEW i \in 1 .. Len(ts)
       PROVE  /\ GrantFits(ts[i]) /\ ts[i].kind = tasks[w][i].kind
              /\ i < Len(ts) => ts[i].status \in {"SUCCEEDED", "RECONCILED"}
  <2>1. CASE tasks[w][i].status \in LiveStatus
    <3>1. i = Len(tasks[w])
      BY Zenon, <1>9, <2>1, TaskFacts DEF Positions
    <3>2. GrantFits(stop(i)) /\ ts[i] = stop(i)
      BY Zenon, <1>6, <1>8, <1>9, <2>1 DEF GrantFits, LiveStatus
    <3>3. QED
      BY <1>1, <1>6, <1>9, <3>1, <3>2
  <2>2. CASE tasks[w][i].status \notin LiveStatus
    BY Zenon, <1>1, <1>8, <1>9, <2>2 DEF Consistent
  <2>3. QED
    BY Zenon, <2>1, <2>2
<1>11. tasks[w] # <<>> => StateFits("CANCELLED", ts[Len(ts)])
  <2> SUFFICES ASSUME tasks[w] # <<>> PROVE StateFits("CANCELLED", ts[Len(ts)])
    BY Zenon
  <2> DEFINE n == Len(tasks[w])
  <2>1. n \in 1 .. Len(tasks[w]) /\ StateFits(workflow[w].state, tasks[w][n])
    BY <1>1 DEF Consistent
  <2>2. CASE tasks[w][n].status \in LiveStatus
    BY Zenon, <1>6, <1>8, <1>9, <2>1, <2>2 DEF StateFits, LiveStatus
  <2>3. CASE tasks[w][n].status \notin LiveStatus
    BY Zenon, <1>3, <1>8, <1>9, <2>1, <2>3 DEF StateFits
  <2>4. QED
    BY Zenon, <2>2, <2>3
<1>12. ts = <<>> <=> tasks[w] = <<>>
  BY <1>1, <1>9
<1>13. Consistent(row, ts)
  <2>1. row # None
    BY Zenon, <1>5, RowAssumption
  <2>2. ts # <<>> => Len(ts) \in 1 .. Len(ts) /\ Len(ts) = Len(tasks[w])
    BY <1>9
  <2>3. ts # <<>> => (ts[Len(ts)].kind \in NeedsCandidate => row.candidate_revision # None)
    BY Zenon, <1>1, <1>5, <1>10, <1>12, <2>2 DEF Consistent
  <2>4. row.block_reason = "INPUT_DISPOSITION_REQUIRED" => ts = <<>>
    BY Zenon, <1>1, <1>5, <1>12 DEF Consistent
  <2>5. QED
    BY Zenon, <1>5, <1>10, <1>11, <1>12, <2>1, <2>3, <2>4 DEF Consistent
<1>14. Len(tasks[w]) <= Len(ts)
  BY <1>1, <1>9
<1>15. QED
  BY Zenon, <1>1, <1>2, <1>5, <1>9, <1>13, <1>14, WorkerUnchanged, OneWorkflow
-----------------------------------------------------------------------------
(* The invariant holds *)

(* Every step of the core preserves the invariant *)
LEMMA NextIInv == IInv /\ [Next]_vars => IInv'
<1> SUFFICES ASSUME IInv, [Next]_vars PROVE IInv'
  BY Zenon
<1>1. ASSUME NEW p \in Workers, WorkerStep(p) PROVE IInv'
  <2>1. ASSUME NEW swept \in SUBSET ExpiredTasks, ReclaimExpiredTasks(p, swept) PROVE IInv'
    BY Zenon, <2>1, ReclaimStep
  <2>2. ASSUME NEW w \in Workflows, NEW i \in Positions(w), LeaseNextTask(p, w, i) PROVE IInv'
    BY Zenon, <2>2, LeaseStep
  <2>3. ASSUME NEW provider \in Providers, PrepareExecution(p, provider) PROVE IInv'
    BY Zenon, <2>3, PrepareStep
  <2>4. CASE RoutingBlocked(p)
    BY Zenon, <2>4, RoutingBlockedStep
  <2>5. CASE PrepareRefused(p)
    BY Zenon, <2>5, ForgetStep DEF PrepareRefused
  <2>6. CASE HeartbeatTask(p)
    BY Zenon, <2>6, HeartbeatStep
  <2>7. ASSUME NEW revision \in Revisions, NEW size \in OutputSizes, FinalizeExecutionSuccess(p, revision, size)
        PROVE  IInv'
    BY Zenon, <2>7, SuccessStep
  <2>8. ASSUME NEW error \in RunErrors, FinalizeExecutionFailure(p, error) PROVE IInv'
    BY Zenon, <2>8, FailureStep
  <2>9. CASE FinalizeRefused(p)
    BY Zenon, <2>9, ForgetStep DEF FinalizeRefused
  <2>10. QED
    BY Zenon, <1>1, <2>1, <2>2, <2>3, <2>4, <2>5, <2>6, <2>7, <2>8, <2>9 DEF WorkerStep
<1>2. ASSUME NEW w \in Workflows, HumanStep(w) PROVE IInv'
  <2>1. ASSUME NEW suspicious \in BOOLEAN, CreateWorkflow(w, suspicious) PROVE IInv'
    BY Zenon, <2>1, CreateStep
  <2>2. ASSUME NEW decision \in {"RESUME", "REJECT"}, DispositionWorkflow(w, decision) PROVE IInv'
    BY Zenon, <2>2, DispositionStep
  <2>3. ASSUME NEW i \in Positions(w), NEW decision \in {"RETRY", "FAIL"}, ReconcileExecution(w, i, decision)
        PROVE  IInv'
    BY Zenon, <2>3, ReconcileStep
  <2>4. ASSUME NEW revision \in Revisions, NEW decision \in {"APPROVED", "REJECTED"},
               ApproveMerge(w, revision, decision)
        PROVE  IInv'
    BY Zenon, <2>4, ApproveStep
  <2>5. CASE CancelWorkflow(w)
    BY Zenon, <2>5, CancelStep
  <2>6. QED
    BY Zenon, <1>2, <2>1, <2>2, <2>3, <2>4, <2>5 DEF HumanStep
<1>3. CASE Environment
  <2>1. ASSUME NEW p \in Workers, Crash(p) PROVE IInv'
    BY Zenon, <2>1, ForgetStep DEF Crash
  <2>2. ASSUME NEW w \in Workflows, NEW i \in Positions(w), LeaseTick(w, i) PROVE IInv'
    BY Zenon, <2>2, LeaseTickStep
  <2>3. ASSUME NEW w \in Workflows, NEW i \in Positions(w), GrantExpires(w, i) PROVE IInv'
    BY Zenon, <2>3, GrantExpiresStep
  <2>4. QED
    BY Zenon, <1>3, <2>1, <2>2, <2>3 DEF Environment
<1>4. CASE UNCHANGED vars
  BY Zenon, <1>4 DEF vars, IInv, TypeOK, HandleFits, Positions
<1>5. QED
  BY Zenon, <1>1, <1>2, <1>3, <1>4 DEF Next

(* In every behaviour of the core, for any number of workflows, workers,     *)
(* tokens, providers and revisions, rows and tasks stay consistent.          *)
THEOREM Inductive == Spec => []IInv
<1>1. Init => IInv
  BY Zenon, InitIInv
<1>2. IInv /\ [Next]_vars => IInv'
  BY Zenon, NextIInv
<1>3. QED
  BY <1>1, <1>2, PTL DEF Spec

(* Every row, task, attempt and worker handle keeps its type. *)
THEOREM TypeCorrect == Spec => []TypeOK
<1>1. IInv => TypeOK
  BY Zenon DEF IInv
<1>2. QED
  BY <1>1, Inductive, PTL

(* An agent's grant is in force exactly while its task can still be run:     *)
(* success, failure, expiry, routing blocks and cancellation each deactivate *)
(* it, a retry keeps it.                                                     *)
THEOREM GrantsFollowTasks == Spec => []GrantFollowsTask
<1>1. IInv => GrantFollowsTask
  BY Zenon DEF IInv, Consistent, GrantFits, GrantFollowsTask, Positions
<1>2. QED
  BY <1>1, Inductive, PTL

(* A workflow is in a work state exactly while it has a live task, which is  *)
(* its last one and belongs to that state.                                   *)
THEOREM LiveTaskDrives == Spec => []LiveTaskDrivesState
<1>1. ASSUME IInv, NEW w \in Workflows, NEW i \in LiveTasks(w)
      PROVE  /\ i = Len(tasks[w]) /\ InWork(w)
             /\ workflow[w].state = TASK_WORKFLOW_STATE[tasks[w][i].kind]
  <2>1. i \in Positions(w) /\ tasks[w][i].status \in LiveStatus
    BY Zenon DEF LiveTasks
  <2>2. /\ i = Len(tasks[w]) /\ workflow[w] # None /\ tasks[w][i] \in Task
        /\ workflow[w].state = TASK_WORKFLOW_STATE[tasks[w][i].kind]
    BY Zenon, <1>1, <2>1, TaskFacts DEF StateFits
  <2>3. tasks[w][i].kind \in TaskKind
    BY Zenon, <2>2 DEF Task
  <2>4. QED
    BY Zenon, <2>2, <2>3, StageTransitions DEF InWork, Created
<1>2. ASSUME IInv, NEW w \in Workflows, InWork(w)
      PROVE  LiveTasks(w) # {}
  <2> DEFINE n == Len(tasks[w])
  <2>1. /\ workflow[w] \in WorkflowRow /\ workflow[w] # None /\ workflow[w].state \in WorkState
        /\ tasks[w] \in Seq(Task) /\ Consistent(workflow[w], tasks[w])
    BY Zenon, <1>2, RowFacts DEF InWork, Created
  <2>2. tasks[w] # <<>>
    BY Zenon, <2>1, WorkStates DEF Consistent
  <2>3. n \in 1 .. Len(tasks[w]) /\ tasks[w][n] \in Task /\ StateFits(workflow[w].state, tasks[w][n])
    BY <2>1, <2>2 DEF Consistent
  <2>4. tasks[w][n].status \in LiveStatus
    BY Zenon, <2>1, <2>3, WorkStates DEF StateFits, Task, TaskStatus, LiveStatus
  <2>5. QED
    BY Zenon, <2>3, <2>4 DEF LiveTasks, Positions
<1>3. IInv => LiveTaskDrivesState
  BY Zenon, <1>1, <1>2 DEF LiveTaskDrivesState
<1>4. QED
  BY <1>3, Inductive, PTL

(* No transition on a worker's path can raise: the state machine allows      *)
(* whatever a worker that passes its lease check is about to record, and the *)
(* sweep of expired leases meets each workflow at most once.                 *)
THEOREM WorkersNeverRaise == Spec => []NoTransitionRaises
<1>1. ASSUME IInv, NEW w \in Workflows, NEW i \in Positions(w), tasks[w][i].status \in LiveStatus
      PROVE  /\ AdvanceAllowed(workflow[w], tasks[w][i].kind)
             /\ TransitionAllowed(workflow[w].state, "FAILED")
             /\ TransitionAllowed(workflow[w].state, "BLOCKED")
             /\ i = Len(tasks[w])
  <2>1. /\ i = Len(tasks[w]) /\ tasks[w][i] \in Task
        /\ workflow[w].state = TASK_WORKFLOW_STATE[tasks[w][i].kind]
        /\ tasks[w][i].kind \in NeedsCandidate => workflow[w].candidate_revision # None
    BY Zenon, <1>1, TaskFacts DEF StateFits
  <2>2. tasks[w][i].kind \in TaskKind
    BY Zenon, <2>1 DEF Task
  <2>3. QED
    BY Zenon, <2>1, <2>2, StageTransitions, AdvanceTable DEF AdvanceAllowed, NeedsCandidate
<1>2. ASSUME IInv, NEW p \in Workers, worker[p].pc = "executing", RunStillLeased(p)
      PROVE  /\ AdvanceAllowed(workflow[worker[p].wf], HeldTask(p).kind)
             /\ TransitionAllowed(workflow[worker[p].wf].state, "FAILED")
  BY Zenon, <1>1, <1>2, HeldFacts DEF RunStillLeased, HoldsLease, HeldTask, LiveStatus
<1>3. ASSUME IInv, NEW p \in Workers, worker[p].pc = "leased", HoldsLease(HeldTask(p), "LEASED", worker[p].token)
      PROVE  TransitionAllowed(workflow[worker[p].wf].state, "BLOCKED")
  BY Zenon, <1>1, <1>3, HeldFacts DEF HoldsLease, HeldTask, LiveStatus
<1>4. ASSUME IInv, NEW s \in ExpiredTasks
      PROVE  /\ s[1] \in Workflows /\ s = <<s[1], Len(tasks[s[1]])>>
             /\ TransitionAllowed(workflow[s[1]].state, "BLOCKED")
  <2>1. PICK w \in Workflows : s \in {w} \X {i \in Positions(w) : Expired(tasks[w][i])}
    BY Zenon DEF ExpiredTasks
  <2>2. s = <<w, s[2]>> /\ s[2] \in Positions(w) /\ tasks[w][s[2]].status \in LiveStatus
    BY <2>1 DEF Expired, LiveStatus
  <2>3. QED
    BY <1>1, <1>4, <2>2
<1>5. IInv => NoTransitionRaises
  BY Zenon, <1>2, <1>3, <1>4 DEF NoTransitionRaises
<1>6. QED
  BY <1>5, Inductive, PTL
-----------------------------------------------------------------------------
(* Rows and what the lifecycle sees of them *)

(* n transitions, to a target state *)
Moved(row, new, target, n) ==
  /\ new \in WorkflowRow
  /\ new.state = target
  /\ new.version = row.version + n
  /\ new.candidate_revision = row.candidate_revision
  /\ new.merge_approval = row.merge_approval

(* A transition of a row *)
LEMMA MovedRow ==
  ASSUME NEW row \in WorkflowRow, NEW target \in WorkflowState
  PROVE  /\ Moved(row, Transition(row, target), target, 1)
         /\ Transition(row, target).block_reason = row.block_reason
<1> DEFINE moved == [row EXCEPT !.state = target]
<1>1. Transition(row, target) = [moved EXCEPT !.version = row.version + 1]
  BY Zenon DEF Transition
<1>2. /\ moved \in WorkflowRow /\ moved.state = target /\ moved.block_reason = row.block_reason
      /\ moved.candidate_revision = row.candidate_revision /\ moved.merge_approval = row.merge_approval
  BY Zenon DEF WorkflowRow
<1>3. row.version + 1 \in Nat
  BY DEF WorkflowRow
<1> HIDE DEF moved
<1>4. LET new == [moved EXCEPT !.version = row.version + 1]
      IN /\ new \in WorkflowRow /\ new.state = target /\ new.block_reason = row.block_reason
         /\ new.version = row.version + 1
         /\ new.candidate_revision = row.candidate_revision /\ new.merge_approval = row.merge_approval
  BY Zenon, <1>2, <1>3 DEF WorkflowRow
<1> QED
  BY Zenon, <1>1, <1>4 DEF Moved

(* A transition that also records why the workflow is blocked *)
LEMMA MovedWithReason ==
  ASSUME NEW row \in WorkflowRow, NEW target \in WorkflowState, NEW reason \in BlockReason
  PROVE  LET new == Transition([row EXCEPT !.block_reason = reason], target)
         IN Moved(row, new, target, 1) /\ new.block_reason = reason
<1> DEFINE noted == [row EXCEPT !.block_reason = reason]
<1>1. /\ noted \in WorkflowRow /\ noted.block_reason = reason /\ noted.version = row.version
      /\ noted.candidate_revision = row.candidate_revision /\ noted.merge_approval = row.merge_approval
  BY Zenon DEF WorkflowRow
<1> HIDE DEF noted
<1>2. Moved(row, Transition(noted, target), target, 1) /\ Transition(noted, target).block_reason = reason
  BY Zenon, <1>1, MovedRow DEF Moved
<1> QED
  BY Zenon, <1>2 DEF noted

(* The lifecycle sees the state and the version move *)
LEMMA MovedView ==
  ASSUME NEW row \in WorkflowRow, NEW new, NEW target, NEW n, Moved(row, new, target, n)
  PROVE  /\ row # None /\ new # None /\ StateOf(row) = row.state /\ CandidateOf(row) = row.candidate_revision
         /\ StateOf(new) = target /\ VersionOf(new) = VersionOf(row) + n
         /\ CandidateOf(new) = CandidateOf(row) /\ ApprovedOf(new) = ApprovedOf(row)
<1>1. row # None /\ new # None
  BY Zenon, RowAssumption DEF Moved
<1> QED
  BY Zenon, <1>1 DEF Moved, StateOf, VersionOf, CandidateOf, ApprovedOf

(* Only a blocked workflow is on hold *)
LEMMA NoHold ==
  ASSUME NEW row, NEW ts,
         row = None \/ row.state # "BLOCKED"
           \/ row.block_reason \notin {"INPUT_DISPOSITION_REQUIRED", "EXECUTION_RECONCILIATION_REQUIRED"}
  PROVE  HoldOf(row, ts) = None
BY Zenon DEF HoldOf

(* Tasks that keep their kinds keep the hold *)
LEMMA SameHold ==
  ASSUME NEW row, NEW ts \in Seq(Task), NEW us \in Seq(Task), Len(us) = Len(ts),
         \A i \in 1 .. Len(ts) : us[i].kind = ts[i].kind
  PROVE  HoldOf(row, us) = HoldOf(row, ts)
<1>1. CASE ts = <<>>
  <2>1. us = <<>>
    BY <1>1
  <2> QED
    BY Zenon, <1>1, <2>1
<1>2. CASE ts # <<>>
  <2>1. Len(ts) \in 1 .. Len(ts)
    BY <1>2
  <2>2. us[Len(us)].kind = ts[Len(ts)].kind
    BY Zenon, <2>1
  <2> QED
    BY Zenon, <2>2 DEF HoldOf
<1> QED
  BY Zenon, <1>1, <1>2
-----------------------------------------------------------------------------
(* What the lifecycle sees of a step *)

(* The variables of the lifecycle *)
LVars == <<AbstractState, AbstractVersion, AbstractCandidate, AbstractHold, AbstractApproved>>

(* What the lifecycle sees of a step that rewrites one workflow *)
LEMMA RewrittenView ==
  ASSUME NEW w \in Workflows, NEW new, NEW us, workflow'[w] = new, tasks'[w] = us,
         \A v \in Workflows : v # w => workflow'[v] = workflow[v] /\ tasks'[v] = tasks[v]
  PROVE  /\ AbstractState' = [AbstractState EXCEPT ![w] = StateOf(new)]
         /\ AbstractVersion' = [AbstractVersion EXCEPT ![w] = VersionOf(new)]
         /\ AbstractCandidate' = [AbstractCandidate EXCEPT ![w] = CandidateOf(new)]
         /\ AbstractHold' = [AbstractHold EXCEPT ![w] = HoldOf(new, us)]
         /\ AbstractApproved' = [AbstractApproved EXCEPT ![w] = ApprovedOf(new)]
<1>2. AbstractState' = [AbstractState EXCEPT ![w] = StateOf(new)]
  <2>1. AbstractState = [v \in Workflows |-> StateOf(workflow[v])] /\ AbstractState' = [v \in Workflows |-> StateOf(workflow'[v])]
    BY Zenon DEF AbstractState
  <2>2. \A v \in Workflows : StateOf(workflow'[v]) = IF v = w THEN StateOf(new) ELSE StateOf(workflow[v])
    BY Zenon
  <2> QED
    BY Zenon, <2>1, <2>2
<1>3. AbstractVersion' = [AbstractVersion EXCEPT ![w] = VersionOf(new)]
  <2>1. AbstractVersion = [v \in Workflows |-> VersionOf(workflow[v])] /\ AbstractVersion' = [v \in Workflows |-> VersionOf(workflow'[v])]
    BY Zenon DEF AbstractVersion
  <2>2. \A v \in Workflows : VersionOf(workflow'[v]) = IF v = w THEN VersionOf(new) ELSE VersionOf(workflow[v])
    BY Zenon
  <2> QED
    BY Zenon, <2>1, <2>2
<1>4. AbstractCandidate' = [AbstractCandidate EXCEPT ![w] = CandidateOf(new)]
  <2>1. AbstractCandidate = [v \in Workflows |-> CandidateOf(workflow[v])] /\ AbstractCandidate' = [v \in Workflows |-> CandidateOf(workflow'[v])]
    BY Zenon DEF AbstractCandidate
  <2>2. \A v \in Workflows : CandidateOf(workflow'[v]) = IF v = w THEN CandidateOf(new) ELSE CandidateOf(workflow[v])
    BY Zenon
  <2> QED
    BY Zenon, <2>1, <2>2
<1>5. AbstractHold' = [AbstractHold EXCEPT ![w] = HoldOf(new, us)]
  <2>1. AbstractHold = [v \in Workflows |-> HoldOf(workflow[v], tasks[v])] /\ AbstractHold' = [v \in Workflows |-> HoldOf(workflow'[v], tasks'[v])]
    BY Zenon DEF AbstractHold
  <2>2. \A v \in Workflows : HoldOf(workflow'[v], tasks'[v]) = IF v = w THEN HoldOf(new, us) ELSE HoldOf(workflow[v], tasks[v])
    BY Zenon
  <2> QED
    BY Zenon, <2>1, <2>2
<1>6. AbstractApproved' = [AbstractApproved EXCEPT ![w] = ApprovedOf(new)]
  <2>1. AbstractApproved = [v \in Workflows |-> ApprovedOf(workflow[v])] /\ AbstractApproved' = [v \in Workflows |-> ApprovedOf(workflow'[v])]
    BY Zenon DEF AbstractApproved
  <2>2. \A v \in Workflows : ApprovedOf(workflow'[v]) = IF v = w THEN ApprovedOf(new) ELSE ApprovedOf(workflow[v])
    BY Zenon
  <2> QED
    BY Zenon, <2>1, <2>2
<1> QED
  BY Zenon, <1>2, <1>3, <1>4, <1>5, <1>6

LEMMA OneView ==
  ASSUME TypeOK, NEW w \in Workflows, NEW new, NEW us,
         workflow' = [workflow EXCEPT ![w] = new], tasks' = [tasks EXCEPT ![w] = us]
  PROVE  /\ AbstractState' = [AbstractState EXCEPT ![w] = StateOf(new)]
         /\ AbstractVersion' = [AbstractVersion EXCEPT ![w] = VersionOf(new)]
         /\ AbstractCandidate' = [AbstractCandidate EXCEPT ![w] = CandidateOf(new)]
         /\ AbstractHold' = [AbstractHold EXCEPT ![w] = HoldOf(new, us)]
         /\ AbstractApproved' = [AbstractApproved EXCEPT ![w] = ApprovedOf(new)]
<1>1. /\ workflow'[w] = new /\ tasks'[w] = us
      /\ \A v \in Workflows : v # w => workflow'[v] = workflow[v] /\ tasks'[v] = tasks[v]
  BY Zenon DEF TypeOK
<1> QED
  BY <1>1, RewrittenView

(* The views of one workflow *)
LEMMA ViewAt ==
  ASSUME NEW w \in Workflows
  PROVE  /\ AbstractState[w] = StateOf(workflow[w]) /\ AbstractVersion[w] = VersionOf(workflow[w])
         /\ AbstractCandidate[w] = CandidateOf(workflow[w]) /\ AbstractHold[w] = HoldOf(workflow[w], tasks[w])
         /\ AbstractApproved[w] = ApprovedOf(workflow[w])
         /\ AbstractState = [AbstractState EXCEPT ![w] = StateOf(workflow[w])]
         /\ AbstractVersion = [AbstractVersion EXCEPT ![w] = VersionOf(workflow[w])]
         /\ AbstractCandidate = [AbstractCandidate EXCEPT ![w] = CandidateOf(workflow[w])]
         /\ AbstractHold = [AbstractHold EXCEPT ![w] = HoldOf(workflow[w], tasks[w])]
         /\ AbstractApproved = [AbstractApproved EXCEPT ![w] = ApprovedOf(workflow[w])]
BY Zenon DEF AbstractState, AbstractVersion, AbstractCandidate, AbstractHold, AbstractApproved
-----------------------------------------------------------------------------
(* The steps of the lifecycle, from what it sees of a workflow *)

(* The lifecycle and the core share their tables *)
LEMMA SameTables ==
  /\ Lifecycle!WorkState = WorkState
  /\ \A current, target : Lifecycle!TransitionAllowed(current, target) <=> TransitionAllowed(current, target)
<1>1. Lifecycle!ALLOWED_TRANSITIONS = ALLOWED_TRANSITIONS
  BY Zenon DEF Lifecycle!ALLOWED_TRANSITIONS, ALLOWED_TRANSITIONS, Lifecycle!WorkflowState, WorkflowState
<1>2. Lifecycle!WorkState = WorkState
  BY Zenon DEF Lifecycle!WorkState, WorkState, Lifecycle!TaskKind, TaskKind,
            Lifecycle!TASK_WORKFLOW_STATE, TASK_WORKFLOW_STATE
<1> QED
  BY Zenon, <1>1, <1>2 DEF Lifecycle!TransitionAllowed, TransitionAllowed

(* What one step does to the views of a workflow *)
Sees(w, state, version, candidate, hold, approved) ==
  /\ AbstractState' = [AbstractState EXCEPT ![w] = state]
  /\ AbstractVersion' = [AbstractVersion EXCEPT ![w] = version]
  /\ AbstractCandidate' = [AbstractCandidate EXCEPT ![w] = candidate]
  /\ AbstractHold' = [AbstractHold EXCEPT ![w] = hold]
  /\ AbstractApproved' = [AbstractApproved EXCEPT ![w] = approved]

(* A view that is given the value it has is unchanged *)
LEMMA SeesSame ==
  ASSUME NEW w \in Workflows, NEW state, NEW version, NEW candidate, NEW hold, NEW approved,
         Sees(w, state, version, candidate, hold, approved)
  PROVE  /\ candidate = AbstractCandidate[w] => AbstractCandidate' = AbstractCandidate
         /\ hold = AbstractHold[w] => AbstractHold' = AbstractHold
         /\ approved = AbstractApproved[w] => AbstractApproved' = AbstractApproved
         /\ state = AbstractState[w] => AbstractState' = AbstractState
         /\ version = AbstractVersion[w] => AbstractVersion' = AbstractVersion
<1>1. /\ AbstractCandidate = [AbstractCandidate EXCEPT ![w] = AbstractCandidate[w]]
      /\ AbstractHold = [AbstractHold EXCEPT ![w] = AbstractHold[w]]
      /\ AbstractApproved = [AbstractApproved EXCEPT ![w] = AbstractApproved[w]]
      /\ AbstractState = [AbstractState EXCEPT ![w] = AbstractState[w]]
      /\ AbstractVersion = [AbstractVersion EXCEPT ![w] = AbstractVersion[w]]
  BY Zenon, ViewAt
<1> QED
  BY Zenon, <1>1 DEF Sees

LEMMA SeesCreate ==
  ASSUME NEW w \in Workflows, AbstractState[w] = None, NEW state, NEW hold,
         Sees(w, state, AbstractVersion[w] + 2, AbstractCandidate[w], hold, AbstractApproved[w]),
         \/ state = "PLANNING" /\ hold = AbstractHold[w]
         \/ state = "BLOCKED" /\ hold = "PLANNING"
  PROVE  Lifecycle!Next
<1>1. Lifecycle!Create(w)
  BY Zenon, SeesSame DEF Lifecycle!Create, Lifecycle!MoveBy, Sees
<1> QED
  BY Zenon, <1>1 DEF Lifecycle!Next

LEMMA SeesAdvance ==
  ASSUME NEW w \in Workflows, AbstractState[w] \in WorkState, NEW candidate,
         Sees(w, Lifecycle!Successor[AbstractState[w]], AbstractVersion[w] + Lifecycle!Steps(AbstractState[w]),
              candidate, AbstractHold[w], AbstractApproved[w]),
         IF AbstractState[w] = "IMPLEMENTING"
         THEN AbstractCandidate[w] = None /\ candidate \in Revisions
         ELSE candidate = AbstractCandidate[w]
  PROVE  Lifecycle!Next
<1>1. Lifecycle!Advance(w)
  BY Zenon, SeesSame, SameTables DEF Lifecycle!Advance, Lifecycle!MoveBy, Sees
<1> QED
  BY Zenon, <1>1 DEF Lifecycle!Next

LEMMA SeesBlock ==
  ASSUME NEW w \in Workflows, AbstractState[w] \in WorkState, TransitionAllowed(AbstractState[w], "BLOCKED"),
         Sees(w, "BLOCKED", AbstractVersion[w] + 1, AbstractCandidate[w], None, AbstractApproved[w])
  PROVE  Lifecycle!Next
<1>1. /\ AbstractState' = [v \in Workflows |-> IF v \in {w} THEN "BLOCKED" ELSE AbstractState[v]]
      /\ AbstractVersion' = [v \in Workflows |-> IF v \in {w} THEN AbstractVersion[v] + 1 ELSE AbstractVersion[v]]
      /\ AbstractHold' = [v \in Workflows |-> IF v \notin {w} THEN AbstractHold[v] ELSE None]
  BY Zenon DEF Sees, AbstractState, AbstractVersion, AbstractHold
<1>2. AbstractHold' = [v \in Workflows |-> IF v \notin {w} THEN AbstractHold[v]
                                           ELSE IF FALSE THEN AbstractState[v] ELSE None]
  BY Zenon, <1>1
<1>3. AbstractCandidate' = AbstractCandidate /\ AbstractApproved' = AbstractApproved
  BY Zenon, SeesSame
<1>4. Lifecycle!Block({w})
  BY Zenon, <1>1, <1>2, <1>3, SameTables DEF Lifecycle!Block
<1>5. {w} \in (SUBSET Workflows) \ {{}}
  BY Zenon
<1> QED
  BY Zenon, <1>4, <1>5 DEF Lifecycle!Next

LEMMA SeesResume ==
  ASSUME NEW w \in Workflows, AbstractState[w] = "BLOCKED", AbstractHold[w] # None,
         TransitionAllowed("BLOCKED", AbstractHold[w]),
         Sees(w, AbstractHold[w], AbstractVersion[w] + 1, AbstractCandidate[w], None, AbstractApproved[w])
  PROVE  Lifecycle!Next
<1>1. Lifecycle!Resume(w)
  BY Zenon, SeesSame, SameTables DEF Lifecycle!Resume, Lifecycle!Move, Lifecycle!MoveBy, Sees
<1> QED
  BY Zenon, <1>1 DEF Lifecycle!Next

LEMMA SeesEnd ==
  ASSUME NEW w \in Workflows, AbstractState[w] # None, NEW target \in {"FAILED", "REJECTED", "CANCELLED"},
         target = "FAILED" => AbstractState[w] \in WorkState \cup {"BLOCKED"},
         TransitionAllowed(AbstractState[w], target),
         Sees(w, target, AbstractVersion[w] + 1, AbstractCandidate[w], None, AbstractApproved[w])
  PROVE  Lifecycle!Next
<1>1. Lifecycle!End(w)
  BY Zenon, SeesSame, SameTables DEF Lifecycle!End, Lifecycle!Move, Lifecycle!MoveBy, Sees
<1> QED
  BY Zenon, <1>1 DEF Lifecycle!Next

LEMMA SeesApprove ==
  ASSUME NEW w \in Workflows, AbstractState[w] = "AWAITING_HUMAN_APPROVAL", AbstractCandidate[w] # None,
         Sees(w, "APPROVED", AbstractVersion[w] + 1, AbstractCandidate[w], AbstractHold[w], AbstractCandidate[w])
  PROVE  Lifecycle!Next
<1>1. TransitionAllowed("AWAITING_HUMAN_APPROVAL", "APPROVED")
  BY Zenon DEF TransitionAllowed, ALLOWED_TRANSITIONS, WorkflowState
<1>2. Lifecycle!Approve(w)
  BY Zenon, <1>1, SeesSame, SameTables DEF Lifecycle!Approve, Lifecycle!Move, Lifecycle!MoveBy, Sees
<1> QED
  BY Zenon, <1>2 DEF Lifecycle!Next
=============================================================================
