-------------------------- MODULE LifecycleProofs --------------------------
(***************************************************************************)
(* Proofs that WorkflowTasks implements WorkflowLifecycle, that the        *)
(* evidence a human approves on is about the candidate revision, and that  *)
(* no provider reviews its own work, for any sets of workflows, workers,   *)
(* tokens, providers and revisions and any bounds.                         *)
(*                                                                         *)
(* IInv and HInv relate a workflow to its last task and a task to its      *)
(* attempts.  SInv adds how the tasks of a workflow relate (Stages):       *)
(* they come in the order of the stages, a stage is left by success only,  *)
(* and so the candidate revision cannot change under the work done on it.  *)
(***************************************************************************)
EXTENDS AttemptHistoryProofs

(* A merge decision ends the wait for a human *)
DecisionFits(row) ==
  row # None /\ row.merge_approval # None => row.state \in {"APPROVED", "REJECTED", "CANCELLED"}

StagesFit(row, ts) ==
  /\ Stages(CandidateOf(row), ts)
  /\ DecisionFits(row)
  /\ CandidateOf(row) # None => ts # <<>> /\ ts[Len(ts)].kind \in NeedsCandidate
  /\ ts # <<>> /\ ts[Len(ts)].status = "SUCCEEDED" => ts[Len(ts)].kind = "CODE_REVIEW"

SInv == \A w \in Workflows : StagesFit(workflow[w], tasks[w])
-----------------------------------------------------------------------------
(* Steps of one workflow *)

(* The stages are kept, and the step is one of the lifecycle or changes nothing it sees *)
SStep == SInv' /\ (Lifecycle!Next \/ UNCHANGED LVars)

(* The stages of the other workflows are as they were *)
LEMMA OneStages ==
  ASSUME TypeOK, SInv, NEW w \in Workflows, NEW new, NEW us,
         workflow' = [workflow EXCEPT ![w] = new], tasks' = [tasks EXCEPT ![w] = us], StagesFit(new, us)
  PROVE  SInv'
<1>1. \A v \in Workflows : /\ workflow'[v] = IF v = w THEN new ELSE workflow[v]
                           /\ tasks'[v] = IF v = w THEN us ELSE tasks[v]
  BY Zenon DEF TypeOK
<1>2. ASSUME NEW v \in Workflows PROVE StagesFit(workflow'[v], tasks'[v])
  BY Zenon, <1>1 DEF SInv
<1> QED
  BY Zenon, <1>2 DEF SInv

(* The stages after a step that rewrites one workflow, and what the lifecycle sees *)
LEMMA OneStep ==
  ASSUME IInv, SInv, NEW w \in Workflows, NEW new, NEW us,
         workflow' = [workflow EXCEPT ![w] = new], tasks' = [tasks EXCEPT ![w] = us], StagesFit(new, us)
  PROVE  SInv' /\ Sees(w, StateOf(new), VersionOf(new), CandidateOf(new), HoldOf(new, us), ApprovedOf(new))
<1>1. TypeOK
  BY Zenon DEF IInv
<1>2. SInv'
  BY Zenon, <1>1, OneStages
<1> QED
  BY ZenonT(30), <1>1, <1>2, OneView DEF Sees

(* Tasks that keep their work still fit a row with the same candidate *)
LEMMA KeptFit ==
  ASSUME NEW row, NEW ts \in Seq(Task), StagesFit(row, ts),
         NEW us \in Seq(Task), Len(us) = Len(ts), \A i \in 1 .. Len(ts) : KeepsWork(ts[i], us[i]),
         NEW new, CandidateOf(new) = CandidateOf(row), DecisionFits(new)
  PROVE  StagesFit(new, us)
<1>1. Stages(CandidateOf(new), us)
  <2>1. Stages(CandidateOf(row), ts)
    BY Zenon DEF StagesFit
  <2> QED
    BY Zenon, <2>1, KeptStages
<1>2. ts # <<>> => Len(ts) \in 1 .. Len(ts)
  OBVIOUS
<1>3. ts = <<>> <=> us = <<>>
  OBVIOUS
<1>4. ts # <<>> => /\ us[Len(us)].kind = ts[Len(ts)].kind
                   /\ us[Len(us)].status = "SUCCEEDED" <=> ts[Len(ts)].status = "SUCCEEDED"
  BY Zenon, <1>2 DEF KeepsWork
<1> QED
  BY Zenon, <1>1, <1>3, <1>4 DEF StagesFit

(* Writing one task that keeps its work *)
LEMMA PutKeeps ==
  ASSUME NEW ts \in Seq(Task), NEW i \in 1 .. Len(ts), NEW task \in Task, KeepsWork(ts[i], task)
  PROVE  /\ [ts EXCEPT ![i] = task] \in Seq(Task) /\ Len([ts EXCEPT ![i] = task]) = Len(ts)
         /\ \A j \in 1 .. Len(ts) : KeepsWork(ts[j], [ts EXCEPT ![i] = task][j])
<1> DEFINE us == [ts EXCEPT ![i] = task]
<1>1. /\ us \in Seq(Task) /\ Len(us) = Len(ts)
      /\ \A j \in 1 .. Len(ts) : us[j] = IF j = i THEN task ELSE ts[j]
  BY PutInSeq
<1> HIDE DEF us
<1>2. us[i] = task /\ \A j \in 1 .. Len(ts) : j # i => us[j] = ts[j]
  BY Zenon, <1>1
<1>3. \A j \in 1 .. Len(ts) : KeepsWork(ts[j], us[j])
  BY Zenon, <1>2, SameAttempts
<1> QED
  BY Zenon, <1>1, <1>3 DEF us

(* A step that changes the tasks of a workflow but not the work done, nor the row *)
LEMMA QuietTasks ==
  ASSUME IInv, SInv, NEW w \in Workflows, NEW us \in Seq(Task), UNCHANGED workflow,
         tasks' = [tasks EXCEPT ![w] = us], Len(us) = Len(tasks[w]),
         \A i \in 1 .. Len(tasks[w]) : KeepsWork(tasks[w][i], us[i])
  PROVE  SStep
<1>1. tasks[w] \in Seq(Task) /\ workflow' = [workflow EXCEPT ![w] = workflow[w]]
  BY Zenon DEF IInv, TypeOK
<1>2. StagesFit(workflow[w], tasks[w])
  BY Zenon DEF SInv
<1>3. DecisionFits(workflow[w])
  BY Zenon, <1>2 DEF StagesFit
<1>4. StagesFit(workflow[w], us)
  BY Zenon, <1>1, <1>2, <1>3, KeptFit
<1>5. SInv' /\ Sees(w, StateOf(workflow[w]), VersionOf(workflow[w]), CandidateOf(workflow[w]),
                    HoldOf(workflow[w], us), ApprovedOf(workflow[w]))
  BY Zenon, <1>1, <1>4, OneStep
<1>6. HoldOf(workflow[w], us) = HoldOf(workflow[w], tasks[w])
  BY Zenon, <1>1, SameHold DEF KeepsWork
<1>7. UNCHANGED LVars
  BY <1>5, <1>6, ViewAt, SeesSame DEF LVars
<1> QED
  BY Zenon, <1>5, <1>7 DEF SStep

(* The same, for one task *)
LEMMA QuietTask ==
  ASSUME IInv, SInv, NEW w \in Workflows, NEW i \in Positions(w), NEW task \in Task, UNCHANGED workflow,
         tasks' = [tasks EXCEPT ![w] = PutTask(w, i, task)], KeepsWork(tasks[w][i], task)
  PROVE  SStep
<1>1. tasks[w] \in Seq(Task) /\ i \in 1 .. Len(tasks[w])
  BY Zenon, TaskFacts
<1>2. /\ PutTask(w, i, task) \in Seq(Task) /\ Len(PutTask(w, i, task)) = Len(tasks[w])
      /\ \A j \in 1 .. Len(tasks[w]) : KeepsWork(tasks[w][j], PutTask(w, i, task)[j])
  BY Zenon, <1>1, PutKeeps DEF PutTask
<1> QED
  BY Zenon, <1>2, QuietTasks

(* A step that leaves rows and tasks as they are *)
LEMMA ForgetStages ==
  ASSUME SInv, UNCHANGED <<workflow, tasks>>
  PROVE  SStep
<1>1. SInv'
  BY Zenon DEF SInv
<1>2. UNCHANGED LVars
  BY Zenon DEF LVars, AbstractState, AbstractVersion, AbstractCandidate, AbstractHold, AbstractApproved
<1> QED
  BY Zenon, <1>1, <1>2 DEF SStep
-----------------------------------------------------------------------------
(* Each action keeps the stages and is a step of the lifecycle or none *)

(* Before any workflow exists *)
LEMMA InitStages == Init => SInv /\ Lifecycle!Init
<1> SUFFICES ASSUME Init PROVE SInv /\ Lifecycle!Init
  BY Zenon
<1>1. \A w \in Workflows : workflow[w] = None /\ tasks[w] = <<>>
  BY Zenon DEF Init
<1>2. StagesFit(None, <<>>)
  BY DEF StagesFit, Stages, InOrder, StagesDone, DecisionFits, CandidateOf
<1>3. SInv
  BY Zenon, <1>1, <1>2 DEF SInv
<1>4. \A w \in Workflows : /\ StateOf(workflow[w]) = None /\ VersionOf(workflow[w]) = 0
                           /\ CandidateOf(workflow[w]) = None /\ ApprovedOf(workflow[w]) = None
                           /\ HoldOf(workflow[w], tasks[w]) = None
  BY Zenon, <1>1 DEF StateOf, VersionOf, CandidateOf, ApprovedOf, HoldOf
<1>5. Lifecycle!Init
  BY Zenon, <1>4 DEF Lifecycle!Init, AbstractState, AbstractVersion, AbstractCandidate, AbstractHold, AbstractApproved
<1> QED
  BY Zenon, <1>3, <1>5

(* heartbeat_task *)
LEMMA HeartbeatStages ==
  ASSUME IInv, SInv, IInv', NEW p \in Workers, HeartbeatTask(p)
  PROVE  SStep
<1> DEFINE w == worker[p].wf
           i == worker[p].pos
           task == [tasks[w][i] EXCEPT !.lease_left = LeaseTicks]
<1>1. w \in Workflows /\ i \in Positions(w)
  BY Zenon, HeldFacts DEF HeartbeatTask
<1>2. tasks' = [tasks EXCEPT ![w] = PutTask(w, i, task)] /\ UNCHANGED workflow
  BY Zenon DEF HeartbeatTask, HeldTask
<1>3. tasks[w][i] \in Task
  BY Zenon, <1>1, TaskFacts
<1>4. task.status = tasks[w][i].status /\ task.attempts = tasks[w][i].attempts /\ task.kind = tasks[w][i].kind
  BY Zenon, <1>3 DEF Task
<1> HIDE DEF task
<1>5. task \in Task /\ KeepsWork(tasks[w][i], task)
  BY Zenon, <1>1, <1>2, <1>4, PutTyped, SameAttempts
<1> QED
  BY Zenon, <1>1, <1>2, <1>5, QuietTask

(* The passing of time and the expiry of a grant *)
LEMMA ClockStages ==
  ASSUME IInv, SInv, IInv', NEW w \in Workflows, NEW i \in Positions(w), LeaseTick(w, i) \/ GrantExpires(w, i)
  PROVE  SStep
<1>1. tasks[w][i] \in Task /\ UNCHANGED workflow
  BY Zenon, TaskFacts DEF LeaseTick, GrantExpires
<1>2. ASSUME NEW task, tasks' = [tasks EXCEPT ![w] = PutTask(w, i, task)],
             task.status = tasks[w][i].status, task.attempts = tasks[w][i].attempts, task.kind = tasks[w][i].kind
      PROVE  SStep
  <2>1. task \in Task /\ KeepsWork(tasks[w][i], task)
    BY Zenon, <1>2, PutTyped, SameAttempts
  <2> QED
    BY Zenon, <1>1, <1>2, <2>1, QuietTask
<1>3. CASE LeaseTick(w, i)
  <2> DEFINE t == [tasks[w][i] EXCEPT !.lease_left = @ - 1]
  <2>1. tasks' = [tasks EXCEPT ![w] = PutTask(w, i, t)]
    BY Zenon, <1>3 DEF LeaseTick
  <2>2. t.status = tasks[w][i].status /\ t.attempts = tasks[w][i].attempts /\ t.kind = tasks[w][i].kind
    BY Zenon, <1>1 DEF Task
  <2> HIDE DEF t
  <2> QED
    BY Zenon, <1>2, <2>1, <2>2
<1>4. CASE GrantExpires(w, i)
  <2> DEFINE t == [tasks[w][i] EXCEPT !.grant = "EXPIRED"]
  <2>1. tasks' = [tasks EXCEPT ![w] = PutTask(w, i, t)]
    BY Zenon, <1>4 DEF GrantExpires
  <2>2. t.status = tasks[w][i].status /\ t.attempts = tasks[w][i].attempts /\ t.kind = tasks[w][i].kind
    BY Zenon, <1>1 DEF Task
  <2> HIDE DEF t
  <2> QED
    BY Zenon, <1>2, <2>1, <2>2
<1> QED
  BY Zenon, <1>3, <1>4

(* lease_next_task *)
LEMMA LeaseStages ==
  ASSUME IInv, SInv, IInv', NEW p \in Workers, NEW w \in Workflows, NEW i \in Positions(w), LeaseNextTask(p, w, i)
  PROVE  SStep
<1> DEFINE task == [tasks[w][i] EXCEPT !.status = "LEASED", !.lease_owner = "orchestrator",
                                       !.lease_token = FreshToken, !.lease_left = LeaseTicks]
<1>1. tasks[w][i] \in Task
  BY Zenon, TaskFacts
<1>2. /\ tasks[w][i].status = "READY" /\ tasks' = [tasks EXCEPT ![w] = PutTask(w, i, task)] /\ UNCHANGED workflow
  BY Zenon DEF LeaseNextTask
<1>3. task.status = "LEASED" /\ task.attempts = tasks[w][i].attempts /\ task.kind = tasks[w][i].kind
  BY Zenon, <1>1 DEF Task
<1> HIDE DEF task
<1>4. task \in Task /\ KeepsWork(tasks[w][i], task)
  BY Zenon, <1>2, <1>3, PutTyped, SameAttempts
<1> QED
  BY Zenon, <1>2, <1>4, QuietTask

(* A workflow without a merge decision has none after a transition either *)
LEMMA MovedDecision ==
  ASSUME NEW row \in WorkflowRow, NEW new, NEW target, NEW n, Moved(row, new, target, n), DecisionFits(row),
         row.state \notin {"APPROVED", "REJECTED", "CANCELLED"} \/ target \in {"REJECTED", "CANCELLED"}
  PROVE  DecisionFits(new)
<1>1. row # None
  BY Zenon, MovedView
<1>2. CASE row.state \notin {"APPROVED", "REJECTED", "CANCELLED"}
  BY Zenon, <1>1, <1>2 DEF Moved, DecisionFits
<1>3. CASE target \in {"REJECTED", "CANCELLED"}
  BY Zenon, <1>3 DEF Moved, DecisionFits
<1> QED
  BY Zenon, <1>2, <1>3

(* The states in which work goes on are no decisions *)
LEMMA StageUndecided ==
  ASSUME NEW state \in WorkState \cup {"BLOCKED"}
  PROVE  state \notin {"APPROVED", "REJECTED", "CANCELLED"}
BY Zenon, WorkStates

(* A workflow ends: fails, is rejected or is cancelled *)
LEMMA EndedWorkflow ==
  ASSUME IInv, SInv, NEW w \in Workflows, workflow[w] \in WorkflowRow,
         NEW target \in {"FAILED", "REJECTED", "CANCELLED"},
         target = "FAILED" => workflow[w].state \in WorkState \cup {"BLOCKED"},
         TransitionAllowed(workflow[w].state, target),
         NEW new, Moved(workflow[w], new, target, 1),
         NEW us \in Seq(Task), Len(us) = Len(tasks[w]),
         \A i \in 1 .. Len(tasks[w]) : KeepsWork(tasks[w][i], us[i]),
         workflow' = [workflow EXCEPT ![w] = new], tasks' = [tasks EXCEPT ![w] = us]
  PROVE  SStep
<1>1. /\ workflow[w] # None /\ StateOf(workflow[w]) = workflow[w].state /\ new.state = target
      /\ StateOf(new) = target /\ VersionOf(new) = VersionOf(workflow[w]) + 1
      /\ CandidateOf(new) = CandidateOf(workflow[w]) /\ ApprovedOf(new) = ApprovedOf(workflow[w])
  <2>1. new.state = target
    BY Zenon DEF Moved
  <2> QED
    BY <2>1, MovedView
<1>2. StagesFit(workflow[w], tasks[w]) /\ tasks[w] \in Seq(Task)
  BY Zenon DEF SInv, IInv, TypeOK
<1>3. DecisionFits(workflow[w])
  BY Zenon, <1>2 DEF StagesFit
<1>4. workflow[w].state \notin {"APPROVED", "REJECTED", "CANCELLED"} \/ target \in {"REJECTED", "CANCELLED"}
  BY Zenon, StageUndecided
<1>5. DecisionFits(new)
  BY Zenon, <1>3, <1>4, MovedDecision
<1>6. StagesFit(new, us)
  BY Zenon, <1>1, <1>2, <1>5, KeptFit
<1>7. SInv' /\ Sees(w, StateOf(new), VersionOf(new), CandidateOf(new), HoldOf(new, us), ApprovedOf(new))
  BY Zenon, <1>6, OneStep
<1>8. HoldOf(new, us) = None
  BY Zenon, <1>1, NoHold
<1>9. workflow[w].state # None
  BY Zenon, NoneAssumption DEF WorkflowRow
<1>10. Sees(w, target, AbstractVersion[w] + 1, AbstractCandidate[w], None, AbstractApproved[w])
  BY Zenon, <1>1, <1>7, <1>8, ViewAt
<1>11. AbstractState[w] = workflow[w].state
  BY Zenon, <1>1, ViewAt
<1>12. Lifecycle!Next
  BY Zenon, <1>9, <1>10, <1>11, SeesEnd
<1> QED
  BY Zenon, <1>7, <1>12 DEF SStep

(* A blocked workflow goes on where it is on hold *)
LEMMA ResumedWorkflow ==
  ASSUME IInv, SInv, NEW w \in Workflows, workflow[w] \in WorkflowRow, workflow[w].state = "BLOCKED",
         NEW target \in WorkState, target = HoldOf(workflow[w], tasks[w]), TransitionAllowed("BLOCKED", target),
         NEW new, Moved(workflow[w], new, target, 1), NEW us, StagesFit(new, us),
         workflow' = [workflow EXCEPT ![w] = new], tasks' = [tasks EXCEPT ![w] = us]
  PROVE  SStep
<1>1. /\ StateOf(workflow[w]) = "BLOCKED" /\ new.state = target
      /\ StateOf(new) = target /\ VersionOf(new) = VersionOf(workflow[w]) + 1
      /\ CandidateOf(new) = CandidateOf(workflow[w]) /\ ApprovedOf(new) = ApprovedOf(workflow[w])
  BY MovedView DEF Moved
<1>2. SInv' /\ Sees(w, StateOf(new), VersionOf(new), CandidateOf(new), HoldOf(new, us), ApprovedOf(new))
  BY Zenon, OneStep
<1>3. target # "BLOCKED" /\ target # None
  BY Zenon, WorkStates, NoneAssumption, StageTransitions DEF WorkState
<1>4. HoldOf(new, us) = None
  BY Zenon, <1>1, <1>3, NoHold
<1>5. AbstractState[w] = "BLOCKED" /\ AbstractHold[w] = target
  BY Zenon, <1>1, ViewAt
<1>6. Sees(w, AbstractHold[w], AbstractVersion[w] + 1, AbstractCandidate[w], None, AbstractApproved[w])
  BY Zenon, <1>1, <1>2, <1>4, <1>5, ViewAt
<1>7. Lifecycle!Next
  BY Zenon, <1>3, <1>5, <1>6, SeesResume
<1> QED
  BY Zenon, <1>2, <1>7 DEF SStep

(* An attempt that failed or timed out is no evidence *)
LEMMA EndedKeeps ==
  ASSUME NEW old \in Task, NEW n \in 1 .. Len(old.attempts), old.attempts[n].status = "RUNNING",
         NEW status \in {"FAILED", "TIMED_OUT"}, NEW error \in RunErrors \cup {"LeaseExpired"},
         NEW task, task.kind = old.kind, task.status # "SUCCEEDED", old.status # "SUCCEEDED",
         task.attempts = EndedTask(old, n, status, error).attempts
  PROVE  KeepsWork(old, task)
<1> DEFINE a == Ended(old.attempts[n], status, error)
<1>1. /\ a \in Attempt /\ a.status = status
      /\ EndedTask(old, n, status, error).attempts = [old.attempts EXCEPT ![n] = a]
  BY EndedAttempt
<1>2. old.attempts \in Seq(Attempt) /\ old.attempts[n] \in Attempt
  BY DEF Task
<1>3. /\ a.provider = old.attempts[n].provider /\ a.examined = old.attempts[n].examined
      /\ a.artifact = old.attempts[n].artifact
  BY Zenon, <1>2 DEF Ended, Attempt
<1> HIDE DEF a
<1>4. /\ Len(task.attempts) = Len(old.attempts)
      /\ \A m \in 1 .. Len(old.attempts) : task.attempts[m] = IF m = n THEN a ELSE old.attempts[m]
  BY <1>1, <1>2, PutInSeq
<1>5. task.attempts[n] = a /\ \A m \in 1 .. Len(old.attempts) : m # n => task.attempts[m] = old.attempts[m]
  BY Zenon, <1>4
<1>6. a.status # "SUCCEEDED" /\ a.status # "RUNNING"
  BY Zenon, <1>1
<1>7. ASSUME NEW m \in 1 .. Len(old.attempts)
      PROVE  /\ task.attempts[m].provider = old.attempts[m].provider
             /\ task.attempts[m].examined = old.attempts[m].examined
             /\ task.attempts[m].artifact = old.attempts[m].artifact
             /\ task.attempts[m].status = "SUCCEEDED" <=> old.attempts[m].status = "SUCCEEDED"
             /\ task.attempts[m].status = "RUNNING" => old.attempts[m].status = "RUNNING"
  <2>1. CASE m = n
    BY Zenon, <1>3, <1>5, <1>6, <2>1
  <2>2. CASE m # n
    BY Zenon, <1>5, <2>2
  <2> QED
    BY Zenon, <2>1, <2>2
<1> QED
  BY Zenon, <1>4, <1>7 DEF KeepsWork

(* _finalize_execution_failure: a retry changes nothing the lifecycle sees; *)
(* otherwise the workflow fails                                             *)
LEMMA FailureStages ==
  ASSUME IInv, HInv, SInv, IInv', NEW p \in Workers, NEW error \in RunErrors, FinalizeExecutionFailure(p, error)
  PROVE  SStep
<1> DEFINE w == worker[p].wf
           i == worker[p].pos
           n == worker[p].attempt
           ended == EndedTask(tasks[w][i], n, "FAILED", error)
           failed == ClearLease(ended)
           again == [failed EXCEPT !.status = "READY"]
           closed == [failed EXCEPT !.status = "FAILED"]
           over == DeactivateGrant(closed)
           row == Transition(workflow[w], "FAILED")
<1>1. /\ w \in Workflows /\ i \in Positions(w)
      /\ tasks[w][i] \in Task /\ History(tasks[w][i]) /\ tasks[w][i].status = "RUNNING"
      /\ n = Len(tasks[w][i].attempts) /\ n \in 1 .. Len(tasks[w][i].attempts)
      /\ workflow[w] \in WorkflowRow
  BY Zenon, HeldRun DEF FinalizeExecutionFailure
<1>2. \/ tasks' = [tasks EXCEPT ![w] = PutTask(w, i, again)] /\ UNCHANGED workflow
      \/ /\ tasks' = [tasks EXCEPT ![w] = PutTask(w, i, over)]
         /\ workflow' = [workflow EXCEPT ![w] = row] /\ TransitionAllowed(workflow[w].state, "FAILED")
  BY Zenon DEF FinalizeExecutionFailure, HeldTask, EndedTask
<1>3. ended \in Task /\ ended.kind = tasks[w][i].kind
  <2>1. error \in RunErrors \cup {"LeaseExpired"} /\ "FAILED" \in {"FAILED", "TIMED_OUT"}
    BY Zenon
  <2>2. SameTask(ended, tasks[w][i])
    BY Zenon, <1>1, <2>1, EndAttempt DEF EndedTask
  <2> HIDE DEF ended
  <2> QED
    BY Zenon, <2>2 DEF SameTask
<1>4. tasks[w][i].attempts[n].status = "RUNNING"
  BY Zenon, <1>1, RunningLast
<1>5. \A task : /\ task.kind = tasks[w][i].kind /\ task.status # "SUCCEEDED" /\ task.attempts = ended.attempts
                => KeepsWork(tasks[w][i], task)
  BY Zenon, <1>1, <1>4, EndedKeeps
<1> HIDE DEF ended
<1>6. failed \in Task /\ failed.kind = tasks[w][i].kind /\ failed.attempts = ended.attempts
  BY Zenon, <1>3, ClearLeaseTask
<1> HIDE DEF failed
<1>7. CASE tasks' = [tasks EXCEPT ![w] = PutTask(w, i, again)] /\ UNCHANGED workflow
  <2>1. again \in Task /\ again.status = "READY" /\ again.attempts = ended.attempts /\ again.kind = tasks[w][i].kind
    BY Zenon, <1>6, StatusTask DEF TaskStatus
  <2> HIDE DEF again
  <2>2. KeepsWork(tasks[w][i], again)
    BY Zenon, <1>5, <2>1
  <2> QED
    BY Zenon, <1>1, <1>7, <2>1, <2>2, QuietTask
<1>8. CASE /\ tasks' = [tasks EXCEPT ![w] = PutTask(w, i, over)]
           /\ workflow' = [workflow EXCEPT ![w] = row] /\ TransitionAllowed(workflow[w].state, "FAILED")
  <2>1. closed \in Task /\ closed.status = "FAILED" /\ closed.attempts = ended.attempts /\ closed.kind = tasks[w][i].kind
    BY Zenon, <1>6, StatusTask DEF TaskStatus
  <2> HIDE DEF closed
  <2>2. over \in Task /\ over.status = "FAILED" /\ over.attempts = ended.attempts /\ over.kind = tasks[w][i].kind
    BY Zenon, <2>1, DeactivateGrantTask
  <2> HIDE DEF over
  <2>3. KeepsWork(tasks[w][i], over)
    BY Zenon, <1>5, <2>2
  <2>4. tasks[w] \in Seq(Task) /\ i \in 1 .. Len(tasks[w]) /\ StateFits(workflow[w].state, tasks[w][i])
    BY Zenon, <1>1, TaskFacts DEF LiveStatus
  <2>5. /\ PutTask(w, i, over) \in Seq(Task) /\ Len(PutTask(w, i, over)) = Len(tasks[w])
        /\ \A j \in 1 .. Len(tasks[w]) : KeepsWork(tasks[w][j], PutTask(w, i, over)[j])
    BY Zenon, <2>2, <2>3, <2>4, PutKeeps DEF PutTask
  <2>6. Moved(workflow[w], row, "FAILED", 1)
    BY Zenon, <1>1, MovedRow DEF WorkflowState
  <2>7. tasks[w][i].kind \in TaskKind
    BY Zenon, <1>1 DEF Task
  <2>8. workflow[w].state \in WorkState
    BY Zenon, <1>1, <2>4, <2>7, StageTransitions DEF StateFits, LiveStatus
  <2> HIDE DEF row
  <2> QED
    BY Zenon, <1>1, <1>8, <2>5, <2>6, <2>8, EndedWorkflow
<1> QED
  BY Zenon, <1>2, <1>7, <1>8

(* cancel_workflow *)
LEMMA CancelStages ==
  ASSUME IInv, SInv, IInv', NEW w \in Workflows, CancelWorkflow(w)
  PROVE  SStep
<1> DEFINE row == Transition(workflow[w], "CANCELLED")
           stopped(task) == DeactivateGrant([task EXCEPT !.status = "CANCELLED"])
           us == [i \in Positions(w) |-> IF tasks[w][i].status \in LiveStatus THEN stopped(tasks[w][i]) ELSE tasks[w][i]]
<1>1. /\ workflow[w] \in WorkflowRow /\ workflow' = [workflow EXCEPT ![w] = row]
      /\ tasks' = [tasks EXCEPT ![w] = us] /\ TransitionAllowed(workflow[w].state, "CANCELLED")
  BY Zenon, RowFacts DEF CancelWorkflow, LiveStatus
<1>2. /\ Positions(w) = 1 .. Len(tasks[w]) /\ Len(tasks[w]) \in Nat
      /\ \A i \in Positions(w) : tasks[w][i] \in Task
  BY DEF IInv, TypeOK, Positions
<1>3. ASSUME NEW task \in Task, task.status \in LiveStatus
      PROVE  KeepsWork(task, stopped(task))
  <2> DEFINE t == [task EXCEPT !.status = "CANCELLED"]
  <2>1. t \in Task /\ t.status = "CANCELLED" /\ t.attempts = task.attempts /\ t.kind = task.kind
    BY Zenon, StatusTask DEF TaskStatus
  <2> HIDE DEF t
  <2>2. /\ DeactivateGrant(t).status = "CANCELLED" /\ DeactivateGrant(t).attempts = task.attempts
        /\ DeactivateGrant(t).kind = task.kind
    BY Zenon, <2>1, DeactivateGrantTask
  <2>3. KeepsWork(task, DeactivateGrant(t))
    BY Zenon, <1>3, <2>2, SameAttempts DEF LiveStatus
  <2> QED
    BY Zenon, <2>3 DEF t
<1>4. Moved(workflow[w], row, "CANCELLED", 1)
  BY Zenon, <1>1, MovedRow DEF WorkflowState
<1> HIDE DEF stopped, row
<1>5. \A i \in 1 .. Len(tasks[w]) : KeepsWork(tasks[w][i], us[i])
  BY Zenon, <1>2, <1>3, SameAttempts
<1>6. us \in Seq(Task) /\ DOMAIN us = Positions(w)
  <2>1. tasks'[w] = us /\ tasks'[w] \in Seq(Task)
    BY Zenon, <1>1 DEF IInv, TypeOK
  <2>2. DOMAIN us = Positions(w)
    BY Zenon
  <2> HIDE DEF us
  <2> QED
    BY Zenon, <2>1, <2>2
<1> HIDE DEF us
<1>7. Len(us) = Len(tasks[w])
  BY Zenon, <1>2, <1>6, DomainLen
<1> QED
  BY Zenon, <1>1, <1>4, <1>5, <1>6, <1>7, EndedWorkflow

(* approve records a decision about the candidate revision *)
LEMMA ApproveStages ==
  ASSUME IInv, SInv, NEW w \in Workflows, NEW revision \in Revisions,
         NEW decision \in {"APPROVED", "REJECTED"}, ApproveMerge(w, revision, decision)
  PROVE  SStep
<1> DEFINE approval == [decision |-> decision, revision |-> revision]
           noted == [workflow[w] EXCEPT !.merge_approval = approval]
           target == IF decision = "APPROVED" THEN "APPROVED" ELSE "REJECTED"
           row == Transition(noted, target)
<1>1. /\ workflow[w] \in WorkflowRow /\ workflow[w].state = "AWAITING_HUMAN_APPROVAL"
      /\ workflow[w].candidate_revision = revision
      /\ workflow' = [workflow EXCEPT ![w] = row] /\ UNCHANGED tasks
  BY Zenon, RowFacts DEF ApproveMerge
<1>2. tasks[w] \in Seq(Task) /\ tasks' = [tasks EXCEPT ![w] = tasks[w]] /\ StagesFit(workflow[w], tasks[w])
  BY Zenon, <1>1 DEF IInv, TypeOK, SInv
<1>3. /\ noted \in WorkflowRow /\ noted.merge_approval = approval /\ noted.version = workflow[w].version
      /\ noted.candidate_revision = revision
  BY Zenon, <1>1 DEF WorkflowRow
<1>4. approval # None /\ approval.decision = decision /\ approval.revision = revision
  BY RowAssumption
<1>5. target \in WorkflowState /\ target = decision
  BY Zenon DEF WorkflowState
<1> HIDE DEF noted, approval
<1>6. Moved(noted, row, target, 1)
  BY Zenon, <1>3, <1>5, MovedRow
<1> HIDE DEF row, target
<1>7. /\ row \in WorkflowRow /\ row.state = decision /\ row.version = workflow[w].version + 1
      /\ row.candidate_revision = revision /\ row.merge_approval = approval
  BY Zenon, <1>3, <1>5, <1>6 DEF Moved
<1>8. row # None /\ workflow[w] # None /\ workflow[w].merge_approval = None
  BY Zenon, <1>1, <1>2, <1>7, RowAssumption DEF StagesFit, DecisionFits
<1>9. /\ StateOf(row) = decision /\ VersionOf(row) = VersionOf(workflow[w]) + 1
      /\ CandidateOf(row) = revision /\ CandidateOf(workflow[w]) = revision
      /\ ApprovedOf(row) = IF decision = "APPROVED" THEN revision ELSE None
      /\ ApprovedOf(workflow[w]) = None /\ StateOf(workflow[w]) = "AWAITING_HUMAN_APPROVAL"
  BY Zenon, <1>1, <1>4, <1>7, <1>8 DEF StateOf, VersionOf, CandidateOf, ApprovedOf
<1>10. DecisionFits(row)
  BY Zenon, <1>7 DEF DecisionFits
<1>11. \A i \in 1 .. Len(tasks[w]) : KeepsWork(tasks[w][i], tasks[w][i])
  BY Zenon, SameAttempts
<1>12. StagesFit(row, tasks[w])
  BY Zenon, <1>2, <1>9, <1>10, <1>11, KeptFit
<1>13. SInv' /\ Sees(w, StateOf(row), VersionOf(row), CandidateOf(row), HoldOf(row, tasks[w]), ApprovedOf(row))
  BY Zenon, <1>1, <1>2, <1>12, OneStep
<1>14. HoldOf(row, tasks[w]) = None /\ HoldOf(workflow[w], tasks[w]) = None
  BY Zenon, <1>1, <1>7, NoHold
<1>15. CASE decision = "APPROVED"
  <2>1. Sees(w, "APPROVED", AbstractVersion[w] + 1, AbstractCandidate[w], AbstractHold[w], AbstractCandidate[w])
    BY Zenon, <1>9, <1>13, <1>14, <1>15, ViewAt
  <2>2. AbstractState[w] = "AWAITING_HUMAN_APPROVAL" /\ AbstractCandidate[w] # None
    BY Zenon, <1>9, ViewAt, NoneAssumption
  <2>3. Lifecycle!Next
    BY Zenon, <2>1, <2>2, SeesApprove
  <2> QED
    BY Zenon, <1>13, <2>3 DEF SStep
<1>16. CASE decision = "REJECTED"
  <2>1. Sees(w, "REJECTED", AbstractVersion[w] + 1, AbstractCandidate[w], None, AbstractApproved[w])
    BY Zenon, <1>9, <1>13, <1>14, <1>16, ViewAt
  <2>2. AbstractState[w] = "AWAITING_HUMAN_APPROVAL"
    BY Zenon, <1>9, ViewAt
  <2>3. AbstractState[w] # None /\ TransitionAllowed(AbstractState[w], "REJECTED")
    BY Zenon, <2>2, NoneAssumption DEF WorkflowState, TransitionAllowed, ALLOWED_TRANSITIONS
  <2>4. Lifecycle!Next
    BY Zenon, <2>1, <2>3, SeesEnd
  <2> QED
    BY Zenon, <1>13, <2>4 DEF SStep
<1> QED
  BY Zenon, <1>15, <1>16

(* The first task of a workflow *)
LEMMA FirstStage ==
  ASSUME NEW row, CandidateOf(row) = None, DecisionFits(row)
  PROVE  StagesFit(row, <<>>) /\ StagesFit(row, <<NewTask("PLAN")>>)
<1> DEFINE ts == <<NewTask("PLAN")>>
<1>1. Stages(None, <<>>)
  BY DEF Stages, InOrder, StagesDone
<1>2. StagesFit(row, <<>>)
  BY Zenon, <1>1 DEF StagesFit
<1>3. "PLAN" \in TaskKind /\ <<>> \in Seq(Task)
  BY DEF TaskKind
<1>4. Stages(None, Append(<<>>, NewTask("PLAN")))
  BY Zenon, <1>1, <1>3, NextStages
<1>5. ts = Append(<<>>, NewTask("PLAN")) /\ Len(ts) = 1 /\ ts[1] = NewTask("PLAN")
  OBVIOUS
<1>6. NewTask("PLAN").status = "READY"
  BY Zenon, <1>3, NewTaskFits
<1> HIDE DEF ts
<1>7. Stages(None, ts) /\ ts[Len(ts)].status = "READY"
  BY Zenon, <1>4, <1>5, <1>6
<1>8. StagesFit(row, ts)
  BY Zenon, <1>7 DEF StagesFit
<1> QED
  BY Zenon, <1>2, <1>8 DEF ts

(* create_workflow *)
LEMMA CreateStages ==
  ASSUME IInv, SInv, NEW w \in Workflows, NEW suspicious \in BOOLEAN, CreateWorkflow(w, suspicious)
  PROVE  SStep
<1> DEFINE reason == IF suspicious THEN "INPUT_DISPOSITION_REQUIRED" ELSE "NULL"
           target == IF suspicious THEN "BLOCKED" ELSE "PLANNING"
           first == [state |-> "CREATED", version |-> 1, block_reason |-> reason,
                     containment_required |-> suspicious, candidate_revision |-> None,
                     disposition |-> "NULL", merge_approval |-> None]
           row == Transition(first, target)
           us == IF suspicious THEN <<>> ELSE <<NewTask("PLAN")>>
<1>1. workflow[w] = None /\ workflow' = [workflow EXCEPT ![w] = row] /\ tasks' = [tasks EXCEPT ![w] = us]
  BY Zenon DEF CreateWorkflow, Created
<1>2. /\ first \in WorkflowRow /\ first.version = 1 /\ first.candidate_revision = None
      /\ first.merge_approval = None /\ first.block_reason = reason
  BY Zenon DEF WorkflowRow, WorkflowState, BlockReason
<1>3. target \in WorkflowState
  BY Zenon DEF WorkflowState
<1> HIDE DEF first
<1>4. Moved(first, row, target, 1) /\ row.block_reason = reason
  BY Zenon, <1>2, <1>3, MovedRow
<1> HIDE DEF row
<1>5. /\ row # None /\ row.state = target /\ row.version = 2 /\ row.candidate_revision = None
      /\ row.merge_approval = None
  BY <1>2, <1>4, RowAssumption DEF Moved
<1>6. /\ StateOf(row) = target /\ VersionOf(row) = 2 /\ CandidateOf(row) = None /\ ApprovedOf(row) = None
      /\ StateOf(workflow[w]) = None /\ VersionOf(workflow[w]) = 0 /\ CandidateOf(workflow[w]) = None
      /\ ApprovedOf(workflow[w]) = None /\ HoldOf(workflow[w], tasks[w]) = None
  BY Zenon, <1>1, <1>5 DEF StateOf, VersionOf, CandidateOf, ApprovedOf, HoldOf
<1>7. HoldOf(row, us) = IF suspicious THEN "PLANNING" ELSE None
  <2>1. CASE suspicious
    <3>1. row.state = "BLOCKED" /\ row.block_reason = "INPUT_DISPOSITION_REQUIRED"
      BY Zenon, <1>4, <1>5, <2>1
    <3> QED
      BY Zenon, <1>5, <2>1, <3>1 DEF HoldOf
  <2>2. CASE ~suspicious
    <3>1. row.state = "PLANNING"
      BY Zenon, <1>5, <2>2
    <3> QED
      BY Zenon, <2>2, <3>1, NoHold
  <2> QED
    BY Zenon, <2>1, <2>2
<1>8. DecisionFits(row)
  BY Zenon, <1>5 DEF DecisionFits
<1>9. StagesFit(row, us)
  BY Zenon, <1>6, <1>8, FirstStage
<1> HIDE DEF us, reason
<1>10. SInv' /\ Sees(w, StateOf(row), VersionOf(row), CandidateOf(row), HoldOf(row, us), ApprovedOf(row))
  BY Zenon, <1>1, <1>9, OneStep
<1>11. /\ AbstractState[w] = None /\ AbstractVersion[w] + 2 = 2
       /\ AbstractCandidate[w] = None /\ AbstractHold[w] = None /\ AbstractApproved[w] = None
  BY <1>6, ViewAt
<1>12. Sees(w, target, AbstractVersion[w] + 2, AbstractCandidate[w], HoldOf(row, us), AbstractApproved[w])
  BY Zenon, <1>6, <1>10, <1>11
<1>13. Lifecycle!Next
  BY Zenon, <1>7, <1>11, <1>12, SeesCreate
<1> QED
  BY Zenon, <1>10, <1>13 DEF SStep

(* disposition_workflow *)
LEMMA DispositionStages ==
  ASSUME IInv, SInv, NEW w \in Workflows, NEW decision \in {"RESUME", "REJECT"}, DispositionWorkflow(w, decision)
  PROVE  SStep
<1> DEFINE refused == [workflow[w] EXCEPT !.disposition = decision, !.block_reason = "INPUT_REJECTED"]
           released == [workflow[w] EXCEPT !.disposition = decision, !.block_reason = "NULL",
                                           !.containment_required = TRUE]
           rejected == Transition(refused, "REJECTED")
           resumed == Transition(released, "PLANNING")
<1>1. /\ Created(w) /\ workflow[w].state = "BLOCKED" /\ workflow[w].block_reason = "INPUT_DISPOSITION_REQUIRED"
      /\ \/ workflow' = [workflow EXCEPT ![w] = rejected] /\ UNCHANGED tasks
         \/ workflow' = [workflow EXCEPT ![w] = resumed] /\ tasks' = [tasks EXCEPT ![w] = Append(tasks[w], NewTask("PLAN"))]
  BY Zenon DEF DispositionWorkflow
<1>2. workflow[w] \in WorkflowRow /\ tasks[w] = <<>> /\ workflow[w] # None
  BY Zenon, <1>1, RowFacts DEF Consistent, Created
<1>3. StagesFit(workflow[w], tasks[w])
  BY Zenon DEF SInv
<1>4. CandidateOf(workflow[w]) = None /\ DecisionFits(workflow[w])
  BY Zenon, <1>2, <1>3 DEF StagesFit
<1>5. /\ refused \in WorkflowRow /\ refused.version = workflow[w].version
      /\ refused.candidate_revision = workflow[w].candidate_revision
      /\ refused.merge_approval = workflow[w].merge_approval
  BY Zenon, <1>2 DEF WorkflowRow, BlockReason
<1>6. /\ released \in WorkflowRow /\ released.version = workflow[w].version
      /\ released.candidate_revision = workflow[w].candidate_revision
      /\ released.merge_approval = workflow[w].merge_approval
  BY Zenon, <1>2 DEF WorkflowRow, BlockReason
<1> HIDE DEF refused, released
<1>7. "REJECTED" \in WorkflowState /\ "PLANNING" \in WorkflowState
  BY Zenon DEF WorkflowState
<1>8. Moved(workflow[w], rejected, "REJECTED", 1)
  <2>1. Moved(refused, rejected, "REJECTED", 1)
    BY Zenon, <1>5, <1>7, MovedRow
  <2> HIDE DEF rejected
  <2> QED
    BY Zenon, <1>5, <2>1 DEF Moved
<1>9. Moved(workflow[w], resumed, "PLANNING", 1)
  <2>1. Moved(released, resumed, "PLANNING", 1)
    BY Zenon, <1>6, <1>7, MovedRow
  <2> HIDE DEF resumed
  <2> QED
    BY Zenon, <1>6, <2>1 DEF Moved
<1> HIDE DEF rejected, resumed
<1>10. TransitionAllowed("BLOCKED", "REJECTED") /\ TransitionAllowed("BLOCKED", "PLANNING")
  BY Zenon DEF TransitionAllowed, ALLOWED_TRANSITIONS, WorkflowState
<1>11. CASE workflow' = [workflow EXCEPT ![w] = rejected] /\ UNCHANGED tasks
  <2>1. tasks' = [tasks EXCEPT ![w] = tasks[w]] /\ tasks[w] \in Seq(Task)
    BY Zenon, <1>11 DEF IInv, TypeOK
  <2>2. \A i \in 1 .. Len(tasks[w]) : KeepsWork(tasks[w][i], tasks[w][i])
    BY Zenon, SameAttempts
  <2> QED
    BY ZenonT(30), <1>1, <1>2, <1>8, <1>10, <1>11, <2>1, <2>2, EndedWorkflow
<1>12. CASE workflow' = [workflow EXCEPT ![w] = resumed] /\ tasks' = [tasks EXCEPT ![w] = Append(tasks[w], NewTask("PLAN"))]
  <2>1. Append(tasks[w], NewTask("PLAN")) = <<NewTask("PLAN")>>
    BY <1>2
  <2>2. CandidateOf(resumed) = None
    BY Zenon, <1>2, <1>4, <1>9, MovedView
  <2>3. DecisionFits(resumed)
    BY Zenon, <1>1, <1>2, <1>4, <1>9, MovedDecision
  <2>4. StagesFit(resumed, <<NewTask("PLAN")>>)
    BY Zenon, <2>2, <2>3, FirstStage
  <2>5. "PLANNING" = HoldOf(workflow[w], tasks[w])
    BY Zenon, <1>1, <1>2 DEF HoldOf
  <2>6. "PLANNING" \in WorkState
    BY Zenon DEF WorkState, TASK_WORKFLOW_STATE, TaskKind
  <2> QED
    BY Zenon, <1>1, <1>2, <1>9, <1>10, <1>12, <2>1, <2>4, <2>5, <2>6, ResumedWorkflow
<1> QED
  BY Zenon, <1>1, <1>11, <1>12

(* The human's decision about an attempt is no evidence *)
LEMMA ReconciledKeeps ==
  ASSUME NEW old \in Task, old.status = "BLOCKED", NEW n \in 1 .. Len(old.attempts), NEW decision \in {"RETRY", "FAIL"}
  PROVE  LET task == ReconciledTask(old, n, decision)
         IN task.status = "RECONCILED" /\ KeepsWork(old, task)
<1> DEFINE a == [old.attempts[n] EXCEPT !.reconciliation = decision]
           m == [old EXCEPT !.status = "RECONCILED"]
           attempts == [old.attempts EXCEPT ![n] = a]
           task == ReconciledTask(old, n, decision)
<1>1. old.attempts \in Seq(Attempt) /\ old.attempts[n] \in Attempt
  BY DEF Task
<1>2. /\ a \in Attempt /\ a.provider = old.attempts[n].provider /\ a.examined = old.attempts[n].examined
      /\ a.artifact = old.attempts[n].artifact /\ a.status = old.attempts[n].status
  BY Zenon, <1>1 DEF Attempt
<1>3. task = [m EXCEPT !.attempts = attempts]
  BY Zenon DEF ReconciledTask, Task
<1>4. m \in Task /\ m.status = "RECONCILED" /\ m.kind = old.kind
  BY Zenon, StatusTask DEF TaskStatus
<1> HIDE DEF a, m, task
<1>5. /\ attempts \in Seq(Attempt) /\ Len(attempts) = Len(old.attempts)
      /\ \A k \in 1 .. Len(old.attempts) : attempts[k] = IF k = n THEN a ELSE old.attempts[k]
  BY <1>1, <1>2, PutInSeq
<1> HIDE DEF attempts
<1>6. task.status = "RECONCILED" /\ task.kind = old.kind /\ task.attempts = attempts
  BY Zenon, <1>3, <1>4, <1>5, AttemptsTask
<1>7. attempts[n] = a /\ \A k \in 1 .. Len(old.attempts) : k # n => attempts[k] = old.attempts[k]
  BY Zenon, <1>5
<1>8. \A k \in 1 .. Len(old.attempts) :
        /\ attempts[k].provider = old.attempts[k].provider /\ attempts[k].examined = old.attempts[k].examined
        /\ attempts[k].artifact = old.attempts[k].artifact /\ attempts[k].status = old.attempts[k].status
  BY Zenon, <1>2, <1>7
<1>9. task.status # "SUCCEEDED" /\ old.status # "SUCCEEDED"
  BY Zenon, <1>6
<1>10. KeepsWork(old, task)
  BY Zenon, <1>5, <1>6, <1>8, <1>9 DEF KeepsWork
<1> QED
  BY Zenon, <1>6, <1>10 DEF task

(* A row and the tasks after one was scheduled *)
LEMMA AppendedFit ==
  ASSUME NEW new, NEW us \in Seq(Task), NEW kind \in TaskKind, Stages(CandidateOf(new), Append(us, NewTask(kind))),
         DecisionFits(new), CandidateOf(new) # None => kind \in NeedsCandidate
  PROVE  StagesFit(new, Append(us, NewTask(kind)))
<1> DEFINE vs == Append(us, NewTask(kind))
<1>1. NewTask(kind) \in Task /\ NewTask(kind).kind = kind /\ NewTask(kind).status = "READY"
  BY Zenon, NewTaskFits
<1>2. vs # <<>> /\ Len(vs) = Len(us) + 1 /\ vs[Len(us) + 1] = NewTask(kind)
  BY <1>1, AppendToSeq
<1> HIDE DEF vs
<1>3. vs[Len(vs)].kind = kind /\ vs[Len(vs)].status # "SUCCEEDED"
  BY Zenon, <1>1, <1>2
<1>4. StagesFit(new, vs)
  BY Zenon, <1>2, <1>3 DEF StagesFit, vs
<1> QED
  BY Zenon, <1>4 DEF vs

(* A row and the tasks after the last one changed without success *)
LEMMA BegunFit ==
  ASSUME NEW row, NEW ts \in Seq(Task), StagesFit(row, ts), NEW l \in 1 .. Len(ts), l = Len(ts), NEW task \in Task,
         task.kind = ts[l].kind, task.status # "SUCCEEDED", Stages(CandidateOf(row), [ts EXCEPT ![l] = task]),
         NEW new, CandidateOf(new) = CandidateOf(row), DecisionFits(new)
  PROVE  StagesFit(new, [ts EXCEPT ![l] = task])
<1> DEFINE us == [ts EXCEPT ![l] = task]
<1>1. us \in Seq(Task) /\ Len(us) = l /\ us[l] = task
  BY PutInSeq
<1>2. us # <<>> /\ ts # <<>>
  BY <1>1
<1> HIDE DEF us
<1>3. us[Len(us)].kind = ts[Len(ts)].kind /\ us[Len(us)].status # "SUCCEEDED"
  BY Zenon, <1>1
<1>4. StagesFit(new, us)
  BY Zenon, <1>2, <1>3 DEF StagesFit, us
<1> QED
  BY Zenon, <1>4 DEF us

(* reconcile_execution: work goes on in the stage in which it was blocked *)
LEMMA ReconcileStages ==
  ASSUME IInv, HInv, SInv, NEW w \in Workflows, NEW i \in Positions(w), NEW decision \in {"RETRY", "FAIL"},
         ReconcileExecution(w, i, decision)
  PROVE  SStep
<1> DEFINE n == AbandonedAttempt(tasks[w][i])
           task == ReconciledTask(tasks[w][i], n, decision)
           kind == tasks[w][i].kind
           closed == PutTask(w, i, task)
           retried == Transition([workflow[w] EXCEPT !.block_reason = "NULL"], TASK_WORKFLOW_STATE[kind])
           failed == Transition([workflow[w] EXCEPT !.block_reason = "EXECUTION_RECONCILED_FAILED"], "FAILED")
           us == Append(closed, NewTask(kind))
<1>1. /\ Created(w) /\ workflow[w].state = "BLOCKED"
      /\ workflow[w].block_reason = "EXECUTION_RECONCILIATION_REQUIRED"
      /\ tasks[w][i].status = "BLOCKED" /\ n # 0 /\ tasks[w][i].attempts[n].reconciliation = "NULL"
      /\ \/ /\ TransitionAllowed("BLOCKED", TASK_WORKFLOW_STATE[kind])
            /\ workflow' = [workflow EXCEPT ![w] = retried] /\ tasks' = [tasks EXCEPT ![w] = us]
         \/ workflow' = [workflow EXCEPT ![w] = failed] /\ tasks' = [tasks EXCEPT ![w] = closed]
  BY Zenon DEF ReconcileExecution, Reconcilable, ReconciledTask
<1>2. /\ workflow[w] \in WorkflowRow /\ tasks[w] \in Seq(Task) /\ i \in 1 .. Len(tasks[w])
      /\ tasks[w][i] \in Task /\ History(tasks[w][i]) /\ kind \in TaskKind /\ i = Len(tasks[w])
  BY Zenon, <1>1, RowFacts, HistoryFacts, TaskFacts DEF Task
<1>3. n \in 1 .. Len(tasks[w][i].attempts)
  BY Zenon, <1>1, <1>2, Abandoned
<1>4. task \in Task
  BY Zenon, <1>1, <1>2, ReconciledHistory
<1>5. task.status = "RECONCILED" /\ KeepsWork(tasks[w][i], task)
  BY Zenon, <1>1, <1>2, <1>3, ReconciledKeeps
<1> HIDE DEF task, n
<1>6. /\ closed \in Seq(Task) /\ Len(closed) = Len(tasks[w]) /\ closed[i] = task
      /\ \A j \in 1 .. Len(tasks[w]) : KeepsWork(tasks[w][j], closed[j])
  BY <1>2, <1>4, <1>5, PutKeeps, PutInSeq DEF PutTask
<1> HIDE DEF closed
<1>7. StagesFit(workflow[w], tasks[w])
  BY Zenon DEF SInv
<1>8. CASE /\ TransitionAllowed("BLOCKED", TASK_WORKFLOW_STATE[kind])
           /\ workflow' = [workflow EXCEPT ![w] = retried] /\ tasks' = [tasks EXCEPT ![w] = us]
  <2>1. TASK_WORKFLOW_STATE[kind] \in WorkState /\ TASK_WORKFLOW_STATE[kind] \in WorkflowState /\ "NULL" \in BlockReason
    BY Zenon, <1>2, StageTransitions DEF BlockReason
  <2>2. Moved(workflow[w], retried, TASK_WORKFLOW_STATE[kind], 1)
    BY Zenon, <1>2, <2>1, MovedWithReason
  <2> HIDE DEF retried
  <2>3. DecisionFits(workflow[w])
    BY Zenon, <1>7 DEF StagesFit
  <2>4. DecisionFits(retried)
    BY Zenon, <1>1, <1>2, <2>2, <2>3, MovedDecision
  <2>5. CandidateOf(retried) = CandidateOf(workflow[w])
    BY Zenon, <1>2, <2>2, MovedView
  <2>6. Stages(CandidateOf(workflow[w]), tasks[w])
    BY Zenon, <1>7 DEF StagesFit
  <2>7. Stages(CandidateOf(retried), closed)
    BY Zenon, <1>2, <1>6, <2>5, <2>6, KeptStages
  <2>8. closed # <<>> /\ kind = closed[Len(closed)].kind /\ closed[Len(closed)].status # "SUCCEEDED"
    BY <1>2, <1>5, <1>6 DEF KeepsWork
  <2>9. Stages(CandidateOf(retried), us)
    BY Zenon, <1>2, <1>6, <2>7, <2>8, NextStages
  <2>10. CandidateOf(retried) # None => kind \in NeedsCandidate
    BY Zenon, <1>2, <1>7, <2>5 DEF StagesFit
  <2>11. StagesFit(retried, us)
    BY Zenon, <1>2, <1>6, <2>4, <2>9, <2>10, AppendedFit
  <2>12. workflow[w] # None
    BY Zenon, <1>1 DEF Created
  <2>13. TASK_WORKFLOW_STATE[kind] = HoldOf(workflow[w], tasks[w])
    BY Zenon, <1>1, <1>2, <2>12 DEF HoldOf
  <2> HIDE DEF us
  <2> QED
    BY Zenon, <1>1, <1>2, <1>8, <2>1, <2>2, <2>11, <2>13, ResumedWorkflow
<1>9. CASE workflow' = [workflow EXCEPT ![w] = failed] /\ tasks' = [tasks EXCEPT ![w] = closed]
  <2>1. "FAILED" \in WorkflowState /\ "EXECUTION_RECONCILED_FAILED" \in BlockReason
    BY Zenon DEF WorkflowState, BlockReason
  <2>2. Moved(workflow[w], failed, "FAILED", 1)
    BY Zenon, <1>2, <2>1, MovedWithReason
  <2> HIDE DEF failed
  <2>3. TransitionAllowed("BLOCKED", "FAILED")
    BY Zenon DEF TransitionAllowed, ALLOWED_TRANSITIONS, WorkflowState
  <2> QED
    BY Zenon, <1>1, <1>2, <1>6, <1>9, <2>2, <2>3, EndedWorkflow
<1> QED
  BY Zenon, <1>1, <1>8, <1>9

(* _record_routing_block: no provider was selected, and nobody can resume it *)
LEMMA RoutingBlockedStages ==
  ASSUME IInv, HInv, SInv, NEW p \in Workers, RoutingBlocked(p)
  PROVE  SStep
<1> DEFINE w == worker[p].wf
           i == worker[p].pos
           a == [status |-> "FAILED", error_code |-> "RoutingBlocked", provider |-> None,
                 examined |-> None, artifact |-> None, output |-> "NULL", reconciliation |-> "NULL"]
           attempts == Append(tasks[w][i].attempts, a)
           marked == [tasks[w][i] EXCEPT !.status = "BLOCKED"]
           blocked == [tasks[w][i] EXCEPT !.status = "BLOCKED", !.attempts = Append(@, a)]
           task == DeactivateGrant(ClearLease(blocked))
           row == Transition([workflow[w] EXCEPT !.block_reason = "NO_ELIGIBLE_PROVIDER"], "BLOCKED")
           c == CandidateOf(workflow[w])
<1>1. w \in Workflows /\ i \in Positions(w)
  BY Zenon, HeldFacts DEF RoutingBlocked
<1>2. /\ tasks[w][i].status = "LEASED" /\ tasks' = [tasks EXCEPT ![w] = PutTask(w, i, task)]
      /\ workflow' = [workflow EXCEPT ![w] = row] /\ TransitionAllowed(workflow[w].state, "BLOCKED")
  BY Zenon DEF RoutingBlocked, PrepareAllowed, HoldsLease, HeldTask
<1>3. /\ tasks[w][i] \in Task /\ workflow[w] \in WorkflowRow
      /\ tasks[w] \in Seq(Task) /\ i \in 1 .. Len(tasks[w]) /\ i = Len(tasks[w])
      /\ StateFits(workflow[w].state, tasks[w][i])
  BY Zenon, <1>1, <1>2, TaskFacts DEF LiveStatus
<1>4. a \in Attempt /\ a.status = "FAILED" /\ a.provider = None
  BY Zenon DEF Attempt
<1>5. blocked = [marked EXCEPT !.attempts = attempts]
  BY Zenon, <1>3 DEF Task
<1> HIDE DEF a
<1>6. attempts \in Seq(Attempt)
  BY Zenon, <1>3, <1>4, AppendToSeq DEF Task
<1>7. marked \in Task /\ marked.status = "BLOCKED" /\ marked.kind = tasks[w][i].kind
  BY Zenon, <1>3, StatusTask DEF TaskStatus
<1> HIDE DEF marked, attempts, blocked
<1>8. blocked \in Task /\ blocked.status = "BLOCKED" /\ blocked.attempts = attempts /\ blocked.kind = tasks[w][i].kind
  BY Zenon, <1>5, <1>6, <1>7, AttemptsTask
<1>9. task \in Task /\ task.status = "BLOCKED" /\ task.attempts = attempts /\ task.kind = tasks[w][i].kind
  BY ZenonT(30), <1>8, ClearLeaseTask, DeactivateGrantTask
<1>10. Moved(workflow[w], row, "BLOCKED", 1) /\ row.block_reason = "NO_ELIGIBLE_PROVIDER"
  <2>1. "BLOCKED" \in WorkflowState /\ "NO_ELIGIBLE_PROVIDER" \in BlockReason
    BY Zenon DEF WorkflowState, BlockReason
  <2> QED
    BY Zenon, <1>3, <2>1, MovedWithReason
<1> HIDE DEF task, row
<1>11. StagesFit(workflow[w], tasks[w])
  BY Zenon, <1>1 DEF SInv
<1>12. Stages(c, tasks[w]) /\ DecisionFits(workflow[w])
  BY Zenon, <1>11 DEF StagesFit
<1>13. AttemptEvidence(task.kind, a, c)
  BY Zenon, <1>4 DEF AttemptEvidence
<1>14. ASSUME NEW j \in 1 .. Len(tasks[w]), NEW m \in 1 .. Len(tasks[w][j].attempts),
              tasks[w][j].attempts[m].status = "SUCCEEDED"
       PROVE  a.provider # tasks[w][j].attempts[m].provider
  <2>1. Evidence(tasks[w][j], c)
    BY Zenon, <1>12 DEF Stages
  <2>2. tasks[w][j].attempts[m].provider \in Providers
    BY Zenon, <1>14, <2>1 DEF Evidence, AttemptEvidence
  <2> QED
    BY Zenon, <1>4, <2>2, NoneAssumption
<1>15. Stages(c, [tasks[w] EXCEPT ![i] = task])
  <2>1. task.attempts = Append(tasks[w][i].attempts, a) /\ task.status # "SUCCEEDED" /\ tasks[w][i].status # "SUCCEEDED"
    BY Zenon, <1>2, <1>9 DEF attempts
  <2>2. a.status # "SUCCEEDED"
    BY Zenon, <1>4
  <2> QED
    BY Zenon, <1>3, <1>4, <1>9, <1>12, <1>13, <1>14, <2>1, <2>2, BegunStages
<1>16. tasks[w][i].kind \in TaskKind
  BY Zenon, <1>3 DEF Task
<1>17. workflow[w].state \in WorkState
  BY Zenon, <1>2, <1>3, <1>16, StageTransitions DEF StateFits, LiveStatus
<1>18. DecisionFits(row)
  BY Zenon, <1>3, <1>10, <1>12, <1>17, MovedDecision, StageUndecided
<1>19. /\ StateOf(workflow[w]) = workflow[w].state
       /\ StateOf(row) = "BLOCKED" /\ VersionOf(row) = VersionOf(workflow[w]) + 1
       /\ CandidateOf(row) = CandidateOf(workflow[w]) /\ ApprovedOf(row) = ApprovedOf(workflow[w])
  BY ZenonT(30), <1>3, <1>10, MovedView
<1>20. StagesFit(row, PutTask(w, i, task))
  BY Zenon, <1>3, <1>9, <1>11, <1>15, <1>18, <1>19, BegunFit DEF PutTask
<1>21. SInv' /\ Sees(w, StateOf(row), VersionOf(row), CandidateOf(row), HoldOf(row, PutTask(w, i, task)), ApprovedOf(row))
  BY Zenon, <1>1, <1>2, <1>20, OneStep
<1>22. HoldOf(row, PutTask(w, i, task)) = None
  BY Zenon, <1>10, NoHold
<1>23. Sees(w, "BLOCKED", AbstractVersion[w] + 1, AbstractCandidate[w], None, AbstractApproved[w])
  BY Zenon, <1>1, <1>19, <1>21, <1>22, ViewAt
<1>24. AbstractState[w] = workflow[w].state
  BY Zenon, <1>1, <1>19, ViewAt
<1>25. Lifecycle!Next
  BY Zenon, <1>1, <1>2, <1>17, <1>23, <1>24, SeesBlock
<1> QED
  BY Zenon, <1>21, <1>25 DEF SStep

(* The newest route of the producing kind is that of the attempt whose output *)
(* is reviewed: after a success no task of that kind is scheduled             *)
LEMMA ProducerRoute ==
  ASSUME IInv, HInv, SInv, NEW w \in Workflows, NEW kind \in ReviewKind,
         NEW j \in 1 .. Len(tasks[w]), tasks[w][j].kind = REVIEW_PRODUCER_KIND[kind],
         NEW m \in 1 .. Len(tasks[w][j].attempts), tasks[w][j].attempts[m].status = "SUCCEEDED"
  PROVE  ProducerProvider(w, kind) = tasks[w][j].attempts[m].provider
<1> DEFINE producer == REVIEW_PRODUCER_KIND[kind]
           routed == {a \in AttemptsOf(w, producer) : AttemptAt(w, a).provider \in Providers}
           Newest(a) == \A b \in routed : b[1] < a[1] \/ (b[1] = a[1] /\ b[2] <= a[2])
           newest == CHOOSE a \in routed : Newest(a)
<1>1. /\ tasks[w] \in Seq(Task) /\ Len(tasks[w]) \in Nat /\ Positions(w) = 1 .. Len(tasks[w])
      /\ \A i \in 1 .. Len(tasks[w]) : tasks[w][i] \in Task /\ History(tasks[w][i])
  BY Zenon, HistoryFacts
<1>2. InOrder(tasks[w]) /\ Evidence(tasks[w][j], CandidateOf(workflow[w]))
  BY Zenon DEF SInv, StagesFit, Stages
<1>3. tasks[w][j].attempts[m].provider \in Providers
  BY Zenon, <1>2 DEF Evidence, AttemptEvidence
<1>4. tasks[w][j].status = "SUCCEEDED" /\ m = Len(tasks[w][j].attempts)
  BY Zenon, <1>1 DEF History
<1>5. \A i \in 1 .. Len(tasks[w]) : DOMAIN tasks[w][i].attempts = 1 .. Len(tasks[w][i].attempts)
                                      /\ Len(tasks[w][i].attempts) \in Nat
  <2> SUFFICES ASSUME NEW i \in 1 .. Len(tasks[w])
               PROVE  DOMAIN tasks[w][i].attempts = 1 .. Len(tasks[w][i].attempts) /\ Len(tasks[w][i].attempts) \in Nat
    BY Zenon
  <2>1. tasks[w][i] \in Task
    BY Zenon, <1>1
  <2> QED
    BY <2>1 DEF Task
<1>6. \A b : b \in AttemptsOf(w, producer) <=>
              \E x \in 1 .. Len(tasks[w]) : \E y \in 1 .. Len(tasks[w][x].attempts) :
                tasks[w][x].kind = producer /\ b = <<x, y>>
  BY <1>1, <1>5 DEF AttemptsOf
<1>7. <<j, m>> \in routed
  BY Zenon, <1>3, <1>6 DEF AttemptAt
<1>8. ASSUME NEW b \in routed
      PROVE  /\ b[1] \in Nat /\ b[2] \in Nat
             /\ b[1] < j \/ (b[1] = j /\ b[2] <= m)
  <2>1. PICK x \in 1 .. Len(tasks[w]) : \E y \in 1 .. Len(tasks[w][x].attempts) :
               tasks[w][x].kind = producer /\ b = <<x, y>>
    BY Zenon, <1>6, <1>8
  <2>2. PICK y \in 1 .. Len(tasks[w][x].attempts) : tasks[w][x].kind = producer /\ b = <<x, y>>
    BY Zenon, <2>1
  <2>3. ~(j < x)
    <3>1. SUFFICES ASSUME j < x PROVE FALSE
      BY Zenon
    <3>2. Rank[tasks[w][j].kind] < Rank[tasks[w][x].kind]
      BY Zenon, <1>2, <1>4, <3>1 DEF InOrder
    <3>3. Rank[producer] < Rank[producer] /\ producer \in TaskKind
      BY Zenon, <2>2, <3>2, RankOrder
    <3> QED
      BY <3>3, RankOrder
  <2>4. x = j => y <= m
    BY <1>4, <1>5
  <2>5. b[1] = x /\ b[2] = y /\ x \in Nat /\ y \in Nat
    BY <1>1, <1>5, <2>2
  <2> QED
    BY <1>1, <2>3, <2>4, <2>5
<1>9. Newest(<<j, m>>)
  BY Zenon, <1>8
<1> HIDE DEF routed
<1>10. newest \in routed /\ Newest(newest)
  BY Zenon, <1>7, <1>9
<1>11. newest[1] = j /\ newest[2] = m
  <2>1. newest[1] \in Nat /\ newest[2] \in Nat /\ (newest[1] < j \/ (newest[1] = j /\ newest[2] <= m))
    BY Zenon, <1>8, <1>10
  <2>2. j < newest[1] \/ (j = newest[1] /\ m <= newest[2])
    BY Zenon, <1>7, <1>10
  <2>3. j \in Nat /\ m \in Nat
    BY <1>1, <1>5
  <2> HIDE DEF newest
  <2> QED
    BY <2>1, <2>2, <2>3
<1>12. ProducerProvider(w, kind) = AttemptAt(w, newest).provider
  BY Zenon, <1>7 DEF ProducerProvider, routed
<1> HIDE DEF newest
<1> QED
  BY Zenon, <1>11, <1>12 DEF AttemptAt

(* _prepare_execution: a review is routed to another provider than the work *)
(* it reviews, and is given the candidate revision                          *)
LEMMA PrepareStages ==
  ASSUME IInv, HInv, SInv, IInv', NEW p \in Workers, NEW provider \in Providers, PrepareExecution(p, provider)
  PROVE  SStep
<1> DEFINE w == worker[p].wf
           i == worker[p].pos
           a == [status |-> "RUNNING", error_code |-> None, provider |-> provider,
                 examined |-> workflow[w].candidate_revision, artifact |-> None,
                 output |-> "NULL", reconciliation |-> "NULL"]
           task == [tasks[w][i] EXCEPT !.status = "RUNNING", !.lease_left = LeaseTicks,
                                       !.attempts = Append(@, a)]
           c == CandidateOf(workflow[w])
<1>1. w \in Workflows /\ i \in Positions(w)
  BY Zenon, HeldFacts DEF PrepareExecution
<1>2. /\ tasks[w][i].status = "LEASED" /\ tasks' = [tasks EXCEPT ![w] = PutTask(w, i, task)]
      /\ UNCHANGED workflow /\ provider \in Eligible(w, tasks[w][i].kind)
  BY Zenon DEF PrepareExecution, PrepareAllowed, HoldsLease, HeldTask
<1>3. /\ tasks[w][i] \in Task /\ workflow[w] \in WorkflowRow /\ workflow[w] # None
      /\ tasks[w] \in Seq(Task) /\ i \in 1 .. Len(tasks[w]) /\ i = Len(tasks[w])
      /\ workflow' = [workflow EXCEPT ![w] = workflow[w]]
  BY Zenon, <1>1, <1>2, TaskFacts DEF LiveStatus
<1>4. a \in Attempt /\ a.status = "RUNNING" /\ a.provider = provider /\ a.examined = c
  BY Zenon, <1>3 DEF Attempt, WorkflowRow, CandidateOf
<1>5. task.status = "RUNNING" /\ task.attempts = Append(tasks[w][i].attempts, a) /\ task.kind = tasks[w][i].kind
  BY Zenon, <1>3 DEF Task
<1> HIDE DEF task, a
<1>6. task \in Task
  BY Zenon, <1>1, <1>2, PutTyped
<1>7. StagesFit(workflow[w], tasks[w])
  BY Zenon, <1>1 DEF SInv
<1>8. Stages(c, tasks[w]) /\ DecisionFits(workflow[w])
  BY Zenon, <1>7 DEF StagesFit
<1>9. AttemptEvidence(task.kind, a, c)
  BY Zenon, <1>4 DEF AttemptEvidence
<1>10. ASSUME task.kind \in ReviewKind, NEW j \in 1 .. Len(tasks[w]),
              tasks[w][j].kind = REVIEW_PRODUCER_KIND[task.kind],
              NEW m \in 1 .. Len(tasks[w][j].attempts), tasks[w][j].attempts[m].status = "SUCCEEDED"
       PROVE  a.provider # tasks[w][j].attempts[m].provider
  <2>1. ProducerProvider(w, task.kind) = tasks[w][j].attempts[m].provider
    BY Zenon, <1>1, <1>10, ProducerRoute
  <2>2. provider # ProducerProvider(w, task.kind)
    BY Zenon, <1>2, <1>5, <1>10 DEF Eligible
  <2> QED
    BY Zenon, <1>4, <2>1, <2>2
<1>11. Stages(c, [tasks[w] EXCEPT ![i] = task])
  <2>1. task.status # "SUCCEEDED" /\ tasks[w][i].status # "SUCCEEDED" /\ a.status # "SUCCEEDED"
    BY Zenon, <1>2, <1>4, <1>5
  <2> QED
    BY Zenon, <1>3, <1>4, <1>5, <1>6, <1>8, <1>9, <1>10, <2>1, BegunStages
<1>12. StagesFit(workflow[w], PutTask(w, i, task))
  <2>1. task.status # "SUCCEEDED"
    BY Zenon, <1>5
  <2> QED
    BY Zenon, <1>3, <1>5, <1>6, <1>7, <1>8, <1>11, <2>1, BegunFit DEF PutTask
<1>13. SInv' /\ Sees(w, StateOf(workflow[w]), VersionOf(workflow[w]), CandidateOf(workflow[w]),
                     HoldOf(workflow[w], PutTask(w, i, task)), ApprovedOf(workflow[w]))
  BY Zenon, <1>1, <1>2, <1>3, <1>12, OneStep
<1>14. HoldOf(workflow[w], PutTask(w, i, task)) = HoldOf(workflow[w], tasks[w])
  <2>1. /\ PutTask(w, i, task) \in Seq(Task) /\ Len(PutTask(w, i, task)) = Len(tasks[w])
        /\ \A j \in 1 .. Len(tasks[w]) : PutTask(w, i, task)[j] = IF j = i THEN task ELSE tasks[w][j]
    BY <1>3, <1>6, PutInSeq DEF PutTask
  <2>2. \A j \in 1 .. Len(tasks[w]) : PutTask(w, i, task)[j].kind = tasks[w][j].kind
    BY Zenon, <1>5, <2>1
  <2> QED
    BY Zenon, <1>3, <2>1, <2>2, SameHold
<1>15. UNCHANGED LVars
  <2>1. /\ StateOf(workflow[w]) = AbstractState[w] /\ VersionOf(workflow[w]) = AbstractVersion[w]
        /\ CandidateOf(workflow[w]) = AbstractCandidate[w] /\ ApprovedOf(workflow[w]) = AbstractApproved[w]
        /\ HoldOf(workflow[w], PutTask(w, i, task)) = AbstractHold[w]
    BY Zenon, <1>1, <1>14, ViewAt
  <2>2. Sees(w, AbstractState[w], AbstractVersion[w], AbstractCandidate[w], AbstractHold[w], AbstractApproved[w])
    BY Zenon, <1>13, <2>1
  <2> QED
    BY Zenon, <1>1, <2>2, SeesSame DEF LVars
<1> QED
  BY Zenon, <1>13, <1>15 DEF SStep

(* The task of a successful result *)
LEMMA SucceededWork ==
  ASSUME NEW old \in Task, NEW n \in 1 .. Len(old.attempts),
         NEW c \in Revisions \cup {None}, NEW size \in OutputSizes
  PROVE  SucceedsWith(old, n, c, DeactivateGrant(ClearLease(SucceededTask(old, n, c, size))))
<1> DEFINE a == [old.attempts[n] EXCEPT !.status = "SUCCEEDED", !.artifact = c, !.output = size]
           m == [old EXCEPT !.status = "SUCCEEDED"]
           attempts == [old.attempts EXCEPT ![n] = a]
           done == SucceededTask(old, n, c, size)
           task == DeactivateGrant(ClearLease(done))
<1>1. old.attempts[n] \in Attempt /\ old.attempts \in Seq(Attempt)
  BY DEF Task
<1>2. a \in Attempt
  BY Zenon, <1>1, SucceedAttempt
<1>3. /\ a.status = "SUCCEEDED" /\ a.artifact = c /\ a.provider = old.attempts[n].provider
      /\ a.examined = old.attempts[n].examined
  BY Zenon, <1>1 DEF Attempt
<1>4. done = [m EXCEPT !.attempts = attempts]
  BY Zenon DEF Task, SucceededTask
<1> HIDE DEF a
<1>5. m \in Task /\ m.status = "SUCCEEDED" /\ m.kind = old.kind
  BY Zenon, StatusTask DEF TaskStatus
<1>6. /\ attempts \in Seq(Attempt) /\ Len(attempts) = Len(old.attempts)
      /\ \A k \in 1 .. Len(old.attempts) : attempts[k] = IF k = n THEN a ELSE old.attempts[k]
  BY <1>1, <1>2, PutInSeq
<1> HIDE DEF m, done, attempts
<1>7. done \in Task /\ done.status = "SUCCEEDED" /\ done.attempts = attempts /\ done.kind = old.kind
  BY Zenon, <1>4, <1>5, <1>6, AttemptsTask
<1>8. task \in Task /\ task.status = "SUCCEEDED" /\ task.attempts = attempts /\ task.kind = old.kind
  BY ZenonT(30), <1>7, ClearLeaseTask, DeactivateGrantTask
<1>9. attempts[n] = a /\ \A k \in 1 .. Len(old.attempts) : k # n => attempts[k] = old.attempts[k]
  BY Zenon, <1>6
<1> HIDE DEF task
<1>10. /\ Len(task.attempts) = Len(old.attempts)
       /\ \A k \in 1 .. Len(old.attempts) : k # n => task.attempts[k] = old.attempts[k]
       /\ task.attempts[n] = a
  BY Zenon, <1>6, <1>8, <1>9
<1> QED
  BY Zenon, <1>3, <1>8, <1>10 DEF task, done, SucceedsWith

(* _advance_after_task is one transition, or two after an architecture review *)
LEMMA AdvancedMove ==
  ASSUME NEW row \in WorkflowRow, NEW kind \in TaskKind
  PROVE  Moved(row, AdvanceRow(row, kind), NextState[kind], IF kind = "ARCHITECTURE_REVIEW" THEN 2 ELSE 1)
<1> DEFINE mid == Transition(row, "APPROVED_FOR_IMPLEMENTATION")
<1>1. NextState[kind] \in WorkflowState /\ "APPROVED_FOR_IMPLEMENTATION" \in WorkflowState /\ row.version \in Nat
  BY Zenon, AdvanceTable DEF WorkflowState, WorkflowRow
<1>2. Moved(row, mid, "APPROVED_FOR_IMPLEMENTATION", 1)
  BY Zenon, <1>1, MovedRow
<1>3. CASE kind = "ARCHITECTURE_REVIEW"
  <2> DEFINE new == Transition(mid, NextState[kind])
  <2>1. mid \in WorkflowRow
    BY Zenon, <1>2 DEF Moved
  <2>2. Moved(mid, new, NextState[kind], 1)
    BY Zenon, <1>1, <2>1, MovedRow
  <2>3. AdvanceRow(row, kind) = new
    BY Zenon, <1>3 DEF AdvanceRow
  <2> HIDE DEF new, mid
  <2>4. Moved(row, new, NextState[kind], 2)
    BY <1>1, <1>2, <2>2 DEF Moved
  <2> QED
    BY Zenon, <1>3, <2>3, <2>4
<1>4. CASE kind # "ARCHITECTURE_REVIEW"
  <2>1. AdvanceRow(row, kind) = Transition(row, NextState[kind])
    BY Zenon, <1>4 DEF AdvanceRow
  <2>2. Moved(row, Transition(row, NextState[kind]), NextState[kind], 1)
    BY Zenon, <1>1, MovedRow
  <2> QED
    BY Zenon, <1>4, <2>1, <2>2
<1> QED
  BY Zenon, <1>3, <1>4

(* The lifecycle's stages are those of the tasks *)
LEMMA SuccessorTable ==
  ASSUME NEW kind \in TaskKind
  PROVE  /\ Lifecycle!Successor[TASK_WORKFLOW_STATE[kind]] = NextState[kind]
         /\ Lifecycle!Steps(TASK_WORKFLOW_STATE[kind]) = IF kind = "ARCHITECTURE_REVIEW" THEN 2 ELSE 1
         /\ TASK_WORKFLOW_STATE[kind] = "IMPLEMENTING" <=> kind = "IMPLEMENT"
         /\ NextState[kind] # "BLOCKED"
<1>1. TASK_WORKFLOW_STATE[kind] \in WorkState /\ Lifecycle!WorkState = WorkState
  BY Zenon, StageTransitions, SameTables
<1>2. NextState[kind] # "BLOCKED"
  BY Zenon DEF NextState, TaskKind
<1>3. /\ Lifecycle!Steps(TASK_WORKFLOW_STATE[kind]) = IF kind = "ARCHITECTURE_REVIEW" THEN 2 ELSE 1
      /\ TASK_WORKFLOW_STATE[kind] = "IMPLEMENTING" <=> kind = "IMPLEMENT"
  BY Zenon DEF Lifecycle!Steps, TASK_WORKFLOW_STATE, TaskKind
<1>4. Lifecycle!Successor[TASK_WORKFLOW_STATE[kind]] = NextState[kind]
  BY Zenon, <1>1 DEF Lifecycle!Successor, NextState, TASK_WORKFLOW_STATE, TaskKind
<1> QED
  BY Zenon, <1>2, <1>3, <1>4

(* The row and the tasks after a success *)
LEMMA AdvancedFit ==
  ASSUME NEW new, DecisionFits(new), NEW put \in Seq(Task), put # <<>>, put[Len(put)].status = "SUCCEEDED",
         Stages(CandidateOf(new), put), NEW kind \in TaskKind, kind = put[Len(put)].kind,
         CandidateOf(new) # None => kind = "IMPLEMENT" \/ kind \in NeedsCandidate
  PROVE  StagesFit(new, put \o FollowingTasks(kind))
<1>1. CASE kind = "CODE_REVIEW"
  <2>1. put \o FollowingTasks(kind) = put
    BY Zenon, <1>1, AdvanceTable, ConcatNone
  <2>2. kind \in NeedsCandidate
    BY Zenon, <1>1 DEF NeedsCandidate
  <2>3. StagesFit(new, put)
    BY Zenon, <1>1, <2>2 DEF StagesFit
  <2> QED
    BY Zenon, <2>1, <2>3
<1>2. CASE kind # "CODE_REVIEW"
  <2>1. PICK next \in TaskKind : FollowingTasks(kind) = <<NewTask(next)>> /\ Rank[next] = Rank[kind] + 1
    BY Zenon, <1>2, NextRank
  <2>2. NewTask(next) \in Task
    BY Zenon, NewTaskFits
  <2>3. put \o FollowingTasks(kind) = Append(put, NewTask(next))
    BY Zenon, <2>1, <2>2, ConcatOne
  <2>4. Stages(CandidateOf(new), Append(put, NewTask(next)))
    BY Zenon, <2>1, NextStages
  <2>5. CandidateOf(new) # None => next \in NeedsCandidate
    <3>1. Rank[kind] \in Nat /\ Rank[next] \in Nat /\ Rank["IMPLEMENT"] \in Nat
      BY Zenon, Ranks DEF TaskKind
    <3>2. kind \in NeedsCandidate => Rank[kind] > Rank["IMPLEMENT"]
      BY Zenon, RankOrder
    <3>3. Rank[next] > Rank["IMPLEMENT"] => next \in NeedsCandidate
      BY Zenon, RankOrder
    <3>4. kind = "IMPLEMENT" \/ kind \in NeedsCandidate => Rank[next] > Rank["IMPLEMENT"]
      BY <2>1, <3>1, <3>2
    <3> QED
      BY Zenon, <3>3, <3>4
  <2>6. StagesFit(new, Append(put, NewTask(next)))
    BY Zenon, <2>4, <2>5, AppendedFit
  <2> QED
    BY Zenon, <2>3, <2>6
<1> QED
  BY Zenon, <1>1, <1>2

(* _finalize_execution_success with _advance_after_task: the next stage, and *)
(* after an implementation its candidate revision                            *)
LEMMA SuccessStages ==
  ASSUME IInv, HInv, SInv, NEW p \in Workers, NEW revision \in Revisions, NEW size \in OutputSizes,
         FinalizeExecutionSuccess(p, revision, size)
  PROVE  SStep
<1> DEFINE w == worker[p].wf
           i == worker[p].pos
           n == worker[p].attempt
           kind == tasks[w][i].kind
           row == IF kind = "IMPLEMENT"
                  THEN [workflow[w] EXCEPT !.candidate_revision = revision]
                  ELSE workflow[w]
           d == row.candidate_revision
           c == CandidateOf(workflow[w])
           task == DeactivateGrant(ClearLease(SucceededTask(tasks[w][i], n, d, size)))
           new == AdvanceRow(row, kind)
           put == [tasks[w] EXCEPT ![i] = task]
           us == put \o FollowingTasks(kind)
           steps == IF kind = "ARCHITECTURE_REVIEW" THEN 2 ELSE 1
<1>1. /\ w \in Workflows /\ i \in Positions(w)
      /\ tasks[w][i] \in Task /\ tasks[w][i].status = "RUNNING"
      /\ n = Len(tasks[w][i].attempts) /\ n \in 1 .. Len(tasks[w][i].attempts)
      /\ workflow[w] \in WorkflowRow
  BY Zenon, HeldRun DEF FinalizeExecutionSuccess
<1>2. workflow' = [workflow EXCEPT ![w] = new] /\ tasks' = [tasks EXCEPT ![w] = us]
  BY Zenon DEF FinalizeExecutionSuccess, HeldTask, SucceededTask, PutTask
<1>3. /\ tasks[w] \in Seq(Task) /\ i \in 1 .. Len(tasks[w]) /\ i = Len(tasks[w]) /\ kind \in TaskKind
      /\ \A j \in 1 .. Len(tasks[w]) : History(tasks[w][j])
      /\ StateFits(workflow[w].state, tasks[w][i]) /\ workflow[w] # None
  BY Zenon, <1>1, TaskFacts, HistoryFacts DEF LiveStatus, Task
<1>4. /\ row \in WorkflowRow /\ d \in Revisions \cup {None} /\ row.version = workflow[w].version
      /\ row.merge_approval = workflow[w].merge_approval /\ row.state = workflow[w].state
      /\ kind = "IMPLEMENT" => d = revision
      /\ kind # "IMPLEMENT" => d = c
  BY Zenon, <1>1, <1>3 DEF WorkflowRow, CandidateOf
<1> HIDE DEF row
<1>5. Moved(row, new, NextState[kind], steps)
  BY Zenon, <1>3, <1>4, AdvancedMove
<1> HIDE DEF d, steps
<1>6. SucceedsWith(tasks[w][i], n, d, task)
  BY Zenon, <1>1, <1>4, SucceededWork
<1> HIDE DEF task, new
<1>7. StagesFit(workflow[w], tasks[w])
  BY Zenon, <1>1 DEF SInv
<1>8. Stages(c, tasks[w]) /\ DecisionFits(workflow[w])
  BY Zenon, <1>7 DEF StagesFit
<1>9. Stages(d, put)
  BY Zenon, <1>1, <1>3, <1>4, <1>6, <1>8, DoneStages
<1>10. put \in Seq(Task) /\ Len(put) = i /\ put[i] = task /\ put # <<>>
  <2>1. task \in Task
    BY Zenon, <1>6 DEF SucceedsWith
  <2> QED
    BY <1>3, <2>1, PutInSeq
<1> HIDE DEF put
<1>11. workflow[w].state = TASK_WORKFLOW_STATE[kind] /\ workflow[w].state \in WorkState
  BY Zenon, <1>1, <1>3, StageTransitions DEF StateFits, LiveStatus
<1>12. /\ StateOf(workflow[w]) = workflow[w].state /\ VersionOf(row) = VersionOf(workflow[w])
       /\ ApprovedOf(row) = ApprovedOf(workflow[w])
  <2>1. row # None
    BY Zenon, <1>4, RowAssumption
  <2> QED
    BY Zenon, <1>3, <1>4, <2>1 DEF StateOf, VersionOf, ApprovedOf
<1>13. /\ StateOf(new) = NextState[kind] /\ VersionOf(new) = VersionOf(workflow[w]) + steps
       /\ CandidateOf(new) = d /\ ApprovedOf(new) = ApprovedOf(workflow[w]) /\ new.state = NextState[kind]
  <2>1. new.state = NextState[kind] /\ row \in WorkflowRow
    BY Zenon, <1>4, <1>5 DEF Moved
  <2>2. /\ StateOf(new) = NextState[kind] /\ VersionOf(new) = VersionOf(row) + steps
        /\ CandidateOf(row) = row.candidate_revision
        /\ CandidateOf(new) = CandidateOf(row) /\ ApprovedOf(new) = ApprovedOf(row)
    BY Zenon, <1>5, <2>1, MovedView
  <2> QED
    BY Zenon, <1>12, <2>1, <2>2 DEF d
<1>14. DecisionFits(new)
  <2>1. workflow[w].merge_approval = None
    BY Zenon, <1>3, <1>8, <1>11, StageUndecided DEF DecisionFits
  <2>2. new.merge_approval = None
    BY Zenon, <1>4, <1>5, <2>1 DEF Moved
  <2> QED
    BY Zenon, <2>2 DEF DecisionFits
<1>15. c # None => kind \in NeedsCandidate
  BY Zenon, <1>3, <1>7 DEF StagesFit
<1>16. StagesFit(new, us)
  <2>1. kind = put[Len(put)].kind /\ put[Len(put)].status = "SUCCEEDED"
    BY Zenon, <1>6, <1>10 DEF SucceedsWith
  <2>2. CandidateOf(new) # None => kind = "IMPLEMENT" \/ kind \in NeedsCandidate
    BY Zenon, <1>4, <1>13, <1>15
  <2>3. Stages(CandidateOf(new), put)
    BY Zenon, <1>9, <1>13
  <2> QED
    BY Zenon, <1>3, <1>10, <1>14, <2>1, <2>2, <2>3, AdvancedFit
<1> HIDE DEF us
<1>17. SInv' /\ Sees(w, StateOf(new), VersionOf(new), CandidateOf(new), HoldOf(new, us), ApprovedOf(new))
  BY Zenon, <1>1, <1>2, <1>16, OneStep
<1>18. HoldOf(new, us) = None /\ HoldOf(workflow[w], tasks[w]) = None
  <2>1. new.state # "BLOCKED" /\ workflow[w].state # "BLOCKED"
    BY Zenon, <1>3, <1>11, <1>13, SuccessorTable, StageTransitions
  <2> QED
    BY Zenon, <2>1, NoHold
<1>19. /\ AbstractState[w] = TASK_WORKFLOW_STATE[kind] /\ AbstractVersion[w] = VersionOf(workflow[w])
       /\ AbstractCandidate[w] = c /\ AbstractHold[w] = None /\ AbstractApproved[w] = ApprovedOf(workflow[w])
  BY Zenon, <1>1, <1>11, <1>12, <1>18, ViewAt
<1>20. Sees(w, Lifecycle!Successor[AbstractState[w]], AbstractVersion[w] + Lifecycle!Steps(AbstractState[w]),
            d, AbstractHold[w], AbstractApproved[w])
  <2>1. /\ Lifecycle!Successor[TASK_WORKFLOW_STATE[kind]] = StateOf(new)
        /\ Lifecycle!Steps(TASK_WORKFLOW_STATE[kind]) = steps
    BY Zenon, <1>3, <1>13, SuccessorTable DEF steps
  <2>2. Sees(w, StateOf(new), VersionOf(workflow[w]) + steps, d, None, ApprovedOf(workflow[w]))
    BY Zenon, <1>13, <1>17, <1>18
  <2> QED
    BY Zenon, <1>19, <2>1, <2>2
<1>21. IF AbstractState[w] = "IMPLEMENTING" THEN AbstractCandidate[w] = None /\ d \in Revisions ELSE d = AbstractCandidate[w]
  <2>1. AbstractState[w] = "IMPLEMENTING" <=> kind = "IMPLEMENT"
    BY Zenon, <1>3, <1>19, SuccessorTable
  <2>2. kind = "IMPLEMENT" => c = None
    BY Zenon, <1>15 DEF NeedsCandidate
  <2> QED
    BY Zenon, <1>4, <1>19, <2>1, <2>2
<1>22. AbstractState[w] \in WorkState
  BY Zenon, <1>11, <1>19
<1>23. Lifecycle!Next
  BY Zenon, <1>1, <1>20, <1>21, <1>22, SeesAdvance
<1> QED
  BY Zenon, <1>17, <1>23 DEF SStep

(* What the sweep makes of an expired task keeps the work done *)
LEMMA ReclaimedWork ==
  ASSUME NEW task \in Task, History(task), Expired(task)
  PROVE  KeepsWork(task, ReclaimTask(task))
<1>1. /\ ReclaimTask(task) \in Task /\ ReclaimTask(task).kind = task.kind
      /\ task.status = "LEASED" => ReclaimTask(task).status = "READY"
      /\ task.status = "RUNNING" => ReclaimTask(task).status = "BLOCKED"
  BY Zenon, ReclaimedTask
<1>2. CASE task.status = "LEASED"
  <2> DEFINE ready == [task EXCEPT !.status = "READY"]
  <2>1. ReclaimTask(task) = ClearLease(ready)
    BY Zenon, <1>2 DEF ReclaimTask
  <2>2. ready \in Task /\ ready.attempts = task.attempts
    BY Zenon, StatusTask DEF TaskStatus
  <2> HIDE DEF ready
  <2>3. ReclaimTask(task).attempts = task.attempts
    BY Zenon, <2>1, <2>2, ClearLeaseTask
  <2>4. ReclaimTask(task).status # "SUCCEEDED" /\ task.status # "SUCCEEDED"
    BY Zenon, <1>1, <1>2
  <2> HIDE DEF ready
  <2> QED
    BY Zenon, <1>1, <2>3, <2>4, SameAttempts
<1>3. CASE task.status = "RUNNING"
  <2> DEFINE l == Len(task.attempts)
             running == {n \in DOMAIN task.attempts : task.attempts[n].status = "RUNNING"}
             newest == CHOOSE n \in running : \A m \in running : m <= n
             timed_out == IF running = {} THEN task ELSE EndedTask(task, newest, "TIMED_OUT", "LeaseExpired")
             blocked == [timed_out EXCEPT !.status = "BLOCKED"]
             new == DeactivateGrant(ClearLease(blocked))
  <2>1. ReclaimTask(task) = new
    BY Zenon, <1>3 DEF ReclaimTask, EndedTask
  <2>2. l \in 1 .. l /\ DOMAIN task.attempts = 1 .. l /\ l \in Nat
    BY <1>3, RunningLast DEF Task
  <2>3. \A n : n \in running <=> n = l
    BY Zenon, <1>3, <2>2, RunningLast
  <2> HIDE DEF running
  <2>4. newest = l
    BY <2>2, <2>3
  <2>5. timed_out = EndedTask(task, l, "TIMED_OUT", "LeaseExpired")
    BY Zenon, <2>3, <2>4
  <2> HIDE DEF newest, timed_out
  <2>6. "LeaseExpired" \in RunErrors \cup {"LeaseExpired"} /\ "TIMED_OUT" \in {"FAILED", "TIMED_OUT"}
    BY Zenon
  <2>7. timed_out \in Task
    BY Zenon, <1>3, <2>5, <2>6, TimedOutTask
  <2>8. blocked \in Task /\ blocked.attempts = timed_out.attempts
    BY Zenon, <2>7, StatusTask DEF TaskStatus
  <2> HIDE DEF blocked
  <2>9. new.attempts = timed_out.attempts
    BY Zenon, <2>8, ClearLeaseTask, DeactivateGrantTask
  <2> HIDE DEF new
  <2>10. ReclaimTask(task).attempts = EndedTask(task, l, "TIMED_OUT", "LeaseExpired").attempts
    BY Zenon, <2>1, <2>5, <2>9
  <2>11. task.attempts[l].status = "RUNNING"
    BY Zenon, <1>3, <2>2, RunningLast
  <2>12. ReclaimTask(task).status # "SUCCEEDED" /\ task.status # "SUCCEEDED"
    BY Zenon, <1>1, <1>3
  <2> HIDE DEF l
  <2>13. l \in 1 .. Len(task.attempts)
    BY Zenon, <2>2 DEF l
  <2> QED
    BY Zenon, <1>1, <2>6, <2>10, <2>11, <2>12, <2>13, EndedKeeps
<1> QED
  BY Zenon, <1>2, <1>3 DEF Expired

(* A workflow whose running task is swept waits for a human in the stage it was in *)
LEMMA BlockedRow ==
  ASSUME NEW row \in WorkflowRow, NEW ts \in Seq(Task), StagesFit(row, ts), ts # <<>>,
         StateFits(row.state, ts[Len(ts)]), ts[Len(ts)].status = "RUNNING",
         NEW us \in Seq(Task), Len(us) = Len(ts), \A i \in 1 .. Len(ts) : KeepsWork(ts[i], us[i])
  PROVE  LET new == BlockForReconciliation(row)
         IN /\ StagesFit(new, us)
            /\ StateOf(row) \in WorkState /\ TransitionAllowed(StateOf(row), "BLOCKED")
            /\ StateOf(new) = "BLOCKED" /\ VersionOf(new) = VersionOf(row) + 1
            /\ CandidateOf(new) = CandidateOf(row) /\ ApprovedOf(new) = ApprovedOf(row)
            /\ HoldOf(new, us) = StateOf(row)
<1> DEFINE new == BlockForReconciliation(row)
<1>1. "BLOCKED" \in WorkflowState /\ "EXECUTION_RECONCILIATION_REQUIRED" \in BlockReason
  BY Zenon DEF WorkflowState, BlockReason
<1>2. Moved(row, new, "BLOCKED", 1) /\ new.block_reason = "EXECUTION_RECONCILIATION_REQUIRED"
  BY Zenon, <1>1, MovedWithReason DEF BlockForReconciliation
<1> HIDE DEF new
<1>3. new.state = "BLOCKED"
  BY Zenon, <1>2 DEF Moved
<1>4. /\ new # None /\ StateOf(row) = row.state /\ StateOf(new) = "BLOCKED" /\ VersionOf(new) = VersionOf(row) + 1
      /\ CandidateOf(new) = CandidateOf(row) /\ ApprovedOf(new) = ApprovedOf(row)
  BY Zenon, <1>2, MovedView
<1>5. Len(ts) \in 1 .. Len(ts)
  OBVIOUS
<1>6. ts[Len(ts)] \in Task
  BY <1>5
<1>7. ts[Len(ts)].kind \in TaskKind
  BY Zenon, <1>6 DEF Task
<1>8. row.state = TASK_WORKFLOW_STATE[ts[Len(ts)].kind]
  BY Zenon DEF StateFits, LiveStatus
<1>9. row.state \in WorkState /\ TransitionAllowed(row.state, "BLOCKED")
  BY Zenon, <1>7, <1>8, StageTransitions
<1>10. us[Len(us)].kind = ts[Len(ts)].kind
  BY Zenon, <1>5 DEF KeepsWork
<1>11. HoldOf(new, us) = TASK_WORKFLOW_STATE[us[Len(us)].kind]
  BY Zenon, <1>2, <1>3, <1>4 DEF HoldOf
<1>12. DecisionFits(row)
  BY Zenon DEF StagesFit
<1>13. row.state \notin {"APPROVED", "REJECTED", "CANCELLED"}
  BY Zenon, <1>9, StageUndecided
<1>14. DecisionFits(new)
  BY Zenon, <1>2, <1>12, <1>13, MovedDecision
<1>15. StagesFit(new, us)
  BY Zenon, <1>4, <1>14, KeptFit
<1> QED
  BY Zenon, <1>4, <1>8, <1>9, <1>10, <1>11, <1>15 DEF new

(* The tasks after a sweep *)
LEMMA SweptTasks ==
  ASSUME IInv, HInv, IInv', NEW p \in Workers, NEW swept \in SUBSET ExpiredTasks, ReclaimExpiredTasks(p, swept),
         NEW w \in Workflows
  PROVE  /\ tasks[w] \in Seq(Task) /\ tasks'[w] \in Seq(Task) /\ Len(tasks'[w]) = Len(tasks[w])
         /\ \A i \in 1 .. Len(tasks[w]) : KeepsWork(tasks[w][i], tasks'[w][i])
<1>1. tasks'[w] = [i \in Positions(w) |-> IF <<w, i>> \in swept THEN ReclaimTask(tasks[w][i]) ELSE tasks[w][i]]
  BY Zenon DEF ReclaimExpiredTasks
<1>2. \A i \in Positions(w) : <<w, i>> \in swept => Expired(tasks[w][i])
  BY DEF ExpiredTasks
<1>3. /\ tasks[w] \in Seq(Task) /\ Positions(w) = 1 .. Len(tasks[w]) /\ Len(tasks[w]) \in Nat
      /\ \A i \in Positions(w) : tasks[w][i] \in Task /\ History(tasks[w][i])
  BY Zenon, HistoryFacts
<1>4. tasks'[w] \in Seq(Task)
  BY Zenon DEF IInv, TypeOK
<1>5. DOMAIN tasks'[w] = Positions(w)
  BY Zenon, <1>1
<1>6. Len(tasks'[w]) = Len(tasks[w])
  BY Zenon, <1>3, <1>4, <1>5, DomainLen
<1>7. ASSUME NEW i \in Positions(w) PROVE KeepsWork(tasks[w][i], tasks'[w][i])
  <2>1. tasks'[w][i] = IF <<w, i>> \in swept THEN ReclaimTask(tasks[w][i]) ELSE tasks[w][i]
    BY Zenon, <1>1
  <2>2. CASE <<w, i>> \in swept
    <3>1. KeepsWork(tasks[w][i], ReclaimTask(tasks[w][i]))
      BY Zenon, <1>2, <1>3, <2>2, ReclaimedWork
    <3> QED
      BY Zenon, <2>1, <2>2, <3>1
  <2>3. CASE <<w, i>> \notin swept
    BY Zenon, <2>1, <2>3, SameAttempts
  <2> QED
    BY Zenon, <2>2, <2>3
<1> QED
  BY Zenon, <1>3, <1>4, <1>6, <1>7

(* What a sweep does to one workflow: it blocks it over its running task or   *)
(* leaves everything the lifecycle sees as it was                             *)
SweptOver(w) ==
  /\ StateOf(workflow[w]) \in WorkState /\ TransitionAllowed(StateOf(workflow[w]), "BLOCKED")
  /\ StateOf(workflow'[w]) = "BLOCKED" /\ VersionOf(workflow'[w]) = VersionOf(workflow[w]) + 1
  /\ CandidateOf(workflow'[w]) = CandidateOf(workflow[w]) /\ ApprovedOf(workflow'[w]) = ApprovedOf(workflow[w])
  /\ HoldOf(workflow'[w], tasks'[w]) = StateOf(workflow[w])

SweptPast(w) ==
  workflow'[w] = workflow[w] /\ HoldOf(workflow'[w], tasks'[w]) = HoldOf(workflow[w], tasks[w])

LEMMA SweptWorkflow ==
  ASSUME IInv, HInv, SInv, IInv', NEW p \in Workers, NEW swept \in SUBSET ExpiredTasks,
         ReclaimExpiredTasks(p, swept), NEW w \in Workflows
  PROVE  StagesFit(workflow'[w], tasks'[w]) /\ (SweptOver(w) \/ SweptPast(w))
<1> DEFINE running == {i \in Positions(w) : <<w, i>> \in swept /\ tasks[w][i].status = "RUNNING"}
<1>1. workflow'[w] = IF running # {} THEN BlockForReconciliation(workflow[w]) ELSE workflow[w]
  BY Zenon DEF ReclaimExpiredTasks
<1>2. PICK us : us = tasks'[w]
  BY Zenon
<1>3. /\ tasks[w] \in Seq(Task) /\ us \in Seq(Task) /\ Len(us) = Len(tasks[w])
      /\ \A i \in 1 .. Len(tasks[w]) : KeepsWork(tasks[w][i], us[i])
  BY Zenon, <1>2, SweptTasks
<1>4. StagesFit(workflow[w], tasks[w])
  BY Zenon DEF SInv
<1>5. CASE running = {}
  <2>1. DecisionFits(workflow[w])
    BY Zenon, <1>4 DEF StagesFit
  <2>2. StagesFit(workflow[w], us)
    BY Zenon, <1>3, <1>4, <2>1, KeptFit
  <2>3. \A i \in 1 .. Len(tasks[w]) : us[i].kind = tasks[w][i].kind
    BY Zenon, <1>3 DEF KeepsWork
  <2>4. HoldOf(workflow[w], us) = HoldOf(workflow[w], tasks[w])
    BY Zenon, <1>3, <2>3, SameHold
  <2>5. workflow'[w] = workflow[w]
    BY Zenon, <1>1, <1>5
  <2> QED
    BY Zenon, <1>2, <2>2, <2>4, <2>5 DEF SweptPast
<1>6. CASE running # {}
  <2>1. PICK i \in Positions(w) : tasks[w][i].status = "RUNNING"
    BY Zenon, <1>6
  <2>2. /\ i = Len(tasks[w]) /\ workflow[w] \in WorkflowRow /\ StateFits(workflow[w].state, tasks[w][i])
        /\ i \in 1 .. Len(tasks[w])
    BY Zenon, <2>1, TaskFacts DEF LiveStatus
  <2>3. tasks[w] # <<>>
    BY <1>3, <2>2
  <2>4. StateFits(workflow[w].state, tasks[w][Len(tasks[w])]) /\ tasks[w][Len(tasks[w])].status = "RUNNING"
    BY Zenon, <2>1, <2>2
  <2>5. PICK new : new = BlockForReconciliation(workflow[w])
    BY Zenon
  <2>6. /\ StagesFit(new, us)
        /\ StateOf(workflow[w]) \in WorkState /\ TransitionAllowed(StateOf(workflow[w]), "BLOCKED")
        /\ StateOf(new) = "BLOCKED" /\ VersionOf(new) = VersionOf(workflow[w]) + 1
        /\ CandidateOf(new) = CandidateOf(workflow[w]) /\ ApprovedOf(new) = ApprovedOf(workflow[w])
        /\ HoldOf(new, us) = StateOf(workflow[w])
    BY Zenon, <1>3, <1>4, <2>2, <2>3, <2>4, <2>5, BlockedRow
  <2>7. workflow'[w] = new
    BY Zenon, <1>1, <1>6, <2>5
  <2> QED
    BY Zenon, <1>2, <2>6, <2>7 DEF SweptOver
<1> QED
  BY Zenon, <1>5, <1>6

(* reclaim_expired_tasks: the workflows whose running task is swept wait for *)
(* a human, all of them in the same step                                     *)
LEMMA ReclaimStages ==
  ASSUME IInv, HInv, SInv, IInv', NEW p \in Workers, NEW swept \in SUBSET ExpiredTasks, ReclaimExpiredTasks(p, swept)
  PROVE  SStep
<1>1. \A w \in Workflows : StagesFit(workflow'[w], tasks'[w]) /\ (SweptOver(w) \/ SweptPast(w))
  BY Zenon, SweptWorkflow
<1>2. SInv'
  BY Zenon, <1>1 DEF SInv
<1>3. PICK ws \in SUBSET Workflows : \A w \in Workflows : w \in ws <=> SweptOver(w)
  <2>1. {w \in Workflows : SweptOver(w)} \in SUBSET Workflows
    BY Zenon
  <2> QED
    BY Zenon, <2>1
<1>4. \A w \in Workflows : w \notin ws => SweptPast(w)
  BY Zenon, <1>1, <1>3
<1>5. \A w \in Workflows :
        /\ StateOf(workflow'[w]) = IF w \in ws THEN "BLOCKED" ELSE AbstractState[w]
        /\ VersionOf(workflow'[w]) = IF w \in ws THEN AbstractVersion[w] + 1 ELSE AbstractVersion[w]
        /\ HoldOf(workflow'[w], tasks'[w]) = IF w \notin ws THEN AbstractHold[w] ELSE AbstractState[w]
        /\ CandidateOf(workflow'[w]) = AbstractCandidate[w] /\ ApprovedOf(workflow'[w]) = AbstractApproved[w]
  <2> SUFFICES ASSUME NEW w \in Workflows
               PROVE  /\ StateOf(workflow'[w]) = IF w \in ws THEN "BLOCKED" ELSE AbstractState[w]
                      /\ VersionOf(workflow'[w]) = IF w \in ws THEN AbstractVersion[w] + 1 ELSE AbstractVersion[w]
                      /\ HoldOf(workflow'[w], tasks'[w]) = IF w \notin ws THEN AbstractHold[w] ELSE AbstractState[w]
                      /\ CandidateOf(workflow'[w]) = AbstractCandidate[w]
                      /\ ApprovedOf(workflow'[w]) = AbstractApproved[w]
    BY Zenon
  <2>1. /\ AbstractState[w] = StateOf(workflow[w]) /\ AbstractVersion[w] = VersionOf(workflow[w])
        /\ AbstractCandidate[w] = CandidateOf(workflow[w]) /\ AbstractHold[w] = HoldOf(workflow[w], tasks[w])
        /\ AbstractApproved[w] = ApprovedOf(workflow[w])
    BY Zenon, ViewAt
  <2>2. CASE w \in ws
    BY Zenon, <1>3, <2>1, <2>2 DEF SweptOver
  <2>3. CASE w \notin ws
    BY Zenon, <1>4, <2>1, <2>3 DEF SweptPast
  <2> QED
    BY Zenon, <2>2, <2>3
<1>6. /\ AbstractState' = [w \in Workflows |-> IF w \in ws THEN "BLOCKED" ELSE AbstractState[w]]
      /\ AbstractVersion' = [w \in Workflows |-> IF w \in ws THEN AbstractVersion[w] + 1 ELSE AbstractVersion[w]]
      /\ AbstractHold' = [w \in Workflows |-> IF w \notin ws THEN AbstractHold[w] ELSE AbstractState[w]]
  BY Zenon, <1>5 DEF AbstractState, AbstractVersion, AbstractHold
<1>7. AbstractCandidate' = AbstractCandidate /\ AbstractApproved' = AbstractApproved
  BY Zenon, <1>5 DEF AbstractCandidate, AbstractApproved
<1>8. CASE ws = {}
  <2>1. /\ AbstractState' = AbstractState /\ AbstractVersion' = AbstractVersion /\ AbstractHold' = AbstractHold
    BY Zenon, <1>5, <1>8 DEF AbstractState, AbstractVersion, AbstractHold
  <2>2. UNCHANGED LVars
    BY Zenon, <1>7, <2>1 DEF LVars
  <2> QED
    BY Zenon, <1>2, <2>2 DEF SStep
<1>9. CASE ws # {}
  <2>1. \A w \in ws : AbstractState[w] \in WorkState /\ TransitionAllowed(AbstractState[w], "BLOCKED")
    <3>1. ASSUME NEW w \in ws PROVE w \in Workflows /\ SweptOver(w)
      BY Zenon, <1>3
    <3> QED
      BY Zenon, <3>1, ViewAt DEF SweptOver
  <2>2. AbstractHold' = [w \in Workflows |-> IF w \notin ws THEN AbstractHold[w]
                                             ELSE IF TRUE THEN AbstractState[w] ELSE None]
    BY Zenon, <1>6
  <2>3. Lifecycle!Block(ws)
    BY Zenon, <1>6, <1>7, <2>1, <2>2, SameTables DEF Lifecycle!Block
  <2>4. ws \in (SUBSET Workflows) \ {{}}
    BY Zenon, <1>9
  <2>5. Lifecycle!Next
    BY Zenon, <2>3, <2>4 DEF Lifecycle!Next
  <2> QED
    BY Zenon, <1>2, <2>5 DEF SStep
<1> QED
  BY Zenon, <1>8, <1>9

LEMMA NextSInv == IInv /\ HInv /\ SInv /\ [Next]_vars => SStep
<1> SUFFICES ASSUME IInv, HInv, SInv, [Next]_vars PROVE SStep
  BY Zenon
<1>1. IInv'
  BY Zenon, NextIInv
<1>2. ASSUME UNCHANGED <<workflow, tasks>> PROVE SStep
  BY Zenon, <1>2, ForgetStages
<1>3. ASSUME NEW p \in Workers, WorkerStep(p) PROVE SStep
  <2>1. ASSUME NEW swept \in SUBSET ExpiredTasks, ReclaimExpiredTasks(p, swept) PROVE SStep
    BY Zenon, <1>1, <2>1, ReclaimStages
  <2>2. ASSUME NEW w \in Workflows, NEW i \in Positions(w), LeaseNextTask(p, w, i) PROVE SStep
    BY Zenon, <1>1, <2>2, LeaseStages
  <2>3. ASSUME NEW provider \in Providers, PrepareExecution(p, provider) PROVE SStep
    BY Zenon, <1>1, <2>3, PrepareStages
  <2>4. CASE RoutingBlocked(p)
    BY Zenon, <2>4, RoutingBlockedStages
  <2>5. CASE PrepareRefused(p)
    <3>1. UNCHANGED <<workflow, tasks>>
      BY Zenon, <2>5 DEF PrepareRefused
    <3> QED
      BY Zenon, <1>2, <3>1
  <2>6. CASE HeartbeatTask(p)
    BY Zenon, <1>1, <2>6, HeartbeatStages
  <2>7. ASSUME NEW revision \in Revisions, NEW size \in OutputSizes, FinalizeExecutionSuccess(p, revision, size)
        PROVE  SStep
    BY Zenon, <2>7, SuccessStages
  <2>8. ASSUME NEW error \in RunErrors, FinalizeExecutionFailure(p, error) PROVE SStep
    BY Zenon, <1>1, <2>8, FailureStages
  <2>9. CASE FinalizeRefused(p)
    <3>1. UNCHANGED <<workflow, tasks>>
      BY Zenon, <2>9 DEF FinalizeRefused
    <3> QED
      BY Zenon, <1>2, <3>1
  <2> QED
    BY Zenon, <1>3, <2>1, <2>2, <2>3, <2>4, <2>5, <2>6, <2>7, <2>8, <2>9 DEF WorkerStep
<1>4. ASSUME NEW w \in Workflows, HumanStep(w) PROVE SStep
  <2>1. ASSUME NEW suspicious \in BOOLEAN, CreateWorkflow(w, suspicious) PROVE SStep
    BY Zenon, <2>1, CreateStages
  <2>2. ASSUME NEW decision \in {"RESUME", "REJECT"}, DispositionWorkflow(w, decision) PROVE SStep
    BY Zenon, <2>2, DispositionStages
  <2>3. ASSUME NEW i \in Positions(w), NEW decision \in {"RETRY", "FAIL"}, ReconcileExecution(w, i, decision)
        PROVE  SStep
    BY Zenon, <2>3, ReconcileStages
  <2>4. ASSUME NEW revision \in Revisions, NEW decision \in {"APPROVED", "REJECTED"},
               ApproveMerge(w, revision, decision)
        PROVE  SStep
    BY Zenon, <2>4, ApproveStages
  <2>5. CASE CancelWorkflow(w)
    BY Zenon, <1>1, <2>5, CancelStages
  <2> QED
    BY Zenon, <1>4, <2>1, <2>2, <2>3, <2>4, <2>5 DEF HumanStep
<1>5. CASE Environment
  <2>1. ASSUME NEW p \in Workers, Crash(p) PROVE SStep
    <3>1. UNCHANGED <<workflow, tasks>>
      BY Zenon, <2>1 DEF Crash
    <3> QED
      BY Zenon, <1>2, <3>1
  <2>2. ASSUME NEW w \in Workflows, NEW i \in Positions(w), LeaseTick(w, i) \/ GrantExpires(w, i) PROVE SStep
    BY Zenon, <1>1, <2>2, ClockStages
  <2> QED
    BY Zenon, <1>5, <2>1, <2>2 DEF Environment
<1>6. CASE UNCHANGED vars
  BY Zenon, <1>2, <1>6 DEF vars
<1> QED
  BY Zenon, <1>3, <1>4, <1>5, <1>6 DEF Next

(* The attempts at the tasks of a kind *)
LEMMA AttemptsAre ==
  ASSUME IInv, NEW w \in Workflows, NEW kind, NEW b
  PROVE  b \in AttemptsOf(w, kind) <=>
           \E x \in 1 .. Len(tasks[w]) : \E y \in 1 .. Len(tasks[w][x].attempts) :
             tasks[w][x].kind = kind /\ b = <<x, y>>
<1>1. Positions(w) = 1 .. Len(tasks[w]) /\ tasks[w] \in Seq(Task)
  BY Zenon DEF IInv, TypeOK, Positions
<1>2. ASSUME NEW i \in 1 .. Len(tasks[w])
      PROVE  DOMAIN tasks[w][i].attempts = 1 .. Len(tasks[w][i].attempts)
  <2>1. tasks[w][i] \in Task
    BY <1>1
  <2> QED
    BY <2>1 DEF Task
<1> QED
  BY <1>1, <1>2 DEF AttemptsOf
-----------------------------------------------------------------------------
(* What follows from the stages *)

(* The attempt that ended a stage that succeeded *)
LEMMA StageAttempt ==
  ASSUME IInv, HInv, SInv, NEW w \in Workflows, NEW i \in 1 .. Len(tasks[w]), tasks[w][i].status = "SUCCEEDED"
  PROVE  \E a \in AttemptsOf(w, tasks[w][i].kind) :
           /\ AttemptAt(w, a).status = "SUCCEEDED"
           /\ tasks[w][i].kind \in NeedsCandidate \cup {"IMPLEMENT"} =>
                AttemptAt(w, a).artifact = CandidateOf(workflow[w])
           /\ tasks[w][i].kind \in NeedsCandidate => AttemptAt(w, a).examined = CandidateOf(workflow[w])
<1>1. tasks[w][i] \in Task
  BY Zenon, HistoryFacts
<1>2. Evidence(tasks[w][i], CandidateOf(workflow[w]))
  BY Zenon DEF SInv, StagesFit, Stages
<1>3. PICK l : l = Len(tasks[w][i].attempts)
  BY Zenon
<1>4. l \in Nat /\ l > 0 /\ tasks[w][i].attempts[l].status = "SUCCEEDED"
  BY <1>1, <1>2, <1>3 DEF Evidence, Task
<1>5. l \in 1 .. Len(tasks[w][i].attempts)
  BY <1>3, <1>4
<1>6. AttemptEvidence(tasks[w][i].kind, tasks[w][i].attempts[l], CandidateOf(workflow[w]))
  BY Zenon, <1>2, <1>5 DEF Evidence
<1>7. <<i, l>> \in AttemptsOf(w, tasks[w][i].kind)
  BY Zenon, <1>5, AttemptsAre
<1>8. AttemptAt(w, <<i, l>>) = tasks[w][i].attempts[l]
  BY Zenon DEF AttemptAt
<1>9. "SUCCEEDED" \in {"RUNNING", "SUCCEEDED"}
  BY Zenon
<1> QED
  BY Zenon, <1>4, <1>6, <1>7, <1>8, <1>9 DEF AttemptEvidence

(* Where a workflow waits for approval or has it, every stage has succeeded *)
LEMMA AllStagesDone ==
  ASSUME IInv, SInv, NEW w \in Workflows, Created(w), workflow[w].state \in {"AWAITING_HUMAN_APPROVAL", "APPROVED"},
         NEW kind \in TaskKind
  PROVE  /\ CandidateOf(workflow[w]) = workflow[w].candidate_revision /\ workflow[w].candidate_revision # None
         /\ \E i \in 1 .. Len(tasks[w]) : tasks[w][i].kind = kind /\ tasks[w][i].status = "SUCCEEDED"
<1>1. /\ workflow[w] \in WorkflowRow /\ tasks[w] \in Seq(Task) /\ Len(tasks[w]) \in Nat
      /\ Consistent(workflow[w], tasks[w]) /\ workflow[w] # None
  BY Zenon, RowFacts DEF Created
<1>2. PICK last : last = tasks[w][Len(tasks[w])]
  BY Zenon
<1>3. workflow[w].state \notin {"BLOCKED", "REJECTED", "CANCELLED", "FAILED"} \cup WorkState
  BY Zenon, WorkStates
<1>4. tasks[w] # <<>>
  BY Zenon, <1>1, <1>3 DEF Consistent
<1>5. StateFits(workflow[w].state, last)
  BY Zenon, <1>1, <1>2, <1>4 DEF Consistent
<1>6. Len(tasks[w]) \in 1 .. Len(tasks[w])
  BY <1>1, <1>4
<1>7. last \in Task
  BY <1>1, <1>2, <1>6
<1>8. last.kind \in TaskKind /\ last.status \in TaskStatus
  BY Zenon, <1>7 DEF Task
<1>9. last.status \notin LiveStatus \cup {"FAILED", "RECONCILED", "BLOCKED", "CANCELLED"}
  <2>1. last.status \notin LiveStatus
    BY Zenon, <1>3, <1>5, <1>8, StageTransitions DEF StateFits
  <2>2. last.status \notin {"FAILED", "RECONCILED"}
    BY Zenon, <1>3, <1>5 DEF StateFits
  <2>3. last.status # "BLOCKED" /\ last.status # "CANCELLED"
    BY Zenon, <1>3, <1>5 DEF StateFits
  <2> QED
    BY Zenon, <2>1, <2>2, <2>3
<1>10. last.status = "SUCCEEDED"
  BY Zenon, <1>8, <1>9 DEF TaskStatus, LiveStatus
<1>11. StagesFit(workflow[w], tasks[w])
  BY Zenon DEF SInv
<1>12. last.kind = "CODE_REVIEW"
  BY Zenon, <1>2, <1>4, <1>10, <1>11 DEF StagesFit
<1>13. workflow[w].candidate_revision # None
  BY Zenon, <1>1, <1>2, <1>4, <1>12 DEF Consistent, NeedsCandidate
<1>14. CandidateOf(workflow[w]) = workflow[w].candidate_revision
  BY Zenon, <1>1 DEF CandidateOf
<1>15. CASE kind = "CODE_REVIEW"
  BY Zenon, <1>2, <1>6, <1>10, <1>12, <1>13, <1>14, <1>15
<1>16. CASE kind # "CODE_REVIEW"
  <2>1. Rank[kind] < Rank[last.kind]
    BY <1>12, <1>16, Ranks DEF TaskKind
  <2>2. StagesDone(tasks[w])
    BY Zenon, <1>11 DEF StagesFit, Stages
  <2>3. \E i \in 1 .. Len(tasks[w]) : tasks[w][i].kind = kind /\ tasks[w][i].status = "SUCCEEDED"
    BY Zenon, <1>2, <1>4, <2>1, <2>2 DEF StagesDone
  <2> QED
    BY Zenon, <1>13, <1>14, <2>3
<1> QED
  BY Zenon, <1>15, <1>16

LEMMA EvidenceFollows == IInv /\ HInv /\ SInv => EvidenceBindsCandidate
<1> SUFFICES ASSUME IInv, HInv, SInv, NEW w \in Workflows, Created(w),
                    workflow[w].state \in {"AWAITING_HUMAN_APPROVAL", "APPROVED"}
             PROVE  /\ \E a \in AttemptsOf(w, "IMPLEMENT") :
                         /\ AttemptAt(w, a).status = "SUCCEEDED"
                         /\ AttemptAt(w, a).artifact = workflow[w].candidate_revision
                    /\ \A kind \in NeedsCandidate : \E a \in AttemptsOf(w, kind) :
                         /\ AttemptAt(w, a).status = "SUCCEEDED"
                         /\ AttemptAt(w, a).artifact = workflow[w].candidate_revision
                         /\ AttemptAt(w, a).examined = workflow[w].candidate_revision
                         /\ workflow[w].candidate_revision # None
  BY Zenon DEF EvidenceBindsCandidate, NeedsCandidate
<1>1. ASSUME NEW kind \in NeedsCandidate \cup {"IMPLEMENT"}
      PROVE  /\ workflow[w].candidate_revision # None
             /\ \E a \in AttemptsOf(w, kind) :
                  /\ AttemptAt(w, a).status = "SUCCEEDED"
                  /\ AttemptAt(w, a).artifact = workflow[w].candidate_revision
                  /\ kind \in NeedsCandidate => AttemptAt(w, a).examined = workflow[w].candidate_revision
  <2>1. kind \in TaskKind
    BY Zenon DEF NeedsCandidate, TaskKind
  <2>2. CandidateOf(workflow[w]) = workflow[w].candidate_revision /\ workflow[w].candidate_revision # None
    BY Zenon, <2>1, AllStagesDone
  <2>3. PICK i \in 1 .. Len(tasks[w]) : tasks[w][i].kind = kind /\ tasks[w][i].status = "SUCCEEDED"
    BY Zenon, <2>1, AllStagesDone
  <2>4. PICK a \in AttemptsOf(w, tasks[w][i].kind) :
          /\ AttemptAt(w, a).status = "SUCCEEDED"
          /\ tasks[w][i].kind \in NeedsCandidate \cup {"IMPLEMENT"} =>
               AttemptAt(w, a).artifact = CandidateOf(workflow[w])
          /\ tasks[w][i].kind \in NeedsCandidate => AttemptAt(w, a).examined = CandidateOf(workflow[w])
    BY Zenon, <2>3, StageAttempt
  <2> QED
    BY Zenon, <1>1, <2>2, <2>3, <2>4
<1>2. "IMPLEMENT" \in NeedsCandidate \cup {"IMPLEMENT"}
  BY Zenon
<1> QED
  BY Zenon, <1>1, <1>2

LEMMA IndependenceFollows == IInv /\ SInv => ReviewIndependence
<1> SUFFICES ASSUME IInv, SInv, NEW w \in Workflows, NEW kind \in ReviewKind,
                    NEW a \in AttemptsOf(w, kind), NEW b \in AttemptsOf(w, REVIEW_PRODUCER_KIND[kind]),
                    AttemptAt(w, b).status = "SUCCEEDED"
             PROVE  AttemptAt(w, a).provider # AttemptAt(w, b).provider
  BY Zenon DEF ReviewIndependence
<1>1. PICK x \in 1 .. Len(tasks[w]) : \E n \in 1 .. Len(tasks[w][x].attempts) :
             tasks[w][x].kind = kind /\ a = <<x, n>>
  BY AttemptsAre
<1>2. PICK n \in 1 .. Len(tasks[w][x].attempts) : tasks[w][x].kind = kind /\ a = <<x, n>>
  BY Zenon, <1>1
<1>3. PICK y \in 1 .. Len(tasks[w]) : \E m \in 1 .. Len(tasks[w][y].attempts) :
             tasks[w][y].kind = REVIEW_PRODUCER_KIND[kind] /\ b = <<y, m>>
  BY AttemptsAre
<1>4. PICK m \in 1 .. Len(tasks[w][y].attempts) : tasks[w][y].kind = REVIEW_PRODUCER_KIND[kind] /\ b = <<y, m>>
  BY Zenon, <1>3
<1>5. AttemptAt(w, a) = tasks[w][x].attempts[n] /\ AttemptAt(w, b) = tasks[w][y].attempts[m]
  BY Zenon, <1>2, <1>4 DEF AttemptAt
<1>6. Apart(tasks[w][x], tasks[w][y])
  BY Zenon DEF SInv, StagesFit, Stages
<1> QED
  BY Zenon, <1>2, <1>4, <1>5, <1>6 DEF Apart

(* In every behaviour of the core the tasks of a workflow come in the order  *)
(* of the stages, each left by success only, the work on them is about the   *)
(* candidate revision, and reviews have other providers than what they       *)
(* review (_advance_after_task, _prepare_execution, _finalize_execution).    *)
THEOREM StagesInductive == Spec => [](IInv /\ HInv /\ SInv)
<1>1. Init => SInv
  BY Zenon, InitStages
<1>2. IInv /\ HInv /\ SInv /\ [Next]_vars => SInv'
  BY Zenon, NextSInv DEF SStep
<1> QED
  BY <1>1, <1>2, HistoryInductive, PTL DEF Spec

(* A workflow that awaits a merge decision or has an approval was            *)
(* implemented, tested and reviewed at the candidate revision that approval  *)
(* is for: no result of another revision is left among the evidence          *)
(* (_finalize_execution_success, approve_merge).                             *)
THEOREM EvidenceIsBound == Spec => []EvidenceBindsCandidate
BY StagesInductive, EvidenceFollows, PTL

(* No attempt at a review was routed to the provider whose successful        *)
(* attempt produced what is reviewed (_prepare_execution with the routing    *)
(* exclusion).                                                               *)
THEOREM ReviewsAreIndependent == Spec => []ReviewIndependence
BY StagesInductive, IndependenceFollows, PTL

(* The core implements the lifecycle of a workflow: each transaction is one  *)
(* transition of the lifecycle, or changes nothing it shows; only the sweep  *)
(* moves several workflows, and it moves them in one step.                   *)
THEOREM LifecycleImplemented == Spec => ImplementsLifecycle
<1>1. Init => Lifecycle!Init
  BY Zenon, InitStages
<1>2. IInv /\ HInv /\ SInv /\ [Next]_vars => [Lifecycle!Next]_LVars
  BY Zenon, NextSInv DEF SStep
<1>3. IInv /\ HInv /\ SInv /\ [Next]_vars => [Lifecycle!Next]_(Lifecycle!vars)
  BY Zenon, <1>2 DEF LVars, Lifecycle!vars
<1> QED
  BY <1>1, <1>3, StagesInductive, PTL DEF Spec, ImplementsLifecycle, Lifecycle!Spec
=============================================================================
