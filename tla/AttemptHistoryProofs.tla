------------------------ MODULE AttemptHistoryProofs ------------------------
(***************************************************************************)
(* Proofs about the attempts of a task and the leases that fence them, for *)
(* any sets of workflows, workers, tokens, providers and revisions and any *)
(* bounds.                                                                 *)
(*                                                                         *)
(* IInv of WorkflowTasksProofs relates workflows to tasks but says nothing *)
(* of attempts.  HInv adds the history: all attempts but the last failed,  *)
(* and the status of the last one follows from the status of the task.     *)
(* That an executing worker ends the attempt it began needs to know that   *)
(* its token is its own and that the lease has not changed hands since.    *)
(* The last section states how the histories of the tasks of one workflow  *)
(* relate, and what keeps that; LifecycleProofs makes an invariant of it.  *)
(***************************************************************************)
EXTENDS WorkflowTasksProofs

(* The attempts of one task *)
History(task) ==
  /\ \A n \in 1 .. Len(task.attempts) :
       /\ task.attempts[n].status = "FAILED" \/ n = Len(task.attempts)
       /\ task.attempts[n].status = "RUNNING" => task.status \in {"RUNNING", "CANCELLED"}
       /\ task.attempts[n].status = "SUCCEEDED" => task.status = "SUCCEEDED"
       /\ task.attempts[n].status = "TIMED_OUT" => task.status \in {"BLOCKED", "RECONCILED"}
       /\ task.attempts[n].reconciliation # "NULL" => task.attempts[n].status = "TIMED_OUT"
  /\ task.status = "RUNNING" =>
       Len(task.attempts) > 0 /\ task.attempts[Len(task.attempts)].status = "RUNNING"

(* A human has decided that work goes on after an unknown outcome *)
Released(task) ==
  \A n \in 1 .. Len(task.attempts) :
    task.attempts[n].status = "TIMED_OUT" => task.attempts[n].reconciliation = "RETRY"

(* The last attempt timed out and no human has decided yet *)
Undecided(task) ==
  /\ task.status = "BLOCKED" /\ Len(task.attempts) > 0
  /\ task.attempts[Len(task.attempts)].status = "TIMED_OUT"
  /\ task.attempts[Len(task.attempts)].error_code = "LeaseExpired"
  /\ task.attempts[Len(task.attempts)].reconciliation = "NULL"

(* The workflow waits for reconcile_execution *)
AwaitsHuman(row) ==
  row # None /\ row.state = "BLOCKED" /\ row.block_reason = "EXECUTION_RECONCILIATION_REQUIRED"

HistoryFits(row, ts) ==
  /\ \A i \in 1 .. Len(ts) : History(ts[i]) /\ (i < Len(ts) => Released(ts[i]))
  /\ AwaitsHuman(row) => Len(ts) > 0 /\ Undecided(ts[Len(ts)])

(* No two worker processes hold the same token *)
TokensApart ==
  \A p, q \in Workers : worker[p].pc # "idle" /\ worker[q].pc # "idle" /\ worker[p].token = worker[q].token => p = q

(* The attempt of an executing worker whose lease is still its own *)
AttemptFits(p) ==
  worker[p].pc = "executing" /\ HeldTask(p).status = "RUNNING" /\ HeldTask(p).lease_token = worker[p].token =>
    worker[p].attempt = Len(HeldTask(p).attempts)

HInv ==
  /\ \A w \in Workflows : HistoryFits(workflow[w], tasks[w])
  /\ TokensApart
  /\ \A p \in Workers : AttemptFits(p)
-----------------------------------------------------------------------------
(* How one task may change *)

(* A finished attempt keeps everything but the human's decision about it *)
KeepsAttempt(old, new) ==
  \/ new = old
  \/ old.status = "RUNNING"
  \/ old.reconciliation = "NULL" /\ new = [old EXCEPT !.reconciliation = new.reconciliation]

(* Only a task that is live or blocked changes, and it keeps its attempts *)
TaskStep(old, new) ==
  /\ new = old \/ old.status \in LiveStatus \cup {"BLOCKED"}
  /\ History(new)
  /\ Len(old.attempts) <= Len(new.attempts)
  /\ \A n \in 1 .. Len(old.attempts) : KeepsAttempt(old.attempts[n], new.attempts[n])

(* A task runs on under the same lease *)
RunsOn(old, new) ==
  new.status = "RUNNING" =>
    old.status = "RUNNING" /\ new.attempts = old.attempts /\ new.lease_token = old.lease_token

(* A task that is as it was *)
LEMMA SameTaskStep ==
  ASSUME NEW task \in Task, History(task)
  PROVE  TaskStep(task, task) /\ RunsOn(task, task)
<1>1. Len(task.attempts) \in Nat
  BY DEF Task
<1> QED
  BY <1>1 DEF TaskStep, RunsOn, KeepsAttempt

(* A task that changes other fields than its attempts *)
LEMMA StatusStep ==
  ASSUME NEW old \in Task, NEW new \in Task, History(old), old.status \in LiveStatus,
         new.attempts = old.attempts,
         \/ new.status = old.status
         \/ old.status # "RUNNING" /\ new.status \in {"READY", "LEASED"}
         \/ new.status = "CANCELLED"
  PROVE  TaskStep(old, new)
<1>1. Len(old.attempts) \in Nat
  BY DEF Task
<1>2. History(new)
  BY Zenon, <1>1 DEF History, LiveStatus
<1> QED
  BY <1>1, <1>2 DEF TaskStep, KeepsAttempt

(* A queued or leased task has only failed attempts *)
LEMMA QueuedFailed ==
  ASSUME NEW task \in Task, History(task), task.status \in {"READY", "LEASED"}
  PROVE  \A n \in 1 .. Len(task.attempts) : task.attempts[n].status = "FAILED"
<1> SUFFICES ASSUME NEW n \in 1 .. Len(task.attempts) PROVE task.attempts[n].status = "FAILED"
  BY Zenon
<1>1. task.attempts[n] \in Attempt
  BY DEF Task
<1>2. task.attempts[n].status \in {"RUNNING", "SUCCEEDED", "FAILED", "TIMED_OUT"}
  BY Zenon, <1>1 DEF Attempt
<1> QED
  BY Zenon, <1>2 DEF History

(* A leased task gets its next attempt: _prepare_execution, _record_routing_block *)
LEMMA BeginStep ==
  ASSUME NEW old \in Task, NEW new \in Task, History(old), old.status = "LEASED",
         NEW a \in Attempt, new.attempts = Append(old.attempts, a), a.reconciliation = "NULL",
         \/ new.status = "RUNNING" /\ a.status = "RUNNING"
         \/ new.status = "BLOCKED" /\ a.status = "FAILED"
  PROVE  TaskStep(old, new) /\ Len(new.attempts) = Len(old.attempts) + 1
<1>1. /\ Len(old.attempts) \in Nat /\ Len(new.attempts) = Len(old.attempts) + 1
      /\ \A n \in 1 .. Len(old.attempts) : new.attempts[n] = old.attempts[n]
      /\ new.attempts[Len(old.attempts) + 1] = a
  BY DEF Task
<1>2. \A n \in 1 .. Len(old.attempts) :
        new.attempts[n].status = "FAILED" /\ (new.attempts[n].reconciliation # "NULL" => new.attempts[n].status = "TIMED_OUT")
  BY Zenon, <1>1, QueuedFailed DEF History
<1>3. \A n \in 1 .. Len(new.attempts) : n \notin 1 .. Len(old.attempts) =>
        n = Len(new.attempts) /\ new.attempts[n] = a
  BY <1>1
<1>4. History(new)
  BY <1>1, <1>2, <1>3 DEF History
<1> QED
  BY <1>1, <1>4 DEF TaskStep, KeepsAttempt, LiveStatus

(* The only attempt of a running task that runs is the last one *)
LEMMA RunningLast ==
  ASSUME NEW task \in Task, History(task), task.status = "RUNNING"
  PROVE  /\ Len(task.attempts) \in 1 .. Len(task.attempts)
         /\ \A n \in 1 .. Len(task.attempts) : task.attempts[n].status = "RUNNING" <=> n = Len(task.attempts)
<1>1. Len(task.attempts) \in Nat
  BY DEF Task
<1> QED
  BY <1>1 DEF History

(* The running attempt ends: the finalizations and the sweep *)
LEMMA EndStep ==
  ASSUME NEW old \in Task, NEW new \in Task, History(old), old.status = "RUNNING",
         NEW a \in Attempt, new.attempts = [old.attempts EXCEPT ![Len(old.attempts)] = a],
         a.reconciliation = old.attempts[Len(old.attempts)].reconciliation,
         \/ new.status = "SUCCEEDED" /\ a.status = "SUCCEEDED"
         \/ new.status \in {"READY", "FAILED"} /\ a.status = "FAILED"
         \/ new.status = "BLOCKED" /\ a.status = "TIMED_OUT"
  PROVE  TaskStep(old, new) /\ a.reconciliation = "NULL" /\ Len(new.attempts) = Len(old.attempts)
<1> DEFINE l == Len(old.attempts)
<1>1. l \in 1 .. l /\ l \in Nat /\ old.attempts[l].status = "RUNNING"
  BY RunningLast DEF Task
<1>2. /\ Len(new.attempts) = l /\ new.attempts[l] = a
      /\ \A n \in 1 .. l : n # l => new.attempts[n] = old.attempts[n]
  BY <1>1, PutInSeq DEF Task
<1>3. a.reconciliation = "NULL"
  BY Zenon, <1>1 DEF History
<1>4. \A n \in 1 .. l : n # l =>
        /\ new.attempts[n].status = "FAILED"
        /\ new.attempts[n].reconciliation # "NULL" => new.attempts[n].status = "TIMED_OUT"
  BY Zenon, <1>1, <1>2 DEF History
<1>5. \A n \in 1 .. l : KeepsAttempt(old.attempts[n], new.attempts[n])
  BY Zenon, <1>1, <1>2 DEF KeepsAttempt
<1>6. new.status # "RUNNING"
  BY Zenon
<1> HIDE DEF l
<1>7. History(new)
  <2> SUFFICES ASSUME NEW n \in 1 .. l
               PROVE  /\ new.attempts[n].status = "FAILED" \/ n = Len(new.attempts)
                      /\ new.attempts[n].status = "RUNNING" => new.status \in {"RUNNING", "CANCELLED"}
                      /\ new.attempts[n].status = "SUCCEEDED" => new.status = "SUCCEEDED"
                      /\ new.attempts[n].status = "TIMED_OUT" => new.status \in {"BLOCKED", "RECONCILED"}
                      /\ new.attempts[n].reconciliation # "NULL" => new.attempts[n].status = "TIMED_OUT"
    BY Zenon, <1>2, <1>6 DEF History
  <2>1. CASE n = l
    BY Zenon, <1>2, <1>3, <2>1
  <2>2. CASE n # l
    BY Zenon, <1>4, <2>2
  <2> QED
    BY Zenon, <2>1, <2>2
<1> QED
  BY <1>1, <1>2, <1>3, <1>5, <1>7 DEF TaskStep, LiveStatus, l

(* reconcile_execution decides about the last attempt *)
LEMMA Abandoned ==
  ASSUME NEW task \in Task, History(task)
  PROVE  /\ AbandonedAttempt(task) # 0 =>
              /\ AbandonedAttempt(task) = Len(task.attempts) /\ Len(task.attempts) \in 1 .. Len(task.attempts)
              /\ task.attempts[Len(task.attempts)].status = "TIMED_OUT"
         /\ Undecided(task) => AbandonedAttempt(task) = Len(task.attempts) /\ Len(task.attempts) # 0
<1> DEFINE l == Len(task.attempts)
           abandoned == {n \in DOMAIN task.attempts : /\ task.attempts[n].status = "TIMED_OUT"
                                                      /\ task.attempts[n].error_code = "LeaseExpired"}
           newest == CHOOSE n \in abandoned : \A m \in abandoned : m <= n
<1>1. DOMAIN task.attempts = 1 .. l /\ l \in Nat
  BY DEF Task
<1>2. \A n \in abandoned : n = l /\ task.attempts[n].status = "TIMED_OUT" /\ n \in 1 .. l
  BY Zenon, <1>1 DEF History
<1>3. abandoned # {} => newest = l /\ l \in abandoned
  BY <1>1, <1>2
<1>4. AbandonedAttempt(task) = IF abandoned = {} THEN 0 ELSE newest
  BY Zenon DEF AbandonedAttempt
<1>5. Undecided(task) => l \in abandoned /\ l # 0
  BY <1>1 DEF Undecided
<1> HIDE DEF abandoned, newest
<1> QED
  BY Zenon, <1>1, <1>2, <1>3, <1>4, <1>5

(* A human's decision about the last attempt *)
LEMMA DecideStep ==
  ASSUME NEW old \in Task, NEW new \in Task, History(old), old.status = "BLOCKED", new.status = "RECONCILED",
         NEW l, l = Len(old.attempts), l \in 1 .. l, old.attempts[l].status = "TIMED_OUT",
         old.attempts[l].reconciliation = "NULL", NEW decision \in {"RETRY", "FAIL"},
         new.attempts = [old.attempts EXCEPT ![l] = [old.attempts[l] EXCEPT !.reconciliation = decision]]
  PROVE  TaskStep(old, new) /\ (decision = "RETRY" => Released(new))
<1> DEFINE a == [old.attempts[l] EXCEPT !.reconciliation = decision]
<1>1. l \in Nat /\ old.attempts \in Seq(Attempt) /\ old.attempts[l] \in Attempt
  BY DEF Task
<1>2. a \in Attempt /\ a.status = "TIMED_OUT" /\ a.reconciliation = decision /\ a = [old.attempts[l] EXCEPT !.reconciliation = a.reconciliation]
  BY Zenon, <1>1 DEF Attempt
<1> HIDE DEF a
<1>3. /\ Len(new.attempts) = l /\ new.attempts[l] = a
      /\ \A n \in 1 .. l : n # l => new.attempts[n] = old.attempts[n]
  BY <1>1, <1>2, PutInSeq DEF a
<1>4. \A n \in 1 .. l : n # l =>
        /\ new.attempts[n].status = "FAILED"
        /\ new.attempts[n].reconciliation # "NULL" => new.attempts[n].status = "TIMED_OUT"
  BY <1>1, <1>3 DEF History
<1>5. \A n \in 1 .. l : KeepsAttempt(old.attempts[n], new.attempts[n])
  BY Zenon, <1>2, <1>3 DEF KeepsAttempt
<1>6. History(new)
  <2> SUFFICES ASSUME NEW n \in 1 .. l
               PROVE  /\ new.attempts[n].status = "FAILED" \/ n = Len(new.attempts)
                      /\ new.attempts[n].status = "RUNNING" => new.status \in {"RUNNING", "CANCELLED"}
                      /\ new.attempts[n].status = "SUCCEEDED" => new.status = "SUCCEEDED"
                      /\ new.attempts[n].status = "TIMED_OUT" => new.status \in {"BLOCKED", "RECONCILED"}
                      /\ new.attempts[n].reconciliation # "NULL" => new.attempts[n].status = "TIMED_OUT"
    BY Zenon, <1>3 DEF History
  <2>1. CASE n = l
    BY Zenon, <1>2, <1>3, <2>1
  <2>2. CASE n # l
    BY Zenon, <1>4, <2>2
  <2> QED
    BY Zenon, <2>1, <2>2
<1>7. decision = "RETRY" => Released(new)
  BY Zenon, <1>2, <1>3, <1>4 DEF Released
<1> QED
  BY <1>1, <1>3, <1>5, <1>6, <1>7 DEF TaskStep
-----------------------------------------------------------------------------
(* How the tasks of a workflow may change *)

(* No task is lost, at most one is scheduled, and only after one that is released *)
KeepsTasks(ts, us) ==
  /\ Len(ts) <= Len(us) /\ Len(us) <= Len(ts) + 1
  /\ \A i \in 1 .. Len(ts) : TaskStep(ts[i], us[i])
  /\ \A i \in 1 .. Len(us) : i > Len(ts) => us[i].attempts = <<>> /\ us[i].status = "READY"
  /\ Len(ts) < Len(us) => \A i \in 1 .. Len(ts) : i = Len(ts) => Released(us[i])

HStep == HInv' /\ \A w \in Workflows : KeepsTasks(tasks[w], tasks'[w])

(* What the invariants say about one task *)
LEMMA HistoryFacts ==
  ASSUME IInv, HInv, NEW w \in Workflows
  PROVE  /\ tasks[w] \in Seq(Task) /\ Len(tasks[w]) \in Nat /\ Positions(w) = 1 .. Len(tasks[w])
         /\ \A i \in Positions(w) : tasks[w][i] \in Task /\ History(tasks[w][i])
         /\ \A i \in 1 .. Len(tasks[w]) : tasks[w][i] \in Task /\ History(tasks[w][i])
BY DEF IInv, TypeOK, HInv, HistoryFits, Positions

(* Rewriting one task *)
LEMMA PutHistory ==
  ASSUME NEW ts \in Seq(Task), \A j \in 1 .. Len(ts) : History(ts[j]),
         NEW i \in 1 .. Len(ts), NEW task \in Task, TaskStep(ts[i], task)
  PROVE  KeepsTasks(ts, [ts EXCEPT ![i] = task]) /\ Len([ts EXCEPT ![i] = task]) = Len(ts)
<1> DEFINE us == [ts EXCEPT ![i] = task]
<1>1. Len(us) = Len(ts) /\ Len(ts) \in Nat /\ \A j \in 1 .. Len(ts) : us[j] = IF j = i THEN task ELSE ts[j]
  BY PutInSeq, LenIsNat
<1> HIDE DEF us
<1>2. \A j \in 1 .. Len(ts) : TaskStep(ts[j], us[j])
  BY <1>1, SameTaskStep
<1>3. KeepsTasks(ts, us) /\ Len(us) = Len(ts)
  BY <1>1, <1>2 DEF KeepsTasks
<1> QED
  BY Zenon, <1>3 DEF us

(* Tasks that stay as they are *)
LEMMA SameHistory ==
  ASSUME NEW ts \in Seq(Task), \A j \in 1 .. Len(ts) : History(ts[j])
  PROVE  KeepsTasks(ts, ts)
<1>1. Len(ts) \in Nat
  BY Zenon, LenIsNat
<1> QED
  BY <1>1, SameTaskStep DEF KeepsTasks

(* Scheduling a task after the ones there are *)
LEMMA AppendHistory ==
  ASSUME NEW ts \in Seq(Task), NEW us \in Seq(Task), KeepsTasks(ts, us), Len(us) = Len(ts),
         \A i \in 1 .. Len(ts) : i = Len(ts) => Released(us[i]), NEW kind \in TaskKind
  PROVE  KeepsTasks(ts, Append(us, NewTask(kind)))
<1> DEFINE vs == Append(us, NewTask(kind))
<1>1. /\ Len(vs) = Len(ts) + 1 /\ Len(ts) \in Nat
      /\ \A j \in 1 .. Len(ts) : vs[j] = us[j]
      /\ vs[Len(ts) + 1] = NewTask(kind)
  BY AppendToSeq, NewTaskFits, LenIsNat
<1>2. NewTask(kind).attempts = <<>> /\ NewTask(kind).status = "READY"
  BY Zenon DEF NewTask
<1> HIDE DEF vs
<1>3. KeepsTasks(ts, vs)
  BY <1>1, <1>2 DEF KeepsTasks
<1> QED
  BY Zenon, <1>3 DEF vs

(* The histories of a workflow's tasks stay histories *)
LEMMA WorkflowHistory ==
  ASSUME NEW row, NEW ts \in Seq(Task), Consistent(row, ts), HistoryFits(row, ts),
         NEW us \in Seq(Task), KeepsTasks(ts, us)
  PROVE  \A i \in 1 .. Len(us) : History(us[i]) /\ (i < Len(us) => Released(us[i]))
<1> SUFFICES ASSUME NEW i \in 1 .. Len(us) PROVE History(us[i]) /\ (i < Len(us) => Released(us[i]))
  BY Zenon
<1>1. Len(ts) \in Nat /\ Len(us) \in Nat /\ Len(us) <= Len(ts) + 1 /\ Len(ts) <= Len(us)
  BY Zenon, LenIsNat DEF KeepsTasks
<1>2. CASE i > Len(ts)
  <2>1. us[i].attempts = <<>> /\ us[i].status = "READY" /\ i = Len(us)
    BY <1>1, <1>2 DEF KeepsTasks
  <2> QED
    BY <1>1, <2>1 DEF History
<1>3. CASE i = Len(ts)
  BY <1>1, <1>3 DEF KeepsTasks, TaskStep
<1>4. CASE i < Len(ts)
  <2>1. TaskStep(ts[i], us[i]) /\ Released(ts[i]) /\ ts[i].status \in {"SUCCEEDED", "RECONCILED"}
    BY <1>1, <1>4 DEF KeepsTasks, HistoryFits, Consistent
  <2>2. us[i] = ts[i]
    BY Zenon, <2>1 DEF TaskStep, LiveStatus
  <2> QED
    BY Zenon, <2>1, <2>2 DEF TaskStep
<1> QED
  BY <1>1, <1>2, <1>3, <1>4
-----------------------------------------------------------------------------
(* Steps *)

(* A step that keeps every task and asks a human only about unknown outcomes *)
LEMMA AllHistories ==
  ASSUME IInv, HInv, IInv',
         \A w \in Workflows :
           /\ KeepsTasks(tasks[w], tasks'[w])
           /\ AwaitsHuman(workflow'[w]) =>
                \/ AwaitsHuman(workflow[w]) /\ tasks'[w] = tasks[w]
                \/ Len(tasks'[w]) > 0 /\ Undecided(tasks'[w][Len(tasks'[w])])
  PROVE  \A w \in Workflows : HistoryFits(workflow'[w], tasks'[w])
<1> SUFFICES ASSUME NEW w \in Workflows PROVE HistoryFits(workflow'[w], tasks'[w])
  BY Zenon
<1>1. /\ tasks[w] \in Seq(Task) /\ Consistent(workflow[w], tasks[w])
      /\ tasks'[w] \in Seq(Task) /\ HistoryFits(workflow[w], tasks[w])
  BY Zenon DEF IInv, TypeOK, HInv
<1>2. \A i \in 1 .. Len(tasks'[w]) :
        History(tasks'[w][i]) /\ (i < Len(tasks'[w]) => Released(tasks'[w][i]))
  BY Zenon, <1>1, WorkflowHistory
<1> QED
  BY Zenon, <1>1, <1>2 DEF HistoryFits

(* A step that rewrites the tasks of one workflow *)
LEMMA OneHistory ==
  ASSUME IInv, HInv, IInv', NEW w \in Workflows, NEW us, NEW row,
         tasks' = [tasks EXCEPT ![w] = us], workflow' = [workflow EXCEPT ![w] = row],
         KeepsTasks(tasks[w], us),
         AwaitsHuman(row) => Len(us) > 0 /\ Undecided(us[Len(us)])
  PROVE  \A v \in Workflows : KeepsTasks(tasks[v], tasks'[v]) /\ HistoryFits(workflow'[v], tasks'[v])
<1>1. \A v \in Workflows : /\ tasks'[v] = IF v = w THEN us ELSE tasks[v]
                           /\ workflow'[v] = IF v = w THEN row ELSE workflow[v]
  BY Zenon DEF IInv, TypeOK
<1>2. \A v \in Workflows : KeepsTasks(tasks[v], tasks[v])
  BY Zenon, HistoryFacts, SameHistory
<1>3. ASSUME NEW v \in Workflows
      PROVE  /\ KeepsTasks(tasks[v], tasks'[v])
             /\ AwaitsHuman(workflow'[v]) =>
                  \/ AwaitsHuman(workflow[v]) /\ tasks'[v] = tasks[v]
                  \/ Len(tasks'[v]) > 0 /\ Undecided(tasks'[v][Len(tasks'[v])])
  BY Zenon, <1>1, <1>2
<1> QED
  BY Zenon, <1>3, AllHistories

(* A step that only lets worker processes forget what they held, and running *)
(* tasks run on                                                              *)
LEMMA LeasesKept ==
  ASSUME IInv, HInv, IInv',
         \A w \in Workflows : \A i \in Positions(w) : RunsOn(tasks[w][i], tasks'[w][i]),
         \A p \in Workers : worker'[p] = worker[p] \/ worker'[p].pc = "idle"
  PROVE  TokensApart' /\ \A p \in Workers : AttemptFits(p)'
<1>1. TokensApart'
  BY Zenon DEF HInv, TokensApart
<1>2. ASSUME NEW p \in Workers PROVE AttemptFits(p)'
  <2> SUFFICES ASSUME worker'[p].pc = "executing", HeldTask(p)'.status = "RUNNING",
                      HeldTask(p)'.lease_token = worker'[p].token
               PROVE  worker'[p].attempt = Len(HeldTask(p)'.attempts)
    BY Zenon DEF AttemptFits
  <2>1. worker'[p] = worker[p]
    BY Zenon
  <2>2. worker[p].wf \in Workflows /\ worker[p].pos \in Positions(worker[p].wf)
    BY Zenon, <2>1, HeldFacts
  <2>3. RunsOn(HeldTask(p), HeldTask(p)')
    BY Zenon, <2>1, <2>2 DEF HeldTask
  <2>4. HeldTask(p).status = "RUNNING" /\ HeldTask(p)'.attempts = HeldTask(p).attempts
          /\ HeldTask(p)'.lease_token = HeldTask(p).lease_token
    BY Zenon, <2>3 DEF RunsOn
  <2> QED
    BY Zenon, <2>1, <2>4 DEF HInv, AttemptFits
<1> QED
  BY Zenon, <1>1, <1>2

(* A step that rewrites the tasks of one workflow and runs none *)
LEMMA QuietStep ==
  ASSUME IInv, HInv, IInv', NEW w \in Workflows, NEW us, NEW row,
         tasks' = [tasks EXCEPT ![w] = us], workflow' = [workflow EXCEPT ![w] = row],
         KeepsTasks(tasks[w], us), \A i \in 1 .. Len(tasks[w]) : RunsOn(tasks[w][i], us[i]),
         AwaitsHuman(row) => Len(us) > 0 /\ Undecided(us[Len(us)]),
         \A p \in Workers : worker'[p] = worker[p] \/ worker'[p].pc = "idle"
  PROVE  HStep
<1>1. \A v \in Workflows : KeepsTasks(tasks[v], tasks'[v]) /\ HistoryFits(workflow'[v], tasks'[v])
  BY Zenon, OneHistory
<1>2. \A v \in Workflows : tasks'[v] = IF v = w THEN us ELSE tasks[v]
  BY Zenon DEF IInv, TypeOK
<1>3. \A v \in Workflows : \A i \in Positions(v) : RunsOn(tasks[v][i], tasks'[v][i])
  BY <1>2 DEF RunsOn, Positions
<1>4. TokensApart' /\ \A p \in Workers : AttemptFits(p)'
  BY Zenon, <1>3, LeasesKept
<1> QED
  BY Zenon, <1>1, <1>4 DEF HStep, HInv

(* The rewritten task of a step that rewrites one *)
LEMMA PutTyped ==
  ASSUME IInv, IInv', NEW w \in Workflows, NEW i \in Positions(w), NEW task,
         tasks' = [tasks EXCEPT ![w] = PutTask(w, i, task)]
  PROVE  task \in Task
<1>1. tasks[w] \in Seq(Task) /\ i \in 1 .. Len(tasks[w]) /\ tasks'[w] \in Seq(Task)
  BY Zenon DEF IInv, TypeOK, Positions
<1>2. tasks'[w] = [tasks[w] EXCEPT ![i] = task]
  BY Zenon DEF IInv, TypeOK, PutTask
<1>3. DOMAIN [tasks[w] EXCEPT ![i] = task] = DOMAIN tasks[w] /\ [tasks[w] EXCEPT ![i] = task][i] = task
  BY <1>1
<1>4. DOMAIN tasks'[w] = 1 .. Len(tasks'[w]) /\ DOMAIN tasks[w] = 1 .. Len(tasks[w])
  BY <1>1
<1>5. i \in 1 .. Len(tasks'[w])
  BY Zenon, <1>1, <1>2, <1>3, <1>4
<1> QED
  BY <1>1, <1>2, <1>3, <1>5

(* A step that rewrites one task, after which no human is asked *)
LEMMA OneTaskStep ==
  ASSUME IInv, HInv, IInv', NEW w \in Workflows, NEW i \in Positions(w), NEW task, NEW row,
         tasks' = [tasks EXCEPT ![w] = PutTask(w, i, task)], workflow' = [workflow EXCEPT ![w] = row],
         TaskStep(tasks[w][i], task), RunsOn(tasks[w][i], task), ~AwaitsHuman(row),
         \A p \in Workers : worker'[p] = worker[p] \/ worker'[p].pc = "idle"
  PROVE  HStep
<1>1. /\ tasks[w] \in Seq(Task) /\ i \in 1 .. Len(tasks[w]) /\ task \in Task
      /\ \A j \in 1 .. Len(tasks[w]) : tasks[w][j] \in Task /\ History(tasks[w][j])
  BY Zenon, HistoryFacts, PutTyped
<1>2. KeepsTasks(tasks[w], PutTask(w, i, task))
  BY Zenon, <1>1, PutHistory DEF PutTask
<1>3. \A j \in 1 .. Len(tasks[w]) : PutTask(w, i, task)[j] = IF j = i THEN task ELSE tasks[w][j]
  BY <1>1, PutInSeq DEF PutTask
<1>4. \A j \in 1 .. Len(tasks[w]) : RunsOn(tasks[w][j], PutTask(w, i, task)[j])
  BY Zenon, <1>3 DEF RunsOn
<1> QED
  BY Zenon, <1>2, <1>4, QuietStep

(* A step that changes a live task of a workflow and not its row *)
LEMMA LiveTaskStep ==
  ASSUME IInv, HInv, IInv', NEW w \in Workflows, NEW i \in Positions(w), tasks[w][i].status \in LiveStatus,
         NEW task, tasks' = [tasks EXCEPT ![w] = PutTask(w, i, task)], UNCHANGED workflow,
         TaskStep(tasks[w][i], task), RunsOn(tasks[w][i], task),
         \A p \in Workers : worker'[p] = worker[p] \/ worker'[p].pc = "idle"
  PROVE  HStep
<1>1. workflow' = [workflow EXCEPT ![w] = workflow[w]] /\ tasks[w][i] \in Task
        /\ workflow[w].state = TASK_WORKFLOW_STATE[tasks[w][i].kind]
  BY Zenon, TaskFacts DEF StateFits
<1>2. workflow[w].state # "BLOCKED"
  BY Zenon, <1>1, StageTransitions DEF Task
<1> QED
  BY Zenon, <1>1, <1>2, OneTaskStep DEF AwaitsHuman

(* A worker process is made to forget, or none is *)
LEMMA Forgets ==
  ASSUME IInv, NEW p \in Workers, worker' = [worker EXCEPT ![p] = Idle]
  PROVE  \A q \in Workers : worker'[q] = worker[q] \/ worker'[q].pc = "idle"
BY Zenon DEF IInv, TypeOK, Idle

(* The task of a worker process after a step that rewrites one task *)
LEMMA HeldAfter ==
  ASSUME IInv, IInv', NEW w \in Workflows, NEW i \in Positions(w), NEW task,
         tasks' = [tasks EXCEPT ![w] = PutTask(w, i, task)],
         NEW q \in Workers, worker[q].pc # "idle", worker'[q] = worker[q]
  PROVE  HeldTask(q)' = IF worker[q].wf = w /\ worker[q].pos = i THEN task ELSE HeldTask(q)
<1>1. worker[q].wf \in Workflows /\ worker[q].pos \in Positions(worker[q].wf)
  BY Zenon, HeldFacts
<1>2. \A v \in Workflows : tasks'[v] = IF v = w THEN PutTask(w, i, task) ELSE tasks[v]
  BY Zenon DEF IInv, TypeOK
<1>3. tasks[w] \in Seq(Task) /\ i \in 1 .. Len(tasks[w]) /\ task \in Task
  BY Zenon, TaskFacts, PutTyped
<1>4. \A j \in Positions(w) : PutTask(w, i, task)[j] = IF j = i THEN task ELSE tasks[w][j]
  BY <1>3, PutInSeq DEF PutTask, Positions
<1>5. HeldTask(q)' = tasks'[worker[q].wf][worker[q].pos] /\ HeldTask(q) = tasks[worker[q].wf][worker[q].pos]
  BY Zenon DEF HeldTask
<1> QED
  BY <1>1, <1>2, <1>4, <1>5

(* The length of a sequence is that of its domain *)
LEMMA DomainLen ==
  ASSUME NEW S, NEW s \in Seq(S), NEW n \in Nat, DOMAIN s = 1 .. n
  PROVE  Len(s) = n
OBVIOUS
-----------------------------------------------------------------------------
(* Each action keeps the history *)

(* There is no history at first *)
LEMMA InitHInv == Init => HInv
BY DEF Init, HInv, HistoryFits, AwaitsHuman, TokensApart, AttemptFits, Idle

(* heartbeat_task, the passing of time and the expiry of a grant touch no attempt *)
LEMMA HeartbeatHistory ==
  ASSUME IInv, HInv, IInv', NEW p \in Workers, HeartbeatTask(p)
  PROVE  HStep
<1> DEFINE w == worker[p].wf
           i == worker[p].pos
           task == [tasks[w][i] EXCEPT !.lease_left = LeaseTicks]
<1>1. w \in Workflows /\ i \in Positions(w)
  BY Zenon, HeldFacts DEF HeartbeatTask
<1>2. /\ tasks[w][i].status \in LiveStatus /\ tasks' = [tasks EXCEPT ![w] = PutTask(w, i, task)]
      /\ UNCHANGED workflow /\ UNCHANGED worker
  BY Zenon DEF HeartbeatTask, HoldsLease, HeldTask, LiveStatus
<1>3. tasks[w][i] \in Task /\ History(tasks[w][i])
  BY Zenon, <1>1, HistoryFacts
<1>4. task.status = tasks[w][i].status /\ task.attempts = tasks[w][i].attempts /\ task.lease_token = tasks[w][i].lease_token
  BY Zenon, <1>3 DEF Task
<1> HIDE DEF task
<1>5. TaskStep(tasks[w][i], task) /\ RunsOn(tasks[w][i], task)
  BY Zenon, <1>1, <1>2, <1>3, <1>4, PutTyped, StatusStep DEF RunsOn
<1> QED
  BY Zenon, <1>1, <1>2, <1>5, LiveTaskStep

LEMMA ClockHistory ==
  ASSUME IInv, HInv, IInv', NEW w \in Workflows, NEW i \in Positions(w), LeaseTick(w, i) \/ GrantExpires(w, i)
  PROVE  HStep
<1>1. tasks[w][i] \in Task /\ History(tasks[w][i]) /\ GrantFits(tasks[w][i])
  BY Zenon, HistoryFacts, TaskFacts
<1>2. tasks[w][i].status \in LiveStatus /\ UNCHANGED workflow /\ UNCHANGED worker
  BY Zenon, <1>1 DEF LeaseTick, GrantExpires, GrantFits, LiveStatus
<1>3. PICK task : /\ tasks' = [tasks EXCEPT ![w] = PutTask(w, i, task)]
                  /\ task.status = tasks[w][i].status /\ task.attempts = tasks[w][i].attempts
                  /\ task.lease_token = tasks[w][i].lease_token
  <2>1. CASE LeaseTick(w, i)
    <3> DEFINE t == [tasks[w][i] EXCEPT !.lease_left = @ - 1]
    <3>1. tasks' = [tasks EXCEPT ![w] = PutTask(w, i, t)]
      BY Zenon, <2>1 DEF LeaseTick
    <3>2. t.status = tasks[w][i].status /\ t.attempts = tasks[w][i].attempts /\ t.lease_token = tasks[w][i].lease_token
      BY Zenon, <1>1 DEF Task
    <3> HIDE DEF t
    <3> QED
      BY Zenon, <3>1, <3>2
  <2>2. CASE GrantExpires(w, i)
    <3> DEFINE t == [tasks[w][i] EXCEPT !.grant = "EXPIRED"]
    <3>1. tasks' = [tasks EXCEPT ![w] = PutTask(w, i, t)]
      BY Zenon, <2>2 DEF GrantExpires
    <3>2. t.status = tasks[w][i].status /\ t.attempts = tasks[w][i].attempts /\ t.lease_token = tasks[w][i].lease_token
      BY Zenon, <1>1 DEF Task
    <3> HIDE DEF t
    <3> QED
      BY Zenon, <3>1, <3>2
  <2> QED
    BY Zenon, <2>1, <2>2
<1>4. TaskStep(tasks[w][i], task) /\ RunsOn(tasks[w][i], task)
  BY Zenon, <1>1, <1>2, <1>3, PutTyped, StatusStep DEF RunsOn
<1> QED
  BY Zenon, <1>2, <1>3, <1>4, LiveTaskStep

(* A step that leaves rows and tasks as they are *)
LEMMA ForgetHistory ==
  ASSUME IInv, HInv, IInv', UNCHANGED <<workflow, tasks>>,
         \A p \in Workers : worker'[p] = worker[p] \/ worker'[p].pc = "idle"
  PROVE  HStep
<1>1. \A w \in Workflows : KeepsTasks(tasks[w], tasks'[w])
  BY Zenon, HistoryFacts, SameHistory
<1>2. \A w \in Workflows : HistoryFits(workflow'[w], tasks'[w])
  BY Zenon DEF HInv
<1>3. \A w \in Workflows : \A i \in Positions(w) : RunsOn(tasks[w][i], tasks'[w][i])
  BY Zenon DEF RunsOn
<1>4. TokensApart' /\ \A p \in Workers : AttemptFits(p)'
  BY Zenon, <1>3, LeasesKept
<1> QED
  BY Zenon, <1>1, <1>2, <1>4 DEF HStep, HInv

(* lease_next_task: the new token is nobody else's *)
LEMMA LeaseHistory ==
  ASSUME IInv, HInv, IInv', NEW p \in Workers, NEW w \in Workflows, NEW i \in Positions(w), LeaseNextTask(p, w, i)
  PROVE  HStep
<1> DEFINE task == [tasks[w][i] EXCEPT !.status = "LEASED", !.lease_owner = "orchestrator",
                                       !.lease_token = FreshToken, !.lease_left = LeaseTicks]
           held == [pc |-> "leased", wf |-> w, pos |-> i, token |-> FreshToken, attempt |-> 0]
<1>1. tasks[w][i] \in Task /\ History(tasks[w][i]) /\ tasks[w] \in Seq(Task) /\ i \in 1 .. Len(tasks[w])
  BY Zenon, HistoryFacts
<1>2. /\ tasks[w][i].status = "READY" /\ tasks' = [tasks EXCEPT ![w] = PutTask(w, i, task)]
      /\ worker' = [worker EXCEPT ![p] = held] /\ UNCHANGED workflow
  BY Zenon DEF LeaseNextTask
<1>3. task.status = "LEASED" /\ task.attempts = tasks[w][i].attempts
  BY Zenon, <1>1 DEF Task
<1>4. FreshToken \notin TokensInUse
  BY Zenon DEF LeaseNextTask, FreshToken
<1>5. \A q \in Workers : worker[q].token # FreshToken
  BY Zenon, <1>4 DEF TokensInUse
<1>6. \A q \in Workers : worker'[q] = IF q = p THEN held ELSE worker[q]
  BY Zenon, <1>2 DEF IInv, TypeOK
<1> HIDE DEF task
<1>7. TaskStep(tasks[w][i], task) /\ RunsOn(tasks[w][i], task) /\ task \in Task
  BY Zenon, <1>1, <1>2, <1>3, PutTyped, StatusStep DEF RunsOn, LiveStatus
<1>8. KeepsTasks(tasks[w], PutTask(w, i, task))
  BY Zenon, <1>1, <1>7, HistoryFacts, PutHistory DEF PutTask
<1>9. workflow' = [workflow EXCEPT ![w] = workflow[w]] /\ ~AwaitsHuman(workflow[w])
  <2>1. workflow' = [workflow EXCEPT ![w] = workflow[w]] /\ workflow[w].state = TASK_WORKFLOW_STATE[tasks[w][i].kind]
    BY Zenon, <1>2, TaskFacts DEF StateFits, LiveStatus
  <2>2. workflow[w].state # "BLOCKED"
    BY Zenon, <1>1, <2>1, StageTransitions DEF Task
  <2> QED
    BY Zenon, <2>1, <2>2 DEF AwaitsHuman
<1>10. \A v \in Workflows : KeepsTasks(tasks[v], tasks'[v]) /\ HistoryFits(workflow'[v], tasks'[v])
  BY Zenon, <1>2, <1>8, <1>9, OneHistory
<1>11. TokensApart'
  BY <1>5, <1>6 DEF HInv, TokensApart
<1>12. ASSUME NEW q \in Workers PROVE AttemptFits(q)'
  <2> SUFFICES ASSUME worker'[q].pc = "executing", HeldTask(q)'.status = "RUNNING",
                      HeldTask(q)'.lease_token = worker'[q].token
               PROVE  worker'[q].attempt = Len(HeldTask(q)'.attempts)
    BY Zenon DEF AttemptFits
  <2>1. worker'[q] = worker[q]
    BY <1>6
  <2>3. HeldTask(q)' = IF worker[q].wf = w /\ worker[q].pos = i THEN task ELSE HeldTask(q)
    BY Zenon, <1>2, <2>1, HeldAfter
  <2>4. HeldTask(q)' = HeldTask(q)
    BY Zenon, <1>3, <2>3
  <2> QED
    BY Zenon, <2>1, <2>4 DEF HInv, AttemptFits
<1> QED
  BY Zenon, <1>10, <1>11, <1>12 DEF HStep, HInv

(* A lease was taken for a task of a workflow that is at work *)
LEMMA LeasedNotWaiting ==
  ASSUME IInv, NEW w \in Workflows, NEW i \in Positions(w), tasks[w][i].status \in LiveStatus
  PROVE  ~AwaitsHuman(workflow[w]) /\ workflow[w] \in WorkflowRow
<1>1. /\ workflow[w].state = TASK_WORKFLOW_STATE[tasks[w][i].kind] /\ tasks[w][i] \in Task
      /\ workflow[w] \in WorkflowRow
  BY Zenon, TaskFacts DEF StateFits
<1>2. workflow[w].state # "BLOCKED"
  BY Zenon, <1>1, StageTransitions DEF Task
<1> QED
  BY Zenon, <1>1, <1>2 DEF AwaitsHuman

(* _prepare_execution: the attempt begun is the last one, and no other worker *)
(* process has the token of the lease                                         *)
LEMMA PrepareHistory ==
  ASSUME IInv, HInv, IInv', NEW p \in Workers, NEW provider \in Providers, PrepareExecution(p, provider)
  PROVE  HStep
<1> DEFINE w == worker[p].wf
           i == worker[p].pos
           a == [status |-> "RUNNING", error_code |-> None, provider |-> provider,
                 examined |-> workflow[w].candidate_revision, artifact |-> None,
                 output |-> "NULL", reconciliation |-> "NULL"]
           task == [tasks[w][i] EXCEPT !.status = "RUNNING", !.lease_left = LeaseTicks,
                                       !.attempts = Append(@, a)]
           held == [worker[p] EXCEPT !.pc = "executing", !.attempt = Len(tasks[w][i].attempts) + 1]
<1>1. w \in Workflows /\ i \in Positions(w)
  BY Zenon, HeldFacts DEF PrepareExecution
<1>2. /\ tasks[w][i].status = "LEASED" /\ tasks[w][i].lease_token = worker[p].token
      /\ tasks' = [tasks EXCEPT ![w] = PutTask(w, i, task)]
      /\ worker' = [worker EXCEPT ![p] = held]
      /\ UNCHANGED workflow /\ worker[p].pc = "leased"
  BY Zenon DEF PrepareExecution, PrepareAllowed, HoldsLease, HeldTask, IInv, TypeOK
<1>3. tasks[w][i] \in Task /\ History(tasks[w][i]) /\ tasks[w] \in Seq(Task) /\ i \in 1 .. Len(tasks[w])
  BY Zenon, <1>1, HistoryFacts
<1>4. ~AwaitsHuman(workflow[w]) /\ workflow[w] \in WorkflowRow
  BY Zenon, <1>1, <1>2, LeasedNotWaiting DEF LiveStatus
<1>5. a \in Attempt /\ a.status = "RUNNING" /\ a.reconciliation = "NULL"
  BY Zenon, <1>4 DEF Attempt, WorkflowRow
<1>6. /\ task.status = "RUNNING" /\ task.attempts = Append(tasks[w][i].attempts, a)
      /\ task.lease_token = tasks[w][i].lease_token
  BY Zenon, <1>3 DEF Task
<1>7. /\ held.token = worker[p].token /\ held.pc = "executing" /\ held.wf = w /\ held.pos = i
      /\ held.attempt = Len(tasks[w][i].attempts) + 1
  BY Zenon DEF IInv, TypeOK, WorkerState
<1> HIDE DEF task, a, held
<1>8. worker'[p] = held /\ \A q \in Workers : q # p => worker'[q] = worker[q]
  BY Zenon, <1>2 DEF IInv, TypeOK
<1>9. task \in Task
  BY Zenon, <1>1, <1>2, PutTyped
<1>10. TaskStep(tasks[w][i], task) /\ Len(task.attempts) = Len(tasks[w][i].attempts) + 1
  BY Zenon, <1>2, <1>3, <1>5, <1>6, <1>9, BeginStep
<1>11. KeepsTasks(tasks[w], PutTask(w, i, task))
  BY Zenon, <1>1, <1>3, <1>9, <1>10, HistoryFacts, PutHistory DEF PutTask
<1>12. workflow' = [workflow EXCEPT ![w] = workflow[w]]
  BY Zenon, <1>1, <1>2, TaskFacts
<1>13. \A v \in Workflows : KeepsTasks(tasks[v], tasks'[v]) /\ HistoryFits(workflow'[v], tasks'[v])
  BY Zenon, <1>1, <1>2, <1>4, <1>11, <1>12, OneHistory
<1>14. TokensApart'
  <2>1. \A q \in Workers : worker'[q].token = worker[q].token /\ (worker'[q].pc # "idle" => worker[q].pc # "idle")
    BY Zenon, <1>2, <1>7, <1>8
  <2> QED
    BY Zenon, <2>1 DEF HInv, TokensApart
<1>15. ASSUME NEW q \in Workers PROVE AttemptFits(q)'
  <2> SUFFICES ASSUME worker'[q].pc = "executing", HeldTask(q)'.status = "RUNNING",
                      HeldTask(q)'.lease_token = worker'[q].token
               PROVE  worker'[q].attempt = Len(HeldTask(q)'.attempts)
    BY Zenon DEF AttemptFits
  <2>1. CASE q = p
    <3>1. HeldTask(p)' = tasks'[w][i]
      BY Zenon, <1>7, <1>8 DEF HeldTask
    <3>2. tasks'[w] = PutTask(w, i, task)
      BY Zenon, <1>1, <1>2 DEF IInv, TypeOK
    <3>3. PutTask(w, i, task)[i] = task
      BY <1>3, <1>9, PutInSeq DEF PutTask
    <3> QED
      BY Zenon, <1>7, <1>8, <1>10, <2>1, <3>1, <3>2, <3>3
  <2>2. CASE q # p
    <3>1. worker'[q] = worker[q]
      BY Zenon, <1>8, <2>2
    <3>2. HeldTask(q)' = IF worker[q].wf = w /\ worker[q].pos = i THEN task ELSE HeldTask(q)
      BY Zenon, <1>1, <1>2, <3>1, HeldAfter
    <3>3. worker[q].token # worker[p].token
      BY Zenon, <1>2, <2>2, <3>1 DEF HInv, TokensApart
    <3>4. HeldTask(q)' = HeldTask(q)
      BY Zenon, <1>2, <1>6, <3>1, <3>2, <3>3
    <3> QED
      BY Zenon, <3>1, <3>4 DEF HInv, AttemptFits
  <2> QED
    BY Zenon, <2>1, <2>2
<1> QED
  BY Zenon, <1>13, <1>14, <1>15 DEF HStep, HInv

(* _record_routing_block: the attempt it records failed, nothing is unknown *)
LEMMA RoutingBlockedHistory ==
  ASSUME IInv, HInv, IInv', NEW p \in Workers, RoutingBlocked(p)
  PROVE  HStep
<1> DEFINE w == worker[p].wf
           i == worker[p].pos
           a == [status |-> "FAILED", error_code |-> "RoutingBlocked", provider |-> None,
                 examined |-> None, artifact |-> None, output |-> "NULL", reconciliation |-> "NULL"]
           attempts == Append(tasks[w][i].attempts, a)
           marked == [tasks[w][i] EXCEPT !.status = "BLOCKED"]
           blocked == [tasks[w][i] EXCEPT !.status = "BLOCKED", !.attempts = Append(@, a)]
           task == DeactivateGrant(ClearLease(blocked))
           row == Transition([workflow[w] EXCEPT !.block_reason = "NO_ELIGIBLE_PROVIDER"], "BLOCKED")
<1>1. w \in Workflows /\ i \in Positions(w)
  BY Zenon, HeldFacts DEF RoutingBlocked
<1>2. /\ tasks[w][i].status = "LEASED" /\ tasks' = [tasks EXCEPT ![w] = PutTask(w, i, task)]
      /\ workflow' = [workflow EXCEPT ![w] = row] /\ worker' = [worker EXCEPT ![p] = Idle]
  BY Zenon DEF RoutingBlocked, PrepareAllowed, HoldsLease, HeldTask
<1>3. tasks[w][i] \in Task /\ History(tasks[w][i]) /\ workflow[w] \in WorkflowRow
  BY Zenon, <1>1, <1>2, HistoryFacts, LeasedNotWaiting DEF LiveStatus
<1>4. a \in Attempt /\ a.status = "FAILED" /\ a.reconciliation = "NULL"
  BY Zenon DEF Attempt
<1>5. blocked = [marked EXCEPT !.attempts = attempts]
  BY Zenon, <1>3 DEF Task
<1> HIDE DEF a
<1>6. attempts \in Seq(Attempt)
  BY Zenon, <1>3, <1>4, AppendToSeq DEF Task
<1>7. marked \in Task /\ marked.status = "BLOCKED"
  BY Zenon, <1>3, StatusTask DEF TaskStatus
<1> HIDE DEF marked, attempts, blocked
<1>8. blocked \in Task /\ blocked.status = "BLOCKED" /\ blocked.attempts = attempts
  BY Zenon, <1>5, <1>6, <1>7, AttemptsTask
<1>9. task \in Task /\ task.status = "BLOCKED" /\ task.attempts = attempts
  BY ZenonT(30), <1>8, ClearLeaseTask, DeactivateGrantTask
<1>10. row.block_reason = "NO_ELIGIBLE_PROVIDER"
  <2>1. "BLOCKED" \in WorkflowState /\ "NO_ELIGIBLE_PROVIDER" \in BlockReason
    BY Zenon DEF WorkflowState, BlockReason
  <2> QED
    BY <1>3, <2>1, TransitionWithReason
<1> HIDE DEF task, row
<1>11. TaskStep(tasks[w][i], task) /\ RunsOn(tasks[w][i], task) /\ ~AwaitsHuman(row)
  BY Zenon, <1>2, <1>3, <1>4, <1>9, <1>10, BeginStep DEF attempts, RunsOn, AwaitsHuman
<1> QED
  BY Zenon, <1>1, <1>2, <1>11, Forgets, OneTaskStep

(* A worker process whose finalization passes the lease checks ends the last *)
(* attempt of the task                                                       *)
LEMMA HeldRun ==
  ASSUME IInv, HInv, NEW p \in Workers, worker[p].pc = "executing", RunStillLeased(p)
  PROVE  LET w == worker[p].wf
             i == worker[p].pos
             l == Len(tasks[w][i].attempts)
         IN /\ w \in Workflows /\ i \in Positions(w) /\ HeldTask(p) = tasks[w][i]
            /\ tasks[w][i] \in Task /\ History(tasks[w][i]) /\ tasks[w][i].status = "RUNNING"
            /\ worker[p].attempt = l /\ l \in 1 .. l
            /\ workflow[w] \in WorkflowRow /\ ~AwaitsHuman(workflow[w])
<1> DEFINE w == worker[p].wf
           i == worker[p].pos
<1>1. w \in Workflows /\ i \in Positions(w) /\ HeldTask(p) = tasks[w][i]
  BY Zenon, HeldFacts DEF HeldTask
<1>2. tasks[w][i].status = "RUNNING" /\ tasks[w][i].lease_token = worker[p].token
  BY Zenon DEF RunStillLeased, HoldsLease, HeldTask
<1>3. worker[p].attempt = Len(tasks[w][i].attempts)
  BY Zenon, <1>1, <1>2 DEF HInv, AttemptFits
<1>4. tasks[w][i] \in Task /\ History(tasks[w][i]) /\ workflow[w] \in WorkflowRow /\ ~AwaitsHuman(workflow[w])
  BY Zenon, <1>1, <1>2, HistoryFacts, LeasedNotWaiting DEF LiveStatus
<1> QED
  BY Zenon, <1>1, <1>2, <1>3, <1>4, RunningLast

(* What a failed or timed out attempt becomes *)
Ended(a, status, error) == [[a EXCEPT !.status = status] EXCEPT !.error_code = error]

(* The task with its attempt n ended so *)
EndedTask(task, n, status, error) ==
  [task EXCEPT !.attempts[n].status = status, !.attempts[n].error_code = error]

LEMMA EndedAttempt ==
  ASSUME NEW task \in Task, NEW n \in 1 .. Len(task.attempts), NEW status \in {"FAILED", "TIMED_OUT"},
         NEW error \in RunErrors \cup {"LeaseExpired"}
  PROVE  LET a == Ended(task.attempts[n], status, error)
             t == EndedTask(task, n, status, error)
         IN /\ a \in Attempt /\ a.status = status /\ a.error_code = error
            /\ a.reconciliation = task.attempts[n].reconciliation
            /\ t \in Task /\ t.status = task.status /\ t.attempts = [task.attempts EXCEPT ![n] = a]
<1> DEFINE m == [task.attempts[n] EXCEPT !.status = status]
           a == Ended(task.attempts[n], status, error)
           attempts == [task.attempts EXCEPT ![n] = a]
           t == EndedTask(task, n, status, error)
<1>1. t = [task EXCEPT !.attempts = attempts]
  BY Zenon DEF Task, Ended, EndedTask
<1>2. task.attempts[n] \in Attempt /\ task.attempts \in Seq(Attempt)
  BY DEF Task
<1>3. m \in Attempt /\ m.status = status /\ m.reconciliation = task.attempts[n].reconciliation
  BY Zenon, <1>2 DEF Attempt
<1>4. a = [m EXCEPT !.error_code = error]
  BY Zenon DEF Ended
<1> HIDE DEF m, a
<1>5. a \in Attempt /\ a.status = status /\ a.error_code = error /\ a.reconciliation = task.attempts[n].reconciliation
  BY Zenon, <1>3, <1>4 DEF Attempt, RunErrors
<1>6. attempts \in Seq(Attempt)
  BY Zenon, <1>2, <1>5, PutInSeq
<1> HIDE DEF attempts, t
<1>7. t \in Task /\ t.status = task.status /\ t.attempts = attempts
  BY Zenon, <1>1, <1>6, AttemptsTask
<1> QED
  BY Zenon, <1>5, <1>7 DEF attempts, t, a

(* A running task whose last attempt failed *)
LEMMA FailedTask ==
  ASSUME NEW old \in Task, History(old), old.status = "RUNNING", NEW n, n = Len(old.attempts),
         NEW error \in RunErrors
  PROVE  LET ended == EndedTask(old, n, "FAILED", error)
         IN /\ ClearLease(ended) \in Task
            /\ \A task \in Task :
                 task.status \in {"READY", "FAILED"} /\ task.attempts = ClearLease(ended).attempts =>
                   TaskStep(old, task) /\ RunsOn(old, task)
<1> DEFINE ended == EndedTask(old, n, "FAILED", error)
           a == Ended(old.attempts[n], "FAILED", error)
<1>1. n \in 1 .. Len(old.attempts)
  BY Zenon, RunningLast
<1>2. /\ a \in Attempt /\ a.status = "FAILED" /\ a.reconciliation = old.attempts[n].reconciliation
      /\ ended \in Task /\ ended.attempts = [old.attempts EXCEPT ![n] = a]
  <2>1. "FAILED" \in {"FAILED", "TIMED_OUT"} /\ n \in 1 .. Len(old.attempts)
    BY <1>1
  <2> QED
    BY <2>1, EndedAttempt
<1> HIDE DEF ended, a
<1>3. ClearLease(ended) \in Task /\ ClearLease(ended).attempts = ended.attempts
  BY Zenon, <1>2, ClearLeaseTask
<1>4. ASSUME NEW task \in Task, task.status \in {"READY", "FAILED"}, task.attempts = ended.attempts
      PROVE  TaskStep(old, task) /\ RunsOn(old, task)
  <2>1. /\ task.attempts = [old.attempts EXCEPT ![Len(old.attempts)] = a]
        /\ a.reconciliation = old.attempts[Len(old.attempts)].reconciliation
    BY Zenon, <1>2, <1>4
  <2>2. TaskStep(old, task)
    BY Zenon, <1>2, <1>4, <2>1, EndStep
  <2> QED
    BY Zenon, <1>4, <2>2 DEF RunsOn
<1>5. /\ ClearLease(ended) \in Task
      /\ \A task \in Task :
           task.status \in {"READY", "FAILED"} /\ task.attempts = ClearLease(ended).attempts =>
             TaskStep(old, task) /\ RunsOn(old, task)
  BY Zenon, <1>3, <1>4
<1> QED
  BY Zenon, <1>5 DEF ended

(* _finalize_execution_failure *)
LEMMA FailureHistory ==
  ASSUME IInv, HInv, IInv', NEW p \in Workers, NEW error \in RunErrors, FinalizeExecutionFailure(p, error)
  PROVE  HStep
<1> DEFINE w == worker[p].wf
           i == worker[p].pos
           n == worker[p].attempt
           ended == EndedTask(tasks[w][i], n, "FAILED", error)
           failed == ClearLease(ended)
           again == [failed EXCEPT !.status = "READY"]
           over == DeactivateGrant([failed EXCEPT !.status = "FAILED"])
           row == Transition(workflow[w], "FAILED")
<1>1. /\ w \in Workflows /\ i \in Positions(w)
      /\ tasks[w][i] \in Task /\ History(tasks[w][i]) /\ tasks[w][i].status = "RUNNING"
      /\ n = Len(tasks[w][i].attempts) /\ n \in 1 .. Len(tasks[w][i].attempts)
      /\ workflow[w] \in WorkflowRow /\ ~AwaitsHuman(workflow[w])
  BY Zenon, HeldRun DEF FinalizeExecutionFailure
<1>2. /\ \/ tasks' = [tasks EXCEPT ![w] = PutTask(w, i, again)] /\ UNCHANGED workflow
         \/ /\ tasks' = [tasks EXCEPT ![w] = PutTask(w, i, over)]
            /\ workflow' = [workflow EXCEPT ![w] = row]
      /\ worker' = [worker EXCEPT ![p] = Idle]
  BY Zenon DEF FinalizeExecutionFailure, HeldTask, EndedTask
<1>3. /\ failed \in Task
      /\ \A task \in Task : task.status \in {"READY", "FAILED"} /\ task.attempts = failed.attempts =>
           TaskStep(tasks[w][i], task) /\ RunsOn(tasks[w][i], task)
  BY Zenon, <1>1, FailedTask
<1> HIDE DEF failed
<1>4. CASE tasks' = [tasks EXCEPT ![w] = PutTask(w, i, again)] /\ UNCHANGED workflow
  <2>1. again \in Task /\ again.status = "READY" /\ again.attempts = failed.attempts
    BY Zenon, <1>3, StatusTask DEF TaskStatus
  <2> HIDE DEF again
  <2>2. TaskStep(tasks[w][i], again) /\ RunsOn(tasks[w][i], again) /\ tasks[w][i].status \in LiveStatus
    BY Zenon, <1>1, <1>3, <2>1 DEF LiveStatus
  <2> QED
    BY Zenon, <1>1, <1>2, <1>4, <2>2, Forgets, LiveTaskStep
<1>5. CASE tasks' = [tasks EXCEPT ![w] = PutTask(w, i, over)] /\ workflow' = [workflow EXCEPT ![w] = row]
  <2> DEFINE closed == [failed EXCEPT !.status = "FAILED"]
  <2>1. closed \in Task /\ closed.status = "FAILED" /\ closed.attempts = failed.attempts
    BY Zenon, <1>3, StatusTask DEF TaskStatus
  <2> HIDE DEF closed
  <2>2. /\ DeactivateGrant(closed) \in Task /\ DeactivateGrant(closed).status = "FAILED"
        /\ DeactivateGrant(closed).attempts = failed.attempts
    BY Zenon, <2>1, DeactivateGrantTask
  <2>3. over = DeactivateGrant(closed)
    BY Zenon DEF closed
  <2> HIDE DEF over
  <2>4. TaskStep(tasks[w][i], over) /\ RunsOn(tasks[w][i], over)
    BY Zenon, <1>3, <2>2, <2>3
  <2>5. row.state = "FAILED"
    BY Zenon, <1>1, TransitionRow DEF WorkflowState
  <2> HIDE DEF row
  <2> QED
    BY Zenon, <1>1, <1>2, <1>5, <2>4, <2>5, Forgets, OneTaskStep DEF AwaitsHuman
<1> QED
  BY Zenon, <1>2, <1>4, <1>5

(* _advance_after_task never blocks a workflow *)
LEMMA AdvancedRow ==
  ASSUME NEW row \in WorkflowRow, NEW kind \in TaskKind
  PROVE  ~AwaitsHuman(AdvanceRow(row, kind))
<1> DEFINE mid == Transition(row, "APPROVED_FOR_IMPLEMENTATION")
           new == AdvanceRow(row, kind)
<1>1. NextState[kind] \in WorkflowState /\ NextState[kind] # "BLOCKED" /\ "APPROVED_FOR_IMPLEMENTATION" \in WorkflowState
  BY Zenon, AdvanceTable, StageTransitions DEF WorkflowState
<1>2. mid \in WorkflowRow
  BY Zenon, <1>1, TransitionRow
<1>3. new = Transition(mid, NextState[kind]) \/ new = Transition(row, NextState[kind])
  BY Zenon DEF AdvanceRow
<1> HIDE DEF mid, new
<1>4. new.state = NextState[kind]
  BY <1>1, <1>2, <1>3, TransitionRow
<1> QED
  BY Zenon, <1>1, <1>4 DEF AwaitsHuman, new

(* The task of a successful result *)
SucceededTask(task, n, c, size) ==
  [task EXCEPT !.status = "SUCCEEDED",
               !.attempts[n] = [@ EXCEPT !.status = "SUCCEEDED", !.artifact = c, !.output = size]]

LEMMA SucceededHistory ==
  ASSUME NEW old \in Task, History(old), old.status = "RUNNING", NEW n, n = Len(old.attempts),
         NEW c \in Revisions \cup {None}, NEW size \in OutputSizes
  PROVE  LET task == DeactivateGrant(ClearLease(SucceededTask(old, n, c, size)))
         IN task \in Task /\ TaskStep(old, task) /\ RunsOn(old, task) /\ Released(task)
<1> DEFINE a == [old.attempts[n] EXCEPT !.status = "SUCCEEDED", !.artifact = c, !.output = size]
           m == [old EXCEPT !.status = "SUCCEEDED"]
           attempts == [old.attempts EXCEPT ![n] = a]
           done == SucceededTask(old, n, c, size)
           task == DeactivateGrant(ClearLease(done))
<1>1. n \in 1 .. Len(old.attempts)
  BY Zenon, RunningLast
<1>2. old.attempts[n] \in Attempt /\ old.attempts \in Seq(Attempt)
  BY <1>1 DEF Task
<1>3. a \in Attempt
  BY Zenon, <1>2, SucceedAttempt
<1>4. a.status = "SUCCEEDED" /\ a.reconciliation = old.attempts[n].reconciliation
  BY Zenon, <1>2 DEF Attempt
<1>5. done = [m EXCEPT !.attempts = attempts]
  BY Zenon DEF Task, SucceededTask
<1> HIDE DEF a
<1>6. m \in Task /\ m.status = "SUCCEEDED"
  BY Zenon, StatusTask DEF TaskStatus
<1>7. attempts \in Seq(Attempt)
  BY Zenon, <1>1, <1>2, <1>3, PutInSeq
<1>8. attempts = [old.attempts EXCEPT ![Len(old.attempts)] = a]
  BY Zenon
<1> HIDE DEF m, done, attempts
<1>9. done \in Task /\ done.status = "SUCCEEDED" /\ done.attempts = attempts
  BY Zenon, <1>5, <1>6, <1>7, AttemptsTask
<1>10. task \in Task /\ task.status = "SUCCEEDED" /\ task.attempts = attempts
  BY ZenonT(30), <1>9, ClearLeaseTask, DeactivateGrantTask
<1> HIDE DEF task
<1>11. task.attempts = [old.attempts EXCEPT ![Len(old.attempts)] = a]
         /\ a.reconciliation = old.attempts[Len(old.attempts)].reconciliation
  BY Zenon, <1>4, <1>8, <1>10
<1>12. TaskStep(old, task)
  BY Zenon, <1>3, <1>4, <1>10, <1>11, EndStep
<1>13. Released(task) /\ RunsOn(old, task)
  BY Zenon, <1>10, <1>12 DEF TaskStep, History, Released, RunsOn
<1> QED
  BY Zenon, <1>10, <1>12, <1>13 DEF task, done

(* _finalize_execution_success with _advance_after_task *)
LEMMA SuccessHistory ==
  ASSUME IInv, HInv, IInv', NEW p \in Workers, NEW revision \in Revisions, NEW size \in OutputSizes,
         FinalizeExecutionSuccess(p, revision, size)
  PROVE  HStep
<1> DEFINE w == worker[p].wf
           i == worker[p].pos
           n == worker[p].attempt
           kind == tasks[w][i].kind
           row == IF kind = "IMPLEMENT"
                  THEN [workflow[w] EXCEPT !.candidate_revision = revision]
                  ELSE workflow[w]
           task == DeactivateGrant(ClearLease(SucceededTask(tasks[w][i], n, row.candidate_revision, size)))
           new == AdvanceRow(row, kind)
           put == PutTask(w, i, task)
           us == put \o FollowingTasks(kind)
<1>1. /\ w \in Workflows /\ i \in Positions(w)
      /\ tasks[w][i] \in Task /\ History(tasks[w][i]) /\ tasks[w][i].status = "RUNNING"
      /\ n = Len(tasks[w][i].attempts) /\ n \in 1 .. Len(tasks[w][i].attempts)
      /\ workflow[w] \in WorkflowRow
  BY Zenon, HeldRun DEF FinalizeExecutionSuccess
<1>2. /\ workflow' = [workflow EXCEPT ![w] = new] /\ tasks' = [tasks EXCEPT ![w] = us]
      /\ worker' = [worker EXCEPT ![p] = Idle]
  BY Zenon DEF FinalizeExecutionSuccess, HeldTask, SucceededTask
<1>3. /\ tasks[w] \in Seq(Task) /\ i \in 1 .. Len(tasks[w]) /\ i = Len(tasks[w]) /\ kind \in TaskKind
      /\ \A j \in 1 .. Len(tasks[w]) : History(tasks[w][j])
  BY Zenon, <1>1, TaskFacts, HistoryFacts DEF LiveStatus, Task
<1>4. row \in WorkflowRow /\ row.candidate_revision \in Revisions \cup {None}
  BY Zenon, <1>1 DEF WorkflowRow
<1> HIDE DEF row
<1>5. ~AwaitsHuman(new)
  BY Zenon, <1>3, <1>4, AdvancedRow
<1>6. task \in Task /\ TaskStep(tasks[w][i], task) /\ RunsOn(tasks[w][i], task) /\ Released(task)
  BY Zenon, <1>1, <1>4, SucceededHistory
<1> HIDE DEF task, new
<1>7. KeepsTasks(tasks[w], put) /\ Len(put) = Len(tasks[w])
  BY Zenon, <1>3, <1>6, PutHistory DEF PutTask
<1>8. put \in Seq(Task) /\ \A j \in 1 .. Len(tasks[w]) : put[j] = IF j = i THEN task ELSE tasks[w][j]
  BY <1>3, <1>6, PutInSeq DEF PutTask
<1> HIDE DEF put
<1>9. KeepsTasks(tasks[w], us) /\ \A j \in 1 .. Len(tasks[w]) : us[j] = put[j]
  <2>1. CASE kind = "CODE_REVIEW"
    <3>1. us = put
      BY <1>3, <1>8, <2>1, AdvanceTable
    <3> QED
      BY Zenon, <1>7, <3>1
  <2>2. CASE kind # "CODE_REVIEW"
    <3>1. PICK next \in TaskKind : FollowingTasks(kind) = <<NewTask(next)>>
      BY Zenon, <1>3, <2>2, AdvanceTable
    <3>2. us = Append(put, NewTask(next))
      BY Zenon, <1>8, <3>1, NewTaskFits, ConcatOne
    <3> HIDE DEF us
    <3>3. \A j \in 1 .. Len(tasks[w]) : us[j] = put[j]
      BY <1>7, <1>8, <3>2, NewTaskFits, AppendToSeq
    <3>4. \A j \in 1 .. Len(tasks[w]) : j = Len(tasks[w]) => Released(put[j])
      BY Zenon, <1>3, <1>6, <1>8
    <3> QED
      BY Zenon, <1>3, <1>7, <1>8, <3>2, <3>3, <3>4, AppendHistory
  <2> QED
    BY Zenon, <2>1, <2>2
<1> HIDE DEF us
<1>10. \A j \in 1 .. Len(tasks[w]) : RunsOn(tasks[w][j], us[j])
  BY Zenon, <1>6, <1>8, <1>9 DEF RunsOn
<1> QED
  BY Zenon, <1>1, <1>2, <1>5, <1>9, <1>10, Forgets, QuietStep

(* A running task whose last attempt timed out *)
LEMMA TimedOutTask ==
  ASSUME NEW old \in Task, History(old), old.status = "RUNNING", NEW n, n = Len(old.attempts),
         NEW error \in RunErrors \cup {"LeaseExpired"}, error = "LeaseExpired"
  PROVE  LET ended == EndedTask(old, n, "TIMED_OUT", error)
         IN /\ ended \in Task
            /\ \A task \in Task : task.status = "BLOCKED" /\ task.attempts = ended.attempts =>
                 TaskStep(old, task) /\ RunsOn(old, task) /\ Undecided(task)
<1> DEFINE ended == EndedTask(old, n, "TIMED_OUT", error)
           a == Ended(old.attempts[n], "TIMED_OUT", error)
<1>1. n \in 1 .. Len(old.attempts) /\ old.attempts \in Seq(Attempt)
  BY Zenon, RunningLast DEF Task
<1>2. /\ a \in Attempt /\ a.status = "TIMED_OUT" /\ a.error_code = error
      /\ a.reconciliation = old.attempts[n].reconciliation
      /\ ended \in Task /\ ended.attempts = [old.attempts EXCEPT ![n] = a]
  <2>1. "TIMED_OUT" \in {"FAILED", "TIMED_OUT"} /\ n \in 1 .. Len(old.attempts)
    BY <1>1
  <2> QED
    BY <2>1, EndedAttempt
<1> HIDE DEF ended, a
<1>3. ASSUME NEW task \in Task, task.status = "BLOCKED", task.attempts = ended.attempts
      PROVE  TaskStep(old, task) /\ RunsOn(old, task) /\ Undecided(task)
  <2>1. /\ task.attempts = [old.attempts EXCEPT ![Len(old.attempts)] = a]
        /\ a.reconciliation = old.attempts[Len(old.attempts)].reconciliation
    BY Zenon, <1>2, <1>3
  <2>2. TaskStep(old, task) /\ a.reconciliation = "NULL" /\ Len(task.attempts) = Len(old.attempts)
    BY Zenon, <1>2, <1>3, <2>1, EndStep
  <2>3. task.attempts[n] = a
    BY <1>1, <1>2, <1>3, PutInSeq
  <2>4. Undecided(task)
    BY <1>1, <1>2, <1>3, <2>2, <2>3 DEF Undecided
  <2> QED
    BY Zenon, <1>3, <2>2, <2>4 DEF RunsOn
<1>4. /\ ended \in Task
      /\ \A task \in Task : task.status = "BLOCKED" /\ task.attempts = ended.attempts =>
           TaskStep(old, task) /\ RunsOn(old, task) /\ Undecided(task)
  BY Zenon, <1>2, <1>3
<1> QED
  BY Zenon, <1>4 DEF ended

(* What the sweep makes of an expired task: a running one is undecided *)
LEMMA ReclaimedHistory ==
  ASSUME NEW task \in Task, History(task), Expired(task)
  PROVE  /\ TaskStep(task, ReclaimTask(task)) /\ RunsOn(task, ReclaimTask(task))
         /\ task.status = "RUNNING" => Undecided(ReclaimTask(task))
<1>1. CASE task.status = "LEASED"
  <2> DEFINE ready == [task EXCEPT !.status = "READY"]
  <2>1. ReclaimTask(task) = ClearLease(ready)
    BY Zenon, <1>1 DEF ReclaimTask
  <2>2. ready \in Task /\ ready.status = "READY" /\ ready.attempts = task.attempts
    BY Zenon, StatusTask DEF TaskStatus
  <2> HIDE DEF ready
  <2>3. ReclaimTask(task) \in Task /\ ReclaimTask(task).status = "READY" /\ ReclaimTask(task).attempts = task.attempts
    BY Zenon, <2>1, <2>2, ClearLeaseTask
  <2> QED
    BY Zenon, <1>1, <2>3, StatusStep DEF RunsOn, LiveStatus
<1>2. CASE task.status = "RUNNING"
  <2> DEFINE l == Len(task.attempts)
             running == {n \in DOMAIN task.attempts : task.attempts[n].status = "RUNNING"}
             newest == CHOOSE n \in running : \A m \in running : m <= n
             timed_out == IF running = {} THEN task ELSE EndedTask(task, newest, "TIMED_OUT", "LeaseExpired")
             blocked == [timed_out EXCEPT !.status = "BLOCKED"]
             new == DeactivateGrant(ClearLease(blocked))
  <2>1. ReclaimTask(task) = new
    BY Zenon, <1>2 DEF ReclaimTask, EndedTask
  <2>2. l \in 1 .. l /\ DOMAIN task.attempts = 1 .. l /\ l \in Nat
    BY <1>2, RunningLast DEF Task
  <2>3. \A n : n \in running <=> n = l
    BY Zenon, <1>2, <2>2, RunningLast
  <2> HIDE DEF running
  <2>4. newest = l
    BY <2>2, <2>3
  <2>5. timed_out = EndedTask(task, l, "TIMED_OUT", "LeaseExpired")
    BY Zenon, <2>3, <2>4
  <2> HIDE DEF newest, timed_out
  <2>6. /\ timed_out \in Task
        /\ \A t \in Task : t.status = "BLOCKED" /\ t.attempts = timed_out.attempts =>
             TaskStep(task, t) /\ RunsOn(task, t) /\ Undecided(t)
    BY Zenon, <1>2, <2>5, TimedOutTask
  <2>7. blocked \in Task /\ blocked.status = "BLOCKED" /\ blocked.attempts = timed_out.attempts
    BY Zenon, <2>6, StatusTask DEF TaskStatus
  <2> HIDE DEF blocked
  <2>8. new \in Task /\ new.status = "BLOCKED" /\ new.attempts = timed_out.attempts
    BY ZenonT(30), <2>7, ClearLeaseTask, DeactivateGrantTask
  <2> HIDE DEF new
  <2> QED
    BY Zenon, <2>1, <2>6, <2>8
<1> QED
  BY Zenon, <1>1, <1>2 DEF Expired

(* reclaim_expired_tasks *)
LEMMA ReclaimHistory ==
  ASSUME IInv, HInv, IInv', NEW p \in Workers, NEW swept \in SUBSET ExpiredTasks, ReclaimExpiredTasks(p, swept)
  PROVE  HStep
<1> DEFINE running(w) == {i \in Positions(w) : <<w, i>> \in swept /\ tasks[w][i].status = "RUNNING"}
<1>1. /\ \A w \in Workflows :
           /\ workflow'[w] = IF running(w) # {} THEN BlockForReconciliation(workflow[w]) ELSE workflow[w]
           /\ tasks'[w] = [i \in Positions(w) |->
                             IF <<w, i>> \in swept THEN ReclaimTask(tasks[w][i]) ELSE tasks[w][i]]
      /\ UNCHANGED worker
  BY Zenon DEF ReclaimExpiredTasks
<1>2. \A w \in Workflows : \A i \in Positions(w) : <<w, i>> \in swept => Expired(tasks[w][i])
  BY DEF ExpiredTasks
<1>3. ASSUME NEW w \in Workflows
      PROVE  /\ Len(tasks'[w]) = Len(tasks[w]) /\ Len(tasks[w]) \in Nat
             /\ \A i \in 1 .. Len(tasks[w]) :
                  TaskStep(tasks[w][i], tasks'[w][i]) /\ RunsOn(tasks[w][i], tasks'[w][i])
  <2>1. /\ Positions(w) = 1 .. Len(tasks[w]) /\ Len(tasks[w]) \in Nat
        /\ \A i \in Positions(w) : tasks[w][i] \in Task /\ History(tasks[w][i])
    BY Zenon, HistoryFacts
  <2>2. tasks'[w] \in Seq(Task)
    BY Zenon DEF IInv, TypeOK
  <2>3. DOMAIN tasks'[w] = Positions(w)
    BY Zenon, <1>1
  <2>4. Len(tasks'[w]) = Len(tasks[w])
    BY Zenon, <2>1, <2>2, <2>3, DomainLen
  <2>5. ASSUME NEW i \in Positions(w)
        PROVE  TaskStep(tasks[w][i], tasks'[w][i]) /\ RunsOn(tasks[w][i], tasks'[w][i])
    <3>1. tasks'[w][i] = IF <<w, i>> \in swept THEN ReclaimTask(tasks[w][i]) ELSE tasks[w][i]
      BY Zenon, <1>1
    <3>2. CASE <<w, i>> \in swept
      <4>1. TaskStep(tasks[w][i], ReclaimTask(tasks[w][i])) /\ RunsOn(tasks[w][i], ReclaimTask(tasks[w][i]))
        BY Zenon, <1>2, <2>1, <3>2, ReclaimedHistory
      <4> QED
        BY Zenon, <3>1, <3>2, <4>1
    <3>3. CASE <<w, i>> \notin swept
      BY Zenon, <2>1, <3>1, <3>3, SameTaskStep
    <3> QED
      BY Zenon, <3>2, <3>3
  <2> QED
    BY Zenon, <2>1, <2>4, <2>5
<1>4. \A w \in Workflows : KeepsTasks(tasks[w], tasks'[w])
  BY <1>3 DEF KeepsTasks
<1>5. ASSUME NEW w \in Workflows, AwaitsHuman(workflow'[w])
      PROVE  Len(tasks'[w]) > 0 /\ Undecided(tasks'[w][Len(tasks'[w])])
  <2>1. CASE running(w) = {}
    <3>1. workflow'[w] = workflow[w] /\ AwaitsHuman(workflow[w])
      BY Zenon, <1>1, <1>5, <2>1
    <3>2. Len(tasks[w]) > 0 /\ Undecided(tasks[w][Len(tasks[w])])
      BY Zenon, <3>1 DEF HInv, HistoryFits
    <3>3. Len(tasks[w]) \in Positions(w)
      BY <3>2, HistoryFacts
    <3>4. <<w, Len(tasks[w])>> \notin swept
      BY Zenon, <1>2, <3>2, <3>3 DEF Expired, Undecided
    <3>5. tasks'[w][Len(tasks[w])] = tasks[w][Len(tasks[w])]
      BY Zenon, <1>1, <3>3, <3>4
    <3> QED
      BY Zenon, <1>3, <3>2, <3>5
  <2>2. CASE running(w) # {}
    <3>1. PICK i \in Positions(w) : <<w, i>> \in swept /\ tasks[w][i].status = "RUNNING"
      BY Zenon, <2>2
    <3>2. i = Len(tasks[w]) /\ tasks[w][i] \in Task /\ History(tasks[w][i]) /\ Expired(tasks[w][i])
      BY Zenon, <1>2, <3>1, TaskFacts, HistoryFacts DEF LiveStatus
    <3>3. tasks'[w][i] = ReclaimTask(tasks[w][i])
      BY Zenon, <1>1, <3>1
    <3>4. Undecided(tasks'[w][i])
      BY Zenon, <3>1, <3>2, <3>3, ReclaimedHistory
    <3>5. Len(tasks[w]) > 0
      BY <3>2, HistoryFacts
    <3> QED
      BY Zenon, <1>3, <3>2, <3>4, <3>5
  <2> QED
    BY Zenon, <2>1, <2>2
<1>6. \A w \in Workflows : HistoryFits(workflow'[w], tasks'[w])
  BY Zenon, <1>4, <1>5, AllHistories
<1>7. TokensApart' /\ \A q \in Workers : AttemptFits(q)'
  BY Zenon, <1>1, <1>3, LeasesKept DEF Positions
<1> QED
  BY Zenon, <1>4, <1>6, <1>7 DEF HStep, HInv

(* create_workflow and disposition_workflow: there is no task yet *)
LEMMA CreateHistory ==
  ASSUME IInv, HInv, IInv', NEW w \in Workflows, NEW suspicious \in BOOLEAN, CreateWorkflow(w, suspicious)
  PROVE  HStep
<1> DEFINE us == IF suspicious THEN <<>> ELSE <<NewTask("PLAN")>>
<1>1. PICK row : /\ workflow' = [workflow EXCEPT ![w] = row]
                 /\ row = Transition([state |-> "CREATED", version |-> 1,
                            block_reason |-> IF suspicious THEN "INPUT_DISPOSITION_REQUIRED" ELSE "NULL",
                            containment_required |-> suspicious, candidate_revision |-> None,
                            disposition |-> "NULL", merge_approval |-> None],
                            IF suspicious THEN "BLOCKED" ELSE "PLANNING")
  BY Zenon DEF CreateWorkflow
<1>2. tasks' = [tasks EXCEPT ![w] = us] /\ UNCHANGED worker /\ workflow[w] = None
  BY Zenon DEF CreateWorkflow, Created
<1>3. ~AwaitsHuman(row)
  BY Zenon, <1>1 DEF Transition, AwaitsHuman
<1>4. tasks[w] = <<>>
  BY Zenon, <1>2 DEF IInv, Consistent
<1>5. NewTask("PLAN").attempts = <<>> /\ NewTask("PLAN").status = "READY"
  BY Zenon DEF NewTask
<1>6. KeepsTasks(tasks[w], us)
  BY <1>4, <1>5 DEF KeepsTasks
<1>7. \A i \in 1 .. Len(tasks[w]) : RunsOn(tasks[w][i], us[i])
  BY <1>4
<1> HIDE DEF us
<1> QED
  BY Zenon, <1>1, <1>2, <1>3, <1>6, <1>7, QuietStep

LEMMA DispositionHistory ==
  ASSUME IInv, HInv, IInv', NEW w \in Workflows, NEW decision \in {"RESUME", "REJECT"},
         DispositionWorkflow(w, decision)
  PROVE  HStep
<1> DEFINE rejected == Transition([workflow[w] EXCEPT !.disposition = decision, !.block_reason = "INPUT_REJECTED"],
                                  "REJECTED")
           resumed == Transition([workflow[w] EXCEPT !.disposition = decision, !.block_reason = "NULL",
                                                     !.containment_required = TRUE], "PLANNING")
           us == Append(tasks[w], NewTask("PLAN"))
<1>1. /\ Created(w) /\ workflow[w].block_reason = "INPUT_DISPOSITION_REQUIRED" /\ UNCHANGED worker
      /\ \/ workflow' = [workflow EXCEPT ![w] = rejected] /\ UNCHANGED tasks
         \/ workflow' = [workflow EXCEPT ![w] = resumed] /\ tasks' = [tasks EXCEPT ![w] = us]
  BY Zenon DEF DispositionWorkflow
<1>2. workflow[w] \in WorkflowRow /\ tasks[w] = <<>>
  BY Zenon, <1>1, RowFacts DEF Consistent
<1>3. rejected.state = "REJECTED" /\ resumed.state = "PLANNING"
  BY Zenon, <1>2 DEF Transition, WorkflowRow
<1>4. ~AwaitsHuman(rejected) /\ ~AwaitsHuman(resumed)
  BY Zenon, <1>3 DEF AwaitsHuman
<1>5. NewTask("PLAN").attempts = <<>> /\ NewTask("PLAN").status = "READY"
  BY Zenon DEF NewTask
<1>6. KeepsTasks(tasks[w], us) /\ KeepsTasks(tasks[w], tasks[w])
  BY <1>2, <1>5 DEF KeepsTasks
<1>7. \A i \in 1 .. Len(tasks[w]) : RunsOn(tasks[w][i], us[i]) /\ RunsOn(tasks[w][i], tasks[w][i])
  BY <1>2
<1> HIDE DEF us, rejected, resumed
<1>8. CASE workflow' = [workflow EXCEPT ![w] = rejected] /\ UNCHANGED tasks
  <2>1. tasks' = [tasks EXCEPT ![w] = tasks[w]]
    BY Zenon, <1>8 DEF IInv, TypeOK
  <2> QED
    BY Zenon, <1>1, <1>4, <1>6, <1>7, <1>8, <2>1, QuietStep
<1>9. CASE workflow' = [workflow EXCEPT ![w] = resumed] /\ tasks' = [tasks EXCEPT ![w] = us]
  BY Zenon, <1>1, <1>4, <1>6, <1>7, <1>9, QuietStep
<1> QED
  BY Zenon, <1>1, <1>8, <1>9

(* The task a human has decided about *)
ReconciledTask(task, n, decision) ==
  [task EXCEPT !.status = "RECONCILED", !.attempts[n].reconciliation = decision]

LEMMA ReconciledHistory ==
  ASSUME NEW old \in Task, History(old), old.status = "BLOCKED", NEW n, n = AbandonedAttempt(old), n # 0,
         old.attempts[n].reconciliation = "NULL", NEW decision \in {"RETRY", "FAIL"}
  PROVE  LET task == ReconciledTask(old, n, decision)
         IN /\ task \in Task /\ TaskStep(old, task) /\ RunsOn(old, task)
            /\ decision = "RETRY" => Released(task)
<1> DEFINE a == [old.attempts[n] EXCEPT !.reconciliation = decision]
           m == [old EXCEPT !.status = "RECONCILED"]
           attempts == [old.attempts EXCEPT ![n] = a]
           task == ReconciledTask(old, n, decision)
<1>1. n = Len(old.attempts) /\ n \in 1 .. n /\ n \in 1 .. Len(old.attempts) /\ old.attempts[n].status = "TIMED_OUT"
  BY Zenon, Abandoned
<1>2. old.attempts \in Seq(Attempt) /\ old.attempts[n] \in Attempt
  BY <1>1 DEF Task
<1>3. a \in Attempt
  BY Zenon, <1>2 DEF Attempt
<1>4. task = [m EXCEPT !.attempts = attempts]
  BY Zenon DEF ReconciledTask, Task
<1>5. m \in Task /\ m.status = "RECONCILED"
  BY Zenon, StatusTask DEF TaskStatus
<1>6. attempts \in Seq(Attempt)
  BY Zenon, <1>1, <1>2, <1>3, PutInSeq
<1> HIDE DEF m, task
<1>7. task \in Task /\ task.status = "RECONCILED" /\ task.attempts = attempts
  <2> HIDE DEF attempts
  <2> QED
    BY Zenon, <1>4, <1>5, <1>6, AttemptsTask
<1>8. TaskStep(old, task) /\ (decision = "RETRY" => Released(task))
  BY Zenon, <1>1, <1>7, DecideStep
<1> QED
  BY Zenon, <1>7, <1>8 DEF RunsOn, task

(* reconcile_execution: work goes on only after RETRY *)
LEMMA ReconcileHistory ==
  ASSUME IInv, HInv, IInv', NEW w \in Workflows, NEW i \in Positions(w), NEW decision \in {"RETRY", "FAIL"},
         ReconcileExecution(w, i, decision)
  PROVE  HStep
<1> DEFINE n == AbandonedAttempt(tasks[w][i])
           task == ReconciledTask(tasks[w][i], n, decision)
           kind == tasks[w][i].kind
           closed == PutTask(w, i, task)
           retried == Transition([workflow[w] EXCEPT !.block_reason = "NULL"], TASK_WORKFLOW_STATE[kind])
           failed == Transition([workflow[w] EXCEPT !.block_reason = "EXECUTION_RECONCILED_FAILED"], "FAILED")
           us == Append(closed, NewTask(kind))
<1>1. /\ Created(w) /\ UNCHANGED worker
      /\ tasks[w][i].status = "BLOCKED" /\ n # 0 /\ tasks[w][i].attempts[n].reconciliation = "NULL"
      /\ \/ decision = "RETRY" /\ workflow' = [workflow EXCEPT ![w] = retried] /\ tasks' = [tasks EXCEPT ![w] = us]
         \/ workflow' = [workflow EXCEPT ![w] = failed] /\ tasks' = [tasks EXCEPT ![w] = closed]
  BY Zenon DEF ReconcileExecution, Reconcilable, ReconciledTask
<1>2. /\ workflow[w] \in WorkflowRow /\ tasks[w] \in Seq(Task) /\ i \in 1 .. Len(tasks[w])
      /\ tasks[w][i] \in Task /\ History(tasks[w][i]) /\ kind \in TaskKind /\ i = Len(tasks[w])
      /\ \A j \in 1 .. Len(tasks[w]) : History(tasks[w][j])
  BY Zenon, <1>1, RowFacts, HistoryFacts, TaskFacts DEF Task
<1>3. ~AwaitsHuman(retried) /\ ~AwaitsHuman(failed)
  <2>1. /\ TASK_WORKFLOW_STATE[kind] \in WorkflowState /\ "FAILED" \in WorkflowState
        /\ "NULL" \in BlockReason /\ "EXECUTION_RECONCILED_FAILED" \in BlockReason
    BY Zenon, <1>2, StageTransitions DEF BlockReason, WorkflowState
  <2>2. retried.block_reason = "NULL"
    BY <1>2, <2>1, TransitionWithReason
  <2>3. failed.block_reason = "EXECUTION_RECONCILED_FAILED"
    BY <1>2, <2>1, TransitionWithReason
  <2> QED
    BY Zenon, <2>2, <2>3 DEF AwaitsHuman
<1>4. /\ task \in Task /\ TaskStep(tasks[w][i], task) /\ RunsOn(tasks[w][i], task)
      /\ decision = "RETRY" => Released(task)
  BY Zenon, <1>1, <1>2, ReconciledHistory
<1> HIDE DEF task, n, retried, failed
<1>5. /\ closed \in Seq(Task) /\ KeepsTasks(tasks[w], closed) /\ Len(closed) = Len(tasks[w])
      /\ \A j \in 1 .. Len(tasks[w]) : closed[j] = IF j = i THEN task ELSE tasks[w][j]
  BY <1>2, <1>4, PutHistory, PutInSeq DEF PutTask
<1> HIDE DEF closed
<1>6. \A j \in 1 .. Len(tasks[w]) : RunsOn(tasks[w][j], closed[j])
  BY Zenon, <1>4, <1>5 DEF RunsOn
<1>7. CASE decision = "RETRY" /\ workflow' = [workflow EXCEPT ![w] = retried] /\ tasks' = [tasks EXCEPT ![w] = us]
  <2>1. \A j \in 1 .. Len(tasks[w]) : us[j] = closed[j]
    BY <1>2, <1>5, NewTaskFits, AppendToSeq
  <2>2. \A j \in 1 .. Len(tasks[w]) : j = Len(tasks[w]) => Released(closed[j])
    BY Zenon, <1>2, <1>4, <1>5, <1>7
  <2>3. KeepsTasks(tasks[w], us)
    BY Zenon, <1>2, <1>5, <2>2, AppendHistory
  <2> HIDE DEF us
  <2>4. \A j \in 1 .. Len(tasks[w]) : RunsOn(tasks[w][j], us[j])
    BY Zenon, <1>6, <2>1
  <2> QED
    BY Zenon, <1>1, <1>3, <1>7, <2>3, <2>4, QuietStep
<1>8. CASE workflow' = [workflow EXCEPT ![w] = failed] /\ tasks' = [tasks EXCEPT ![w] = closed]
  BY Zenon, <1>1, <1>3, <1>5, <1>6, <1>8, QuietStep
<1> QED
  BY Zenon, <1>1, <1>7, <1>8

(* approve touches no task *)
LEMMA ApproveHistory ==
  ASSUME IInv, HInv, IInv', NEW w \in Workflows, NEW revision \in Revisions,
         NEW decision \in {"APPROVED", "REJECTED"}, ApproveMerge(w, revision, decision)
  PROVE  HStep
<1> DEFINE noted == [workflow[w] EXCEPT !.merge_approval = [decision |-> decision, revision |-> revision]]
           row == Transition(noted, IF decision = "APPROVED" THEN "APPROVED" ELSE "REJECTED")
<1>1. /\ workflow[w] \in WorkflowRow /\ workflow' = [workflow EXCEPT ![w] = row] /\ UNCHANGED <<tasks, worker>>
  BY Zenon, RowFacts DEF ApproveMerge
<1>2. noted \in WorkflowRow
  BY Zenon, <1>1 DEF WorkflowRow
<1> HIDE DEF noted
<1>3. row.state \in {"APPROVED", "REJECTED"}
  BY Zenon, <1>2, TransitionRow DEF WorkflowState
<1> HIDE DEF row
<1>4. ~AwaitsHuman(row) /\ tasks' = [tasks EXCEPT ![w] = tasks[w]]
  BY Zenon, <1>1, <1>3 DEF AwaitsHuman, IInv, TypeOK
<1>5. KeepsTasks(tasks[w], tasks[w]) /\ \A i \in 1 .. Len(tasks[w]) : RunsOn(tasks[w][i], tasks[w][i])
  BY Zenon, HistoryFacts, SameHistory DEF RunsOn
<1> QED
  BY Zenon, <1>1, <1>4, <1>5, QuietStep

(* cancel_workflow leaves the attempts of the tasks it cancels alone *)
LEMMA CancelHistory ==
  ASSUME IInv, HInv, IInv', NEW w \in Workflows, CancelWorkflow(w)
  PROVE  HStep
<1> DEFINE row == Transition(workflow[w], "CANCELLED")
           stopped(task) == DeactivateGrant([task EXCEPT !.status = "CANCELLED"])
           us == [i \in Positions(w) |-> IF tasks[w][i].status \in LiveStatus THEN stopped(tasks[w][i]) ELSE tasks[w][i]]
<1>1. /\ workflow[w] \in WorkflowRow /\ workflow' = [workflow EXCEPT ![w] = row] /\ UNCHANGED worker
      /\ tasks' = [tasks EXCEPT ![w] = us]
  BY Zenon, RowFacts DEF CancelWorkflow, LiveStatus
<1>2. ~AwaitsHuman(row)
  BY Zenon, <1>1, TransitionRow DEF WorkflowState, AwaitsHuman
<1>3. /\ Positions(w) = 1 .. Len(tasks[w]) /\ Len(tasks[w]) \in Nat
      /\ \A i \in Positions(w) : tasks[w][i] \in Task /\ History(tasks[w][i])
  BY Zenon, HistoryFacts
<1>4. ASSUME NEW task \in Task, History(task), task.status \in LiveStatus
      PROVE  TaskStep(task, stopped(task)) /\ RunsOn(task, stopped(task))
  <2> DEFINE t == [task EXCEPT !.status = "CANCELLED"]
  <2>1. t \in Task /\ t.status = "CANCELLED" /\ t.attempts = task.attempts
    BY Zenon, StatusTask DEF TaskStatus
  <2> HIDE DEF t
  <2>2. DeactivateGrant(t) \in Task /\ DeactivateGrant(t).status = "CANCELLED" /\ DeactivateGrant(t).attempts = task.attempts
    BY Zenon, <2>1, DeactivateGrantTask
  <2>3. TaskStep(task, DeactivateGrant(t)) /\ RunsOn(task, DeactivateGrant(t))
    BY Zenon, <1>4, <2>2, StatusStep DEF RunsOn
  <2> QED
    BY Zenon, <2>3 DEF t
<1> HIDE DEF stopped, row
<1>5. \A i \in 1 .. Len(tasks[w]) : TaskStep(tasks[w][i], us[i]) /\ RunsOn(tasks[w][i], us[i])
  BY Zenon, <1>3, <1>4, SameTaskStep
<1>6. us \in Seq(Task) /\ DOMAIN us = Positions(w)
  <2>1. tasks'[w] = us /\ tasks'[w] \in Seq(Task)
    BY Zenon, <1>1 DEF IInv, TypeOK
  <2>2. DOMAIN us = Positions(w)
    BY Zenon
  <2> HIDE DEF us
  <2> QED
    BY Zenon, <2>1, <2>2
<1> HIDE DEF us
<1>7. Len(us) = Len(tasks[w])
  BY Zenon, <1>3, <1>6, DomainLen
<1>8. KeepsTasks(tasks[w], us)
  BY <1>3, <1>5, <1>7 DEF KeepsTasks
<1> QED
  BY Zenon, <1>1, <1>2, <1>5, <1>8, QuietStep
-----------------------------------------------------------------------------
(* The history holds *)

(* Every step of the core keeps the history *)
LEMMA NextHInv == IInv /\ HInv /\ [Next]_vars => HStep
<1> SUFFICES ASSUME IInv, HInv, [Next]_vars PROVE HStep
  BY Zenon
<1>1. IInv'
  BY Zenon, NextIInv
<1>2. ASSUME NEW p \in Workers, worker' = [worker EXCEPT ![p] = Idle], UNCHANGED <<workflow, tasks>> PROVE HStep
  BY Zenon, <1>1, <1>2, Forgets, ForgetHistory
<1>3. ASSUME NEW p \in Workers, WorkerStep(p) PROVE HStep
  <2>1. ASSUME NEW swept \in SUBSET ExpiredTasks, ReclaimExpiredTasks(p, swept) PROVE HStep
    BY Zenon, <1>1, <2>1, ReclaimHistory
  <2>2. ASSUME NEW w \in Workflows, NEW i \in Positions(w), LeaseNextTask(p, w, i) PROVE HStep
    BY Zenon, <1>1, <2>2, LeaseHistory
  <2>3. ASSUME NEW provider \in Providers, PrepareExecution(p, provider) PROVE HStep
    BY Zenon, <1>1, <2>3, PrepareHistory
  <2>4. CASE RoutingBlocked(p)
    BY Zenon, <1>1, <2>4, RoutingBlockedHistory
  <2>5. CASE PrepareRefused(p)
    BY Zenon, <1>2, <2>5 DEF PrepareRefused
  <2>6. CASE HeartbeatTask(p)
    BY Zenon, <1>1, <2>6, HeartbeatHistory
  <2>7. ASSUME NEW revision \in Revisions, NEW size \in OutputSizes, FinalizeExecutionSuccess(p, revision, size)
        PROVE  HStep
    BY Zenon, <1>1, <2>7, SuccessHistory
  <2>8. ASSUME NEW error \in RunErrors, FinalizeExecutionFailure(p, error) PROVE HStep
    BY Zenon, <1>1, <2>8, FailureHistory
  <2>9. CASE FinalizeRefused(p)
    BY Zenon, <1>2, <2>9 DEF FinalizeRefused
  <2> QED
    BY Zenon, <1>3, <2>1, <2>2, <2>3, <2>4, <2>5, <2>6, <2>7, <2>8, <2>9 DEF WorkerStep
<1>4. ASSUME NEW w \in Workflows, HumanStep(w) PROVE HStep
  <2>1. ASSUME NEW suspicious \in BOOLEAN, CreateWorkflow(w, suspicious) PROVE HStep
    BY Zenon, <1>1, <2>1, CreateHistory
  <2>2. ASSUME NEW decision \in {"RESUME", "REJECT"}, DispositionWorkflow(w, decision) PROVE HStep
    BY Zenon, <1>1, <2>2, DispositionHistory
  <2>3. ASSUME NEW i \in Positions(w), NEW decision \in {"RETRY", "FAIL"}, ReconcileExecution(w, i, decision)
        PROVE  HStep
    BY Zenon, <1>1, <2>3, ReconcileHistory
  <2>4. ASSUME NEW revision \in Revisions, NEW decision \in {"APPROVED", "REJECTED"},
               ApproveMerge(w, revision, decision)
        PROVE  HStep
    BY Zenon, <1>1, <2>4, ApproveHistory
  <2>5. CASE CancelWorkflow(w)
    BY Zenon, <1>1, <2>5, CancelHistory
  <2> QED
    BY Zenon, <1>4, <2>1, <2>2, <2>3, <2>4, <2>5 DEF HumanStep
<1>5. CASE Environment
  <2>1. ASSUME NEW p \in Workers, Crash(p) PROVE HStep
    BY Zenon, <1>2, <2>1 DEF Crash
  <2>2. ASSUME NEW w \in Workflows, NEW i \in Positions(w), LeaseTick(w, i) \/ GrantExpires(w, i) PROVE HStep
    BY Zenon, <1>1, <2>2, ClockHistory
  <2> QED
    BY Zenon, <1>5, <2>1, <2>2 DEF Environment
<1>6. CASE UNCHANGED vars
  BY Zenon, <1>1, <1>6, ForgetHistory DEF vars
<1> QED
  BY Zenon, <1>3, <1>4, <1>5, <1>6 DEF Next

(* In every behaviour of the core the attempts of each task are a history,   *)
(* an executing worker whose lease is its own holds the last attempt, and a  *)
(* workflow waits for a human only over an undecided attempt.                *)
THEOREM HistoryInductive == Spec => [](IInv /\ HInv)
<1>1. Init => IInv /\ HInv
  BY Zenon, InitIInv, InitHInv
<1>2. IInv /\ HInv /\ [Next]_vars => (IInv /\ HInv)'
  BY Zenon, NextIInv, NextHInv DEF HStep
<1> QED
  BY <1>1, <1>2, PTL DEF Spec

(* Leases fence (SingleExecutor), for any number of worker processes and any *)
(* interleaving of crashes, expiries and restarts: _validate_lease and       *)
(* _validate_running_lease let at most one process of a task through, and    *)
(* the attempt it ends is the only running one.                              *)
THEOREM LeasesFence == Spec => []SingleExecutor
<1>1. ASSUME IInv, HInv PROVE SingleExecutor
  <2> SUFFICES ASSUME NEW p \in Workers, PassesLeaseCheck(p)
               PROVE  /\ \A q \in Workers :
                           PassesLeaseCheck(q) /\ worker[q].wf = worker[p].wf /\ worker[q].pos = worker[p].pos => q = p
                      /\ worker[p].pc = "executing" =>
                           /\ worker[p].attempt = Len(HeldTask(p).attempts)
                           /\ \A n \in DOMAIN HeldTask(p).attempts :
                                HeldTask(p).attempts[n].status = "RUNNING" <=> n = worker[p].attempt
    BY Zenon DEF SingleExecutor
  <2>1. \A q \in Workers : PassesLeaseCheck(q) => worker[q].pc # "idle" /\ HeldTask(q).lease_token = worker[q].token
    BY Zenon DEF PassesLeaseCheck, HoldsLease
  <2>2. ASSUME NEW q \in Workers, PassesLeaseCheck(q), worker[q].wf = worker[p].wf, worker[q].pos = worker[p].pos
        PROVE  q = p
    <3>1. HeldTask(q) = HeldTask(p)
      BY Zenon, <2>2 DEF HeldTask
    <3> QED
      BY Zenon, <1>1, <2>1, <2>2, <3>1 DEF HInv, TokensApart
  <2>3. ASSUME worker[p].pc = "executing"
        PROVE  /\ worker[p].attempt = Len(HeldTask(p).attempts)
               /\ \A n \in DOMAIN HeldTask(p).attempts :
                    HeldTask(p).attempts[n].status = "RUNNING" <=> n = worker[p].attempt
    <3>1. HeldTask(p).status = "RUNNING" /\ HeldTask(p).lease_token = worker[p].token
      BY Zenon, <2>3 DEF PassesLeaseCheck, HoldsLease
    <3>2. worker[p].attempt = Len(HeldTask(p).attempts)
      BY Zenon, <1>1, <2>3, <3>1 DEF HInv, AttemptFits
    <3>3. HeldTask(p) \in Task /\ History(HeldTask(p))
      BY Zenon, <1>1, <2>3, HeldFacts, HistoryFacts DEF HeldTask
    <3>4. DOMAIN HeldTask(p).attempts = 1 .. Len(HeldTask(p).attempts)
      BY <3>3 DEF Task
    <3> QED
      BY Zenon, <3>1, <3>2, <3>3, <3>4, RunningLast
  <2> QED
    BY Zenon, <2>2, <2>3
<1> QED
  BY <1>1, HistoryInductive, PTL

(* What reclaim_expired_tasks abandons is never repeated without a human     *)
(* (UnknownOutcomeNeedsHuman).                                               *)
THEOREM UnknownOutcomes == Spec => []UnknownOutcomeNeedsHuman
<1>1. ASSUME IInv, HInv PROVE UnknownOutcomeNeedsHuman
  <2> SUFFICES ASSUME NEW w \in Workflows, NEW i \in Positions(w), NEW n \in DOMAIN tasks[w][i].attempts,
                      tasks[w][i].attempts[n].status = "TIMED_OUT"
               PROVE  /\ n = Len(tasks[w][i].attempts)
                      /\ tasks[w][i].status \in {"BLOCKED", "RECONCILED"}
                      /\ i < Len(tasks[w]) => tasks[w][i].attempts[n].reconciliation = "RETRY"
    BY Zenon DEF UnknownOutcomeNeedsHuman
  <2>1. tasks[w][i] \in Task /\ History(tasks[w][i]) /\ i \in 1 .. Len(tasks[w])
    BY Zenon, <1>1, HistoryFacts
  <2>2. n \in 1 .. Len(tasks[w][i].attempts)
    BY <2>1 DEF Task
  <2>3. i < Len(tasks[w]) => Released(tasks[w][i])
    BY Zenon, <1>1, <2>1 DEF HInv, HistoryFits
  <2> QED
    BY Zenon, <2>1, <2>2, <2>3 DEF History, Released
<1> QED
  BY <1>1, HistoryInductive, PTL

(* reconcile_execution accepts exactly one task of a workflow that           *)
(* reclaim_expired_tasks has blocked (BlockIsReconcilable).                  *)
THEOREM BlocksCanBeReleased == Spec => []BlockIsReconcilable
<1>1. ASSUME IInv, HInv PROVE BlockIsReconcilable
  <2> SUFFICES ASSUME NEW w \in Workflows, Created(w), workflow[w].state = "BLOCKED",
                      workflow[w].block_reason = "EXECUTION_RECONCILIATION_REQUIRED"
               PROVE  /\ Reconcilable(w, Len(tasks[w]))
                      /\ \A i \in Positions(w) : Reconcilable(w, i) => i = Len(tasks[w])
    BY Zenon DEF BlockIsReconcilable
  <2> DEFINE l == Len(tasks[w])
  <2>1. l > 0 /\ Undecided(tasks[w][l])
    BY Zenon, <1>1 DEF HInv, HistoryFits, AwaitsHuman, Created
  <2>2. l \in Positions(w) /\ tasks[w][l] \in Task /\ History(tasks[w][l])
    BY <1>1, <2>1, HistoryFacts
  <2>3. AbandonedAttempt(tasks[w][l]) = Len(tasks[w][l].attempts) /\ Len(tasks[w][l].attempts) # 0
    BY Zenon, <2>1, <2>2, Abandoned
  <2>4. Reconcilable(w, l)
    BY Zenon, <2>1, <2>3 DEF Reconcilable, Undecided
  <2>5. \A i \in Positions(w) : Reconcilable(w, i) => i = l
    BY Zenon, <1>1, TaskFacts DEF Reconcilable
  <2> QED
    BY Zenon, <2>4, <2>5
<1> QED
  BY <1>1, HistoryInductive, PTL

(* No step of the core loses an attempt or rewrites a finished one           *)
(* (FinishedAttemptsImmutable).                                              *)
THEOREM AttemptsAreHistory == Spec => FinishedAttemptsImmutable
<1> DEFINE Kept == \A w \in Workflows : \A i \in Positions(w) : \A n \in DOMAIN tasks[w][i].attempts :
                     LET old == tasks[w][i].attempts[n]
                         new == tasks'[w][i].attempts[n]
                     IN /\ i \in DOMAIN tasks'[w] /\ n \in DOMAIN tasks'[w][i].attempts
                        /\ old.status # "RUNNING" =>
                             \/ new = old
                             \/ old.reconciliation = "NULL" /\ new = [old EXCEPT !.reconciliation = new.reconciliation]
<1>1. ASSUME IInv, HInv, [Next]_vars PROVE Kept
  <2>1. HStep /\ IInv'
    BY Zenon, <1>1, NextHInv, NextIInv
  <2> SUFFICES ASSUME NEW w \in Workflows, NEW i \in Positions(w), NEW n \in DOMAIN tasks[w][i].attempts
               PROVE  /\ i \in DOMAIN tasks'[w] /\ n \in DOMAIN tasks'[w][i].attempts
                      /\ KeepsAttempt(tasks[w][i].attempts[n], tasks'[w][i].attempts[n])
    BY DEF KeepsAttempt
  <2>2. tasks[w][i] \in Task /\ i \in 1 .. Len(tasks[w]) /\ Len(tasks[w]) \in Nat
    BY Zenon, <1>1, HistoryFacts
  <2>3. n \in 1 .. Len(tasks[w][i].attempts) /\ Len(tasks[w][i].attempts) \in Nat
    BY <2>2 DEF Task
  <2>4. tasks'[w] \in Seq(Task)
    BY Zenon, <2>1 DEF IInv, TypeOK
  <2>5. Len(tasks[w]) <= Len(tasks'[w]) /\ TaskStep(tasks[w][i], tasks'[w][i])
    BY Zenon, <2>1, <2>2 DEF HStep, KeepsTasks
  <2>6. i \in DOMAIN tasks'[w] /\ tasks'[w][i] \in Task
    BY <2>2, <2>4, <2>5
  <2>7. n \in DOMAIN tasks'[w][i].attempts
    BY <2>3, <2>5, <2>6 DEF TaskStep, Task
  <2> QED
    BY Zenon, <2>3, <2>5, <2>6, <2>7 DEF TaskStep
<1>2. IInv /\ HInv /\ [Next]_vars => [Kept]_vars
  BY Zenon, <1>1
<1> QED
  BY <1>2, HistoryInductive, PTL DEF Spec, FinishedAttemptsImmutable
-----------------------------------------------------------------------------
(* The stages of a workflow: how the histories of its tasks relate *)

(* The order of the stages *)
Rank ==
  [kind \in TaskKind |->
    CASE kind = "PLAN"                -> 1
      [] kind = "ARCHITECTURE_REVIEW" -> 2
      [] kind = "IMPLEMENT"           -> 3
      [] kind = "TEST"                -> 4
      [] kind = "SECURITY_REVIEW"     -> 5
      [] kind = "CODE_REVIEW"         -> 6]

(* Tasks come in the order of the stages; after a success comes a later stage *)
InOrder(ts) ==
  \A i, j \in 1 .. Len(ts) : i < j =>
    /\ Rank[ts[i].kind] <= Rank[ts[j].kind]
    /\ ts[i].status = "SUCCEEDED" => Rank[ts[i].kind] < Rank[ts[j].kind]

(* Every stage before that of the last task has succeeded *)
StagesDone(ts) ==
  \A kind \in TaskKind : ts # <<>> /\ Rank[kind] < Rank[ts[Len(ts)].kind] =>
    \E i \in 1 .. Len(ts) : ts[i].kind = kind /\ ts[i].status = "SUCCEEDED"

(* An attempt at a task of this kind of a workflow with candidate revision c *)
AttemptEvidence(kind, a, c) ==
  /\ a.provider \in Providers \cup {None}
  /\ a.status \in {"RUNNING", "SUCCEEDED"} =>
       a.provider \in Providers /\ (kind \in NeedsCandidate => a.examined = c)
  /\ a.status = "SUCCEEDED" /\ kind \in NeedsCandidate \cup {"IMPLEMENT"} => a.artifact = c

Evidence(task, c) ==
  /\ \A n \in 1 .. Len(task.attempts) : AttemptEvidence(task.kind, task.attempts[n], c)
  /\ task.status = "SUCCEEDED" =>
       Len(task.attempts) > 0 /\ task.attempts[Len(task.attempts)].status = "SUCCEEDED"

(* No attempt at the review has the provider of an attempt that produced what *)
(* it reviews                                                                *)
Apart(review, producer) ==
  review.kind \in ReviewKind /\ producer.kind = REVIEW_PRODUCER_KIND[review.kind] =>
    \A n \in 1 .. Len(review.attempts), m \in 1 .. Len(producer.attempts) :
      producer.attempts[m].status = "SUCCEEDED" => review.attempts[n].provider # producer.attempts[m].provider

Stages(c, ts) ==
  /\ InOrder(ts)
  /\ StagesDone(ts)
  /\ \A i \in 1 .. Len(ts) : Evidence(ts[i], c)
  /\ \A i, j \in 1 .. Len(ts) : Apart(ts[i], ts[j])
-----------------------------------------------------------------------------
(* The tables *)

LEMMA Ranks ==
  /\ Rank["PLAN"] = 1 /\ Rank["ARCHITECTURE_REVIEW"] = 2 /\ Rank["IMPLEMENT"] = 3
  /\ Rank["TEST"] = 4 /\ Rank["SECURITY_REVIEW"] = 5 /\ Rank["CODE_REVIEW"] = 6
  /\ \A kind \in TaskKind : Rank[kind] \in Nat
BY Zenon DEF Rank, TaskKind

(* The ranks tell the kinds apart; tests and reviews of code come after the  *)
(* implementation, and every review after what it reviews                    *)
LEMMA RankOrder ==
  /\ \A kind \in TaskKind : Rank[kind] \in Nat /\ Rank["PLAN"] <= Rank[kind] /\ Rank[kind] <= Rank["CODE_REVIEW"]
  /\ \A k, m \in TaskKind : Rank[k] = Rank[m] => k = m
  /\ \A kind \in TaskKind : kind \in NeedsCandidate <=> Rank[kind] > Rank["IMPLEMENT"]
  /\ \A kind \in ReviewKind : /\ REVIEW_PRODUCER_KIND[kind] \in TaskKind
                              /\ Rank[REVIEW_PRODUCER_KIND[kind]] < Rank[kind]
<1>1. ASSUME NEW kind \in ReviewKind
      PROVE  REVIEW_PRODUCER_KIND[kind] \in TaskKind /\ Rank[REVIEW_PRODUCER_KIND[kind]] < Rank[kind]
  BY <1>1, Ranks DEF ReviewKind, TaskKind, REVIEW_PRODUCER_KIND
<1>2. ASSUME NEW kind \in TaskKind
      PROVE  /\ Rank[kind] \in Nat /\ Rank["PLAN"] <= Rank[kind] /\ Rank[kind] <= Rank["CODE_REVIEW"]
             /\ kind \in NeedsCandidate <=> Rank[kind] > Rank["IMPLEMENT"]
  BY <1>2, Ranks DEF TaskKind, NeedsCandidate
<1>3. ASSUME NEW k \in TaskKind, NEW m \in TaskKind, Rank[k] = Rank[m] PROVE k = m
  BY <1>3, Ranks DEF TaskKind
<1> QED
  BY Zenon, <1>1, <1>2, <1>3

(* The stages up to the implementation need no candidate *)
LEMMA EarlyStage ==
  ASSUME NEW kind \in TaskKind
  PROVE  /\ Rank[kind] <= Rank["IMPLEMENT"] => kind \notin NeedsCandidate
         /\ Rank[kind] < Rank["IMPLEMENT"] => kind # "IMPLEMENT"
<1>1. Rank[kind] \in Nat /\ Rank["IMPLEMENT"] = 3
  BY Zenon, Ranks
<1>2. kind \in NeedsCandidate => Rank[kind] > Rank["IMPLEMENT"]
  BY Zenon, RankOrder
<1> QED
  BY <1>1, <1>2

(* _advance_after_task schedules a task of the next stage *)
LEMMA NextRank ==
  ASSUME NEW kind \in TaskKind, kind # "CODE_REVIEW"
  PROVE  \E next \in TaskKind : /\ FollowingTasks(kind) = <<NewTask(next)>>
                                /\ NextState[kind] = TASK_WORKFLOW_STATE[next]
                                /\ Rank[next] = Rank[kind] + 1
<1> USE Ranks DEF TaskKind, FollowingTasks, NextState, TASK_WORKFLOW_STATE
<1>1. CASE kind = "PLAN"
  BY <1>1
<1>2. CASE kind = "ARCHITECTURE_REVIEW"
  BY <1>2
<1>3. CASE kind = "IMPLEMENT"
  BY <1>3
<1>4. CASE kind = "TEST"
  BY <1>4
<1>5. CASE kind = "SECURITY_REVIEW"
  BY <1>5
<1> QED
  BY Zenon, <1>1, <1>2, <1>3, <1>4, <1>5
-----------------------------------------------------------------------------
(* How a task may change without new evidence *)
KeepsWork(old, new) ==
  /\ new.kind = old.kind
  /\ new.status = "SUCCEEDED" <=> old.status = "SUCCEEDED"
  /\ Len(new.attempts) = Len(old.attempts)
  /\ \A n \in 1 .. Len(old.attempts) :
       /\ new.attempts[n].provider = old.attempts[n].provider
       /\ new.attempts[n].examined = old.attempts[n].examined
       /\ new.attempts[n].artifact = old.attempts[n].artifact
       /\ new.attempts[n].status = "SUCCEEDED" <=> old.attempts[n].status = "SUCCEEDED"
       /\ new.attempts[n].status = "RUNNING" => old.attempts[n].status = "RUNNING"

(* A task that keeps its attempts *)
LEMMA SameAttempts ==
  ASSUME NEW old, NEW new, new.kind = old.kind, new.attempts = old.attempts,
         new.status = "SUCCEEDED" <=> old.status = "SUCCEEDED"
  PROVE  KeepsWork(old, new)
BY Zenon DEF KeepsWork

(* Evidence is kept with the work *)
LEMMA KeptEvidence ==
  ASSUME NEW old, NEW new, KeepsWork(old, new), NEW c, Evidence(old, c)
  PROVE  Evidence(new, c)
<1>1. ASSUME NEW n \in 1 .. Len(new.attempts) PROVE AttemptEvidence(new.kind, new.attempts[n], c)
  <2>1. n \in 1 .. Len(old.attempts)
    BY Zenon DEF KeepsWork
  <2>2. AttemptEvidence(old.kind, old.attempts[n], c)
    BY Zenon, <2>1 DEF Evidence
  <2> QED
    BY Zenon, <2>1, <2>2 DEF AttemptEvidence, KeepsWork
<1>2. ASSUME new.status = "SUCCEEDED"
      PROVE  Len(new.attempts) > 0 /\ new.attempts[Len(new.attempts)].status = "SUCCEEDED"
  <2>1. Len(old.attempts) > 0 /\ old.attempts[Len(old.attempts)].status = "SUCCEEDED"
    BY Zenon, <1>2 DEF Evidence, KeepsWork
  <2>2. CASE Len(old.attempts) \in 1 .. Len(old.attempts)
    BY Zenon, <2>1, <2>2 DEF KeepsWork
  <2> QED
    BY <2>1, <2>2
<1> QED
  BY Zenon, <1>1, <1>2 DEF Evidence

(* Tasks that keep their work keep the stages *)
LEMMA KeptStages ==
  ASSUME NEW c, NEW ts \in Seq(Task), Stages(c, ts), NEW us \in Seq(Task), Len(us) = Len(ts),
         \A i \in 1 .. Len(ts) : KeepsWork(ts[i], us[i])
  PROVE  Stages(c, us)
<1>1. \A i \in 1 .. Len(ts) : us[i].kind = ts[i].kind /\ (us[i].status = "SUCCEEDED" <=> ts[i].status = "SUCCEEDED")
  BY Zenon DEF KeepsWork
<1>2. InOrder(us)
  BY Zenon, <1>1 DEF InOrder, Stages
<1>3. \A i \in 1 .. Len(us) : Evidence(us[i], c)
  BY Zenon, KeptEvidence DEF Stages
<1>4. ASSUME NEW i \in 1 .. Len(us), NEW j \in 1 .. Len(us) PROVE Apart(us[i], us[j])
  <2>1. Apart(ts[i], ts[j]) /\ KeepsWork(ts[i], us[i]) /\ KeepsWork(ts[j], us[j])
    BY Zenon DEF Stages
  <2> SUFFICES ASSUME us[i].kind \in ReviewKind, us[j].kind = REVIEW_PRODUCER_KIND[us[i].kind],
                      NEW n \in 1 .. Len(us[i].attempts), NEW m \in 1 .. Len(us[j].attempts),
                      us[j].attempts[m].status = "SUCCEEDED"
               PROVE  us[i].attempts[n].provider # us[j].attempts[m].provider
    BY Zenon DEF Apart
  <2>2. /\ us[i].kind = ts[i].kind /\ us[j].kind = ts[j].kind
        /\ n \in 1 .. Len(ts[i].attempts) /\ us[i].attempts[n].provider = ts[i].attempts[n].provider
        /\ m \in 1 .. Len(ts[j].attempts) /\ us[j].attempts[m].provider = ts[j].attempts[m].provider
        /\ ts[j].attempts[m].status = "SUCCEEDED"
    BY Zenon, <2>1 DEF KeepsWork
  <2> QED
    BY Zenon, <2>1, <2>2 DEF Apart
<1>5. StagesDone(us)
  <2> SUFFICES ASSUME NEW kind \in TaskKind, us # <<>>, Rank[kind] < Rank[us[Len(us)].kind]
               PROVE  \E i \in 1 .. Len(us) : us[i].kind = kind /\ us[i].status = "SUCCEEDED"
    BY Zenon DEF StagesDone
  <2>1. ts # <<>> /\ Len(ts) \in 1 .. Len(ts)
    OBVIOUS
  <2>2. Rank[kind] < Rank[ts[Len(ts)].kind]
    BY Zenon, <1>1, <2>1
  <2>3. PICK i \in 1 .. Len(ts) : ts[i].kind = kind /\ ts[i].status = "SUCCEEDED"
    BY Zenon, <2>1, <2>2 DEF Stages, StagesDone
  <2> QED
    BY Zenon, <1>1, <2>3
<1> QED
  BY Zenon, <1>2, <1>3, <1>4, <1>5 DEF Stages

(* A task whose kind and whose success are as before keeps order and stages *)
LEMMA SameOrder ==
  ASSUME NEW ts \in Seq(Task), NEW us \in Seq(Task), Len(us) = Len(ts), InOrder(ts), StagesDone(ts),
         \A i \in 1 .. Len(ts) : us[i].kind = ts[i].kind,
         \A i \in 1 .. Len(ts) : i # Len(ts) => us[i].status = ts[i].status,
         \A i \in 1 .. Len(ts) : ts[i].status = "SUCCEEDED" => us[i].status = "SUCCEEDED"
  PROVE  InOrder(us) /\ StagesDone(us)
<1>1. Len(ts) \in Nat
  BY Zenon, LenIsNat
<1>2. \A i, j \in 1 .. Len(ts) : i < j => i # Len(ts)
  BY <1>1
<1>3. InOrder(us)
  BY Zenon, <1>2 DEF InOrder
<1>4. StagesDone(us)
  <2> SUFFICES ASSUME NEW kind \in TaskKind, us # <<>>, Rank[kind] < Rank[us[Len(us)].kind]
               PROVE  \E i \in 1 .. Len(us) : us[i].kind = kind /\ us[i].status = "SUCCEEDED"
    BY Zenon DEF StagesDone
  <2>1. ts # <<>> /\ Len(ts) \in 1 .. Len(ts)
    OBVIOUS
  <2>2. Rank[kind] < Rank[ts[Len(ts)].kind]
    BY Zenon, <2>1
  <2>3. PICK i \in 1 .. Len(ts) : ts[i].kind = kind /\ ts[i].status = "SUCCEEDED"
    BY Zenon, <2>1, <2>2 DEF StagesDone
  <2> QED
    BY Zenon, <2>3
<1> QED
  BY Zenon, <1>3, <1>4

(* The last task gets an attempt that has not succeeded *)
LEMMA BegunStages ==
  ASSUME NEW c, NEW ts \in Seq(Task), Stages(c, ts), NEW l \in 1 .. Len(ts), l = Len(ts),
         NEW task \in Task, task.kind = ts[l].kind, task.status # "SUCCEEDED", ts[l].status # "SUCCEEDED",
         NEW a \in Attempt, task.attempts = Append(ts[l].attempts, a),
         AttemptEvidence(task.kind, a, c), a.status # "SUCCEEDED",
         task.kind \in ReviewKind =>
           \A j \in 1 .. Len(ts) : ts[j].kind = REVIEW_PRODUCER_KIND[task.kind] =>
             \A m \in 1 .. Len(ts[j].attempts) :
               ts[j].attempts[m].status = "SUCCEEDED" => a.provider # ts[j].attempts[m].provider
  PROVE  Stages(c, [ts EXCEPT ![l] = task])
<1> DEFINE us == [ts EXCEPT ![l] = task]
<1>1. /\ us \in Seq(Task) /\ Len(us) = Len(ts)
      /\ \A j \in 1 .. Len(ts) : us[j] = IF j = l THEN task ELSE ts[j]
  BY PutInSeq
<1> HIDE DEF us
<1>2. us[l] = task /\ \A j \in 1 .. Len(ts) : j # l => us[j] = ts[j]
  BY Zenon, <1>1
<1>3. InOrder(us) /\ StagesDone(us)
  <2>1. /\ \A i \in 1 .. Len(ts) : us[i].kind = ts[i].kind
        /\ \A i \in 1 .. Len(ts) : i # Len(ts) => us[i].status = ts[i].status
        /\ \A i \in 1 .. Len(ts) : ts[i].status = "SUCCEEDED" => us[i].status = "SUCCEEDED"
    BY Zenon, <1>2
  <2> QED
    BY Zenon, <1>1, <2>1, SameOrder DEF Stages
<1>4. ts[l].attempts \in Seq(Attempt)
  <2>1. ts[l] \in Task
    OBVIOUS
  <2> QED
    BY Zenon, <2>1 DEF Task
<1>5. \A n \in 1 .. Len(task.attempts) : \/ task.attempts[n] = a
                                         \/ n \in 1 .. Len(ts[l].attempts) /\ task.attempts[n] = ts[l].attempts[n]
  BY <1>4, AppendToSeq
<1>6. Evidence(task, c)
  <2>1. Evidence(ts[l], c)
    BY Zenon DEF Stages
  <2> QED
    BY Zenon, <1>5, <2>1 DEF Evidence
<1>7. \A i \in 1 .. Len(us) : Evidence(us[i], c)
  BY Zenon, <1>1, <1>2, <1>6 DEF Stages
<1>8. ASSUME NEW i \in 1 .. Len(us), NEW j \in 1 .. Len(us) PROVE Apart(us[i], us[j])
  <2> SUFFICES ASSUME us[i].kind \in ReviewKind, us[j].kind = REVIEW_PRODUCER_KIND[us[i].kind],
                      NEW n \in 1 .. Len(us[i].attempts), NEW m \in 1 .. Len(us[j].attempts),
                      us[j].attempts[m].status = "SUCCEEDED"
               PROVE  us[i].attempts[n].provider # us[j].attempts[m].provider
    BY Zenon DEF Apart
  <2>1. i \in 1 .. Len(ts) /\ j \in 1 .. Len(ts) /\ us[i].kind = ts[i].kind /\ us[j].kind = ts[j].kind
    BY Zenon, <1>1, <1>2
  <2>2. m \in 1 .. Len(ts[j].attempts) /\ us[j].attempts[m] = ts[j].attempts[m]
    BY Zenon, <1>2, <1>5, <2>1
  <2>3. CASE n \in 1 .. Len(ts[i].attempts) /\ us[i].attempts[n] = ts[i].attempts[n]
    <3>1. Apart(ts[i], ts[j])
      BY Zenon, <2>1 DEF Stages
    <3> QED
      BY Zenon, <2>1, <2>2, <2>3, <3>1 DEF Apart
  <2>4. CASE i = l /\ us[i].attempts[n] = a
    BY Zenon, <1>2, <2>1, <2>2, <2>4
  <2> QED
    BY Zenon, <1>2, <1>5, <2>1, <2>3, <2>4
<1>9. Stages(c, us)
  BY Zenon, <1>3, <1>7, <1>8 DEF Stages
<1> QED
  BY Zenon, <1>9 DEF us

(* Two tasks of which one reviews the other come in that order *)
LEMMA ReviewAfter ==
  ASSUME NEW ts \in Seq(Task), InOrder(ts), NEW i \in 1 .. Len(ts), NEW j \in 1 .. Len(ts),
         ts[i].kind \in ReviewKind, ts[j].kind = REVIEW_PRODUCER_KIND[ts[i].kind]
  PROVE  j < i
<1>1. Rank[ts[j].kind] < Rank[ts[i].kind] /\ Rank[ts[j].kind] \in Nat /\ Rank[ts[i].kind] \in Nat
  BY Zenon, RankOrder DEF ReviewKind
<1>2. i < j => Rank[ts[i].kind] <= Rank[ts[j].kind]
  BY Zenon DEF InOrder
<1> QED
  BY <1>1, <1>2

(* A task succeeds with its attempt n, whose artifact is about c *)
SucceedsWith(old, n, c, task) ==
  /\ task \in Task /\ task.kind = old.kind /\ task.status = "SUCCEEDED"
  /\ Len(task.attempts) = Len(old.attempts)
  /\ \A m \in 1 .. Len(old.attempts) : m # n => task.attempts[m] = old.attempts[m]
  /\ task.attempts[n].status = "SUCCEEDED" /\ task.attempts[n].artifact = c
  /\ task.attempts[n].provider = old.attempts[n].provider
  /\ task.attempts[n].examined = old.attempts[n].examined

(* The last task succeeds with its last attempt, on the candidate revision; *)
(* only an implementation may set another one                               *)
LEMMA DoneStages ==
  ASSUME NEW c, NEW d, NEW ts \in Seq(Task), Stages(c, ts), \A i \in 1 .. Len(ts) : History(ts[i]),
         NEW l \in 1 .. Len(ts), l = Len(ts), ts[l].status = "RUNNING",
         NEW n \in 1 .. Len(ts[l].attempts), n = Len(ts[l].attempts),
         NEW task, SucceedsWith(ts[l], n, d, task), ts[l].kind = "IMPLEMENT" \/ d = c
  PROVE  Stages(d, [ts EXCEPT ![l] = task])
<1>. /\ task \in Task /\ task.kind = ts[l].kind /\ task.status = "SUCCEEDED" /\ Len(task.attempts) = n
     /\ \A m \in 1 .. n : m # n => task.attempts[m] = ts[l].attempts[m]
     /\ task.attempts[n].status = "SUCCEEDED" /\ task.attempts[n].artifact = d
     /\ task.attempts[n].provider = ts[l].attempts[n].provider
     /\ task.attempts[n].examined = ts[l].attempts[n].examined
     /\ task.kind = "IMPLEMENT" \/ d = c
  BY Zenon DEF SucceedsWith
<1> DEFINE us == [ts EXCEPT ![l] = task]
<1>1. /\ us \in Seq(Task) /\ Len(us) = Len(ts) /\ Len(ts) \in Nat
      /\ \A j \in 1 .. Len(ts) : us[j] = IF j = l THEN task ELSE ts[j]
  BY PutInSeq, LenIsNat
<1> HIDE DEF us
<1>2. us[l] = task /\ \A j \in 1 .. Len(ts) : j # l => us[j] = ts[j]
  BY Zenon, <1>1
<1>3. InOrder(us) /\ StagesDone(us)
  <2>1. /\ \A i \in 1 .. Len(ts) : us[i].kind = ts[i].kind
        /\ \A i \in 1 .. Len(ts) : i # Len(ts) => us[i].status = ts[i].status
        /\ \A i \in 1 .. Len(ts) : ts[i].status = "SUCCEEDED" => us[i].status = "SUCCEEDED"
    BY Zenon, <1>2
  <2> QED
    BY Zenon, <1>1, <2>1, SameOrder DEF Stages
<1>4. \A i \in 1 .. Len(ts) : i # l => i < l
  BY <1>1
<1>5. ASSUME NEW i \in 1 .. Len(ts), i # l PROVE Evidence(ts[i], d)
  <2>1. Evidence(ts[i], c) /\ History(ts[i])
    BY Zenon DEF Stages
  <2>2. CASE d = c
    BY Zenon, <2>1, <2>2
  <2>3. CASE task.kind = "IMPLEMENT"
    <3>1. /\ Rank[ts[i].kind] <= Rank["IMPLEMENT"]
          /\ ts[i].status = "SUCCEEDED" => Rank[ts[i].kind] < Rank["IMPLEMENT"]
      BY Zenon, <1>4, <1>5, <2>3 DEF Stages, InOrder
    <3>2. ts[i].kind \in TaskKind
      <4>1. ts[i] \in Task
        OBVIOUS
      <4> QED
        BY Zenon, <4>1 DEF Task
    <3>3. ts[i].kind \notin NeedsCandidate /\ (ts[i].status = "SUCCEEDED" => ts[i].kind # "IMPLEMENT")
      BY Zenon, <3>1, <3>2, EarlyStage
    <3>4. ASSUME NEW m \in 1 .. Len(ts[i].attempts) PROVE AttemptEvidence(ts[i].kind, ts[i].attempts[m], d)
      <4>1. AttemptEvidence(ts[i].kind, ts[i].attempts[m], c)
        BY Zenon, <2>1 DEF Evidence
      <4>2. ts[i].attempts[m].status = "SUCCEEDED" => ts[i].status = "SUCCEEDED"
        BY Zenon, <2>1 DEF History
      <4> QED
        BY Zenon, <3>3, <4>1, <4>2 DEF AttemptEvidence
    <3> QED
      BY Zenon, <2>1, <3>4 DEF Evidence
  <2> QED
    BY Zenon, <2>2, <2>3
<1>6. Evidence(task, d)
  <2>1. Evidence(ts[l], c) /\ History(ts[l])
    BY Zenon DEF Stages
  <2>2. ts[l].attempts[n].status = "RUNNING"
    BY Zenon, <2>1 DEF History
  <2>3. ASSUME NEW m \in 1 .. n PROVE AttemptEvidence(task.kind, task.attempts[m], d)
    <3>1. AttemptEvidence(task.kind, ts[l].attempts[m], c)
      BY Zenon, <2>1 DEF Evidence
    <3>2. CASE m = n
      <4>1. task.kind \in NeedsCandidate => d = c
        BY Zenon DEF NeedsCandidate
      <4> QED
        BY Zenon, <2>2, <3>1, <3>2, <4>1 DEF AttemptEvidence
    <3>3. CASE m # n
      <4>1. ts[l].attempts[m].status = "FAILED" \/ m = Len(ts[l].attempts)
        BY Zenon, <2>1 DEF History
      <4>2. "FAILED" \notin {"RUNNING", "SUCCEEDED"} /\ "FAILED" # "SUCCEEDED"
        BY Zenon
      <4> QED
        BY Zenon, <3>1, <3>3, <4>1, <4>2 DEF AttemptEvidence
    <3> QED
      BY Zenon, <3>2, <3>3
  <2>4. Len(task.attempts) > 0
    BY DEF Task
  <2> QED
    BY Zenon, <2>3, <2>4 DEF Evidence
<1>7. \A i \in 1 .. Len(us) : Evidence(us[i], d)
  BY Zenon, <1>1, <1>2, <1>5, <1>6
<1>8. ASSUME NEW i \in 1 .. Len(us), NEW j \in 1 .. Len(us) PROVE Apart(us[i], us[j])
  <2> SUFFICES ASSUME us[i].kind \in ReviewKind, us[j].kind = REVIEW_PRODUCER_KIND[us[i].kind],
                      NEW k \in 1 .. Len(us[i].attempts), NEW m \in 1 .. Len(us[j].attempts),
                      us[j].attempts[m].status = "SUCCEEDED"
               PROVE  us[i].attempts[k].provider # us[j].attempts[m].provider
    BY Zenon DEF Apart
  <2>1. i \in 1 .. Len(ts) /\ j \in 1 .. Len(ts) /\ us[i].kind = ts[i].kind /\ us[j].kind = ts[j].kind
    BY Zenon, <1>1, <1>2
  <2>2. j < i
    BY Zenon, <1>1, <1>3, ReviewAfter
  <2>3. us[j] = ts[j]
    BY <1>1, <2>1, <2>2
  <2>4. k \in 1 .. Len(ts[i].attempts) /\ us[i].attempts[k].provider = ts[i].attempts[k].provider
    <3>1. CASE i = l
      BY Zenon, <1>2, <3>1
    <3>2. CASE i # l
      BY Zenon, <1>2, <2>1, <3>2
    <3> QED
      BY Zenon, <3>1, <3>2
  <2>5. Apart(ts[i], ts[j])
    BY Zenon, <2>1 DEF Stages
  <2>6. /\ ts[i].kind \in ReviewKind /\ ts[j].kind = REVIEW_PRODUCER_KIND[ts[i].kind]
        /\ m \in 1 .. Len(ts[j].attempts) /\ ts[j].attempts[m].status = "SUCCEEDED"
    BY Zenon, <2>1, <2>3
  <2>7. ts[i].attempts[k].provider # ts[j].attempts[m].provider
    BY Zenon, <2>4, <2>5, <2>6 DEF Apart
  <2> QED
    BY Zenon, <2>3, <2>4, <2>7
<1>9. Stages(d, us)
  BY Zenon, <1>3, <1>7, <1>8 DEF Stages
<1> QED
  BY Zenon, <1>9 DEF us

(* A task is scheduled: the first one, one of the same stage after one that  *)
(* did not succeed, or one of the next stage after one that did              *)
LEMMA NextStages ==
  ASSUME NEW c, NEW ts \in Seq(Task), Stages(c, ts), NEW kind \in TaskKind,
         ts = <<>> => kind = "PLAN",
         ts # <<>> => \/ kind = ts[Len(ts)].kind /\ ts[Len(ts)].status # "SUCCEEDED"
                      \/ Rank[kind] = Rank[ts[Len(ts)].kind] + 1 /\ ts[Len(ts)].status = "SUCCEEDED"
  PROVE  Stages(c, Append(ts, NewTask(kind)))
<1> DEFINE us == Append(ts, NewTask(kind))
           l == Len(ts)
<1>1. /\ us \in Seq(Task) /\ Len(us) = l + 1 /\ l \in Nat
      /\ \A j \in 1 .. l : us[j] = ts[j]
      /\ us[l + 1] = NewTask(kind)
  BY NewTaskFits, AppendToSeq, LenIsNat
<1>2. /\ NewTask(kind).kind = kind /\ NewTask(kind).status = "READY" /\ NewTask(kind).attempts = <<>>
      /\ Len(NewTask(kind).attempts) = 0
  BY Zenon DEF NewTask
<1> HIDE DEF us
<1>3. \A i \in 1 .. Len(us) : i \in 1 .. l \/ i = l + 1
  BY <1>1
<1>4. \A i \in 1 .. l : ts[i].kind \in TaskKind /\ Rank[ts[i].kind] \in Nat
  <2>1. \A i \in 1 .. l : ts[i] \in Task
    OBVIOUS
  <2>2. \A i \in 1 .. l : ts[i].kind \in TaskKind
    BY Zenon, <2>1 DEF Task
  <2> QED
    BY Zenon, <2>2, Ranks
<1>5. Rank[kind] \in Nat
  BY Zenon, Ranks
<1>6. l \in 1 .. l => ts # <<>>
  OBVIOUS
<1>7. ASSUME NEW i \in 1 .. l
      PROVE  /\ Rank[ts[i].kind] <= Rank[kind]
             /\ ts[i].status = "SUCCEEDED" => Rank[ts[i].kind] < Rank[kind]
  <2>1. l \in 1 .. l /\ ts # <<>>
    BY <1>1, <1>6
  <2>2. Rank[ts[l].kind] <= Rank[kind] /\ (ts[l].status = "SUCCEEDED" => Rank[ts[l].kind] < Rank[kind])
    BY <1>4, <1>5, <2>1
  <2>3. i = l \/ i < l
    BY <1>1
  <2>4. i < l => Rank[ts[i].kind] <= Rank[ts[l].kind] /\ (ts[i].status = "SUCCEEDED" => Rank[ts[i].kind] < Rank[ts[l].kind])
    BY Zenon, <2>1 DEF Stages, InOrder
  <2> QED
    BY <1>4, <1>5, <2>1, <2>2, <2>3, <2>4
<1>8. InOrder(us)
  <2> SUFFICES ASSUME NEW i \in 1 .. Len(us), NEW j \in 1 .. Len(us), i < j
               PROVE  /\ Rank[us[i].kind] <= Rank[us[j].kind]
                      /\ us[i].status = "SUCCEEDED" => Rank[us[i].kind] < Rank[us[j].kind]
    BY Zenon DEF InOrder
  <2>1. i \in 1 .. l
    BY <1>1
  <2>2. CASE j = l + 1
    BY Zenon, <1>1, <1>2, <1>7, <2>1, <2>2
  <2>3. CASE j \in 1 .. l
    BY Zenon, <1>1, <2>1, <2>3 DEF Stages, InOrder
  <2> QED
    BY Zenon, <1>3, <2>2, <2>3
<1>9. StagesDone(us)
  <2> SUFFICES ASSUME NEW k \in TaskKind, Rank[k] < Rank[kind]
               PROVE  \E i \in 1 .. Len(us) : us[i].kind = k /\ us[i].status = "SUCCEEDED"
    <3>1. us[Len(us)].kind = kind
      BY Zenon, <1>1, <1>2
    <3> QED
      BY Zenon, <3>1 DEF StagesDone
  <2>1. \A i \in 1 .. l : i \in 1 .. Len(us)
    BY <1>1
  <2>2. ts # <<>>
    BY RankOrder
  <2>3. l \in 1 .. l
    BY <2>2
  <2>4. \/ Rank[k] < Rank[ts[l].kind]
        \/ Rank[k] = Rank[ts[l].kind] /\ ts[l].status = "SUCCEEDED"
    <3>1. Rank[k] \in Nat /\ Rank[ts[l].kind] \in Nat
      BY Zenon, <1>4, <2>3, Ranks
    <3> QED
      BY <1>5, <2>2, <3>1
  <2>5. CASE Rank[k] < Rank[ts[l].kind]
    <3>1. PICK i \in 1 .. l : ts[i].kind = k /\ ts[i].status = "SUCCEEDED"
      BY Zenon, <2>2, <2>5 DEF Stages, StagesDone
    <3> QED
      BY Zenon, <1>1, <2>1, <3>1
  <2>6. CASE Rank[k] = Rank[ts[l].kind] /\ ts[l].status = "SUCCEEDED"
    <3>1. k = ts[l].kind
      BY Zenon, <1>4, <2>3, <2>6, RankOrder
    <3> QED
      BY Zenon, <1>1, <2>1, <2>3, <2>6, <3>1
  <2> QED
    BY Zenon, <2>4, <2>5, <2>6
<1>10. ASSUME NEW i \in 1 .. Len(us) PROVE Evidence(us[i], c)
  <2>1. CASE i \in 1 .. l
    BY Zenon, <1>1, <2>1 DEF Stages
  <2>2. CASE i = l + 1
    <3>1. Evidence(NewTask(kind), c)
      BY <1>2 DEF Evidence
    <3> QED
      BY Zenon, <1>1, <2>2, <3>1
  <2> QED
    BY Zenon, <1>3, <2>1, <2>2
<1>11. ASSUME NEW i \in 1 .. Len(us), NEW j \in 1 .. Len(us) PROVE Apart(us[i], us[j])
  <2>1. CASE i = l + 1 \/ j = l + 1
    <3>1. Len(us[i].attempts) = 0 \/ Len(us[j].attempts) = 0
      BY Zenon, <1>1, <1>2, <2>1
    <3> QED
      BY <3>1 DEF Apart
  <2>2. CASE i \in 1 .. l /\ j \in 1 .. l
    BY Zenon, <1>1, <2>2 DEF Stages
  <2> QED
    BY Zenon, <1>3, <2>1, <2>2
<1>12. Stages(c, us)
  BY Zenon, <1>8, <1>9, <1>10, <1>11 DEF Stages
<1> QED
  BY Zenon, <1>12 DEF us
=============================================================================
