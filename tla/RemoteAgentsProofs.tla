------------------------- MODULE RemoteAgentsProofs -------------------------
(***************************************************************************)
(* Proofs about RemoteAgents, for any sets of workflows, workers, calls,   *)
(* tokens, providers and revisions and any bounds.                         *)
(*                                                                         *)
(* The invariant of WorkflowTasksProofs does not hold here: a hand-off     *)
(* takes the agent's grant away from a live task, and the release of a     *)
(* hand-off queues a task again without asking for the state of its        *)
(* workflow, so that a cancelled workflow can have a queued task.  What    *)
(* does hold is said by RInv: what the attempts of an implementation task  *)
(* look like in each of its states, who holds it, and what a call between  *)
(* two transactions can rely on whatever the others have committed.        *)
(*                                                                         *)
(* Lemmas that only some actions need are steps of the lemma on those      *)
(* actions (TakeUpSteps, SweepSteps, DispatchSteps, ...).                  *)
(***************************************************************************)
EXTENDS RemoteAgents, TLAPS

(* Unless a proof names another prover, Zenon checks it *)
USE Zenon

LEMMA PutInSeq ==
  ASSUME NEW S, NEW s \in Seq(S), NEW i \in 1 .. Len(s), NEW e \in S
  PROVE  /\ [s EXCEPT ![i] = e] \in Seq(S)
         /\ Len([s EXCEPT ![i] = e]) = Len(s)
         /\ \A j \in 1 .. Len(s) : [s EXCEPT ![i] = e][j] = IF j = i THEN e ELSE s[j]
BY SMT

LEMMA AppendToSeq ==
  ASSUME NEW S, NEW s \in Seq(S), NEW e \in S
  PROVE  /\ Append(s, e) \in Seq(S)
         /\ Len(Append(s, e)) = Len(s) + 1
         /\ \A j \in 1 .. Len(s) : Append(s, e)[j] = s[j]
         /\ Append(s, e)[Len(s) + 1] = e
BY SMT

LEMMA SeqIsFunction ==
  ASSUME NEW S, NEW s \in Seq(S)
  PROVE  s = [i \in 1 .. Len(s) |-> s[i]]
BY SMT

LEMMA LenIsNat ==
  ASSUME NEW S, NEW s \in Seq(S)
  PROVE  Len(s) \in Nat /\ Len(s) + 1 \in Nat
BY SMT

GrantFits(task) == task.grant # "INACTIVE" <=> task.status \in LiveStatus

LEMMA NewTaskFits ==
  ASSUME NEW kind \in TaskKind
  PROVE  /\ NewTask(kind) \in Task
         /\ NewTask(kind).kind = kind
         /\ NewTask(kind).status = "READY"
         /\ GrantFits(NewTask(kind))
BY SMT, LeaseAssumption DEF NewTask, Task, TaskStatus, GrantFits, LiveStatus

LEMMA AttemptTyped ==
  ASSUME NEW task \in Task, NEW n \in 1 .. Len(task.attempts)
  PROVE  task.attempts[n] \in Attempt
BY SMT DEF Task

(* What the hand-off of an attempt to Devin is recorded as *)
DevinOutput == {"DISPATCHING", "DISPATCH_OUTCOME_UNKNOWN", "SESSION"}

(* An attempt that nobody has closed *)
OpenStatus == {"RUNNING", "TIMED_OUT"}

LastAttempt(task) == task.attempts[Len(task.attempts)]

EarlierFailed(task) ==
  \A n \in 1 .. Len(task.attempts) : n < Len(task.attempts) => task.attempts[n].status = "FAILED"

(* How the last attempt of a task in this status has ended *)
EndsIn(status, last) ==
  /\ status \in {"READY", "LEASED", "FAILED"} => last = "FAILED"
  /\ status = "RUNNING" => last = "RUNNING"
  /\ status = "SUCCEEDED" => last = "SUCCEEDED"
  /\ status = "BLOCKED" => last \in {"FAILED", "TIMED_OUT"}
  /\ status = "RECONCILED" => last = "TIMED_OUT"
  /\ status = "CANCELLED" => last \in {"FAILED", "RUNNING"}

AttemptsFit(task) ==
  /\ EarlierFailed(task)
  /\ Len(task.attempts) = 0 => task.status \in {"READY", "LEASED", "CANCELLED"}
  /\ Len(task.attempts) # 0 => EndsIn(task.status, LastAttempt(task).status)

(* The last attempt was handed to this provider and runs, or ran when the    *)
(* workflow was cancelled                                                    *)
HandedOver(task, provider) ==
  /\ Len(task.attempts) # 0
  /\ task.status \in {"RUNNING", "CANCELLED"}
  /\ LastAttempt(task).status = "RUNNING"
  /\ LastAttempt(task).provider = provider

(* Who holds the lease of a task *)
LeaseFits(task) ==
  /\ task.lease_owner = DEVIN_PRINCIPAL =>
       HandedOver(task, "devin") /\ LastAttempt(task).output \in DevinOutput
  /\ task.lease_owner = WINDSURF_PRINCIPAL =>
       HandedOver(task, "windsurf") /\ LastAttempt(task).output = "CLAIMED"
  /\ task.lease_owner = "orchestrator" /\ task.status = "RUNNING" =>
       LastAttempt(task).output = "NULL" /\ task.grant # "INACTIVE"

(* A grant is in force only while its task is live; a task that Devin gave   *)
(* back has none                                                             *)
GrantHeld(task) ==
  /\ task.grant # "INACTIVE" => task.status \in LiveStatus
  /\ task.status \in {"READY", "LEASED"} /\ task.grant = "INACTIVE" =>
       Len(task.attempts) # 0 /\ LastAttempt(task).provider = "devin"

ImplementFits(task) == AttemptsFit(task) /\ LeaseFits(task) /\ GrantHeld(task)

(* Plan and architecture review are done; nobody takes up the tests *)
TaskFits(task) ==
  \/ task.kind \in {"PLAN", "ARCHITECTURE_REVIEW"} /\ task.status = "SUCCEEDED" /\ task.grant = "INACTIVE"
  \/ task.kind = "IMPLEMENT" /\ ImplementFits(task)
  \/ /\ task.kind = "TEST" /\ Len(task.attempts) = 0
     /\ task.status \in {"READY", "CANCELLED"}
     /\ task.status = "READY" <=> task.grant # "INACTIVE"

(* An implementation a human let repeat, and one that was accepted *)
Superseded(task) ==
  task.kind = "IMPLEMENT" /\ task.status = "RECONCILED" /\ LastAttempt(task).reconciliation = "RETRY"

Accepted(task) == task.kind = "IMPLEMENT" /\ task.status = "SUCCEEDED"

(* A task after which others have been scheduled *)
Past(ts, i) ==
  \/ ts[i].kind \in {"PLAN", "ARCHITECTURE_REVIEW"}
  \/ Superseded(ts[i])
  \/ Accepted(ts[i]) /\ i + 1 = Len(ts) /\ ts[i + 1].kind = "TEST"

(* What the last task says about the state of its workflow *)
Drives(state, task) ==
  /\ task.kind = "IMPLEMENT" /\ task.status \in {"READY", "LEASED"} =>
       state = "IMPLEMENTING" \/ (state = "CANCELLED" /\ task.grant = "INACTIVE")
  /\ task.kind = "IMPLEMENT" /\ task.status = "RUNNING" => state = "IMPLEMENTING"
  /\ task.kind = "TEST" /\ task.status = "READY" => state = "TESTING"
  /\ task.status \in {"FAILED", "RECONCILED"} => state = "FAILED"
  /\ task.status = "BLOCKED" => state \in {"BLOCKED", "CANCELLED"}
  /\ task.status = "CANCELLED" => state = "CANCELLED"

(* The candidate is the result that was accepted, if one was *)
ResultFits(row, ts) ==
  \/ ts[Len(ts)].kind = "IMPLEMENT" /\ ts[Len(ts)].status # "SUCCEEDED" /\ row.candidate_revision = None
  \/ /\ ts[Len(ts)].kind = "TEST" /\ Len(ts) > 1
     /\ Accepted(ts[Len(ts) - 1])
     /\ row.candidate_revision = LastAttempt(ts[Len(ts) - 1]).artifact
     /\ row.candidate_revision # None

RowFits(row) ==
  /\ row \in WorkflowRow
  /\ row.state \in {"IMPLEMENTING", "TESTING", "BLOCKED", "FAILED", "CANCELLED"}
  /\ row.block_reason # "INPUT_DISPOSITION_REQUIRED"

WorkflowFits(row, ts) ==
  /\ RowFits(row)
  /\ Len(ts) # 0
  /\ \A i \in 1 .. Len(ts) : TaskFits(ts[i])
  /\ \A i \in 1 .. Len(ts) : i < Len(ts) => Past(ts, i)
  /\ Drives(row.state, ts[Len(ts)])
  /\ ResultFits(row, ts)

(* Workers hold implementation tasks only *)
WorkerFits(p) ==
  worker[p].pc # "idle" =>
    /\ worker[p].wf \in Workflows /\ worker[p].pos \in Positions(worker[p].wf)
    /\ HeldTask(p).kind = "IMPLEMENT"
    /\ worker[p].pc = "executing" => worker[p].attempt \in 1 .. Len(HeldTask(p).attempts)

(* Attempt n of a task is the last and awaits what its dispatch will record *)
Dispatching(task, n) ==
  /\ n = Len(task.attempts) /\ n # 0
  /\ task.attempts[n].status \in OpenStatus
  /\ task.attempts[n].output = "DISPATCHING"

(* Attempt n of a task is the last and Devin may be at work on it *)
WithDevin(task, n) ==
  /\ task.kind = "IMPLEMENT"
  /\ n = Len(task.attempts) /\ n # 0
  /\ task.attempts[n].status \in OpenStatus
  /\ task.attempts[n].output \in DevinOutput

Pending(c) == call[c].pc \in {"submitting", "submitted", "unclear"}

ObservedFits(c) ==
  /\ call[c].attempt \in 1 .. Len(CallTask(c).attempts)
  /\ CallTask(c).attempts[call[c].attempt].output # "DISPATCHING"
  /\ SessionOf(c) \in DOMAIN session
  /\ call[c].seen \in {"SUCCEEDED", "ENDED"} => session[SessionOf(c)] # "running"

(* What a call relies on between two of its transactions *)
CallFits(c) ==
  call[c].pc # "idle" =>
    /\ call[c].wf \in Workflows /\ call[c].pos \in Positions(call[c].wf)
    /\ CallTask(c).kind = "IMPLEMENT"
    /\ Pending(c) => Dispatching(CallTask(c), call[c].attempt)
    /\ call[c].pc = "submitting" => SessionOf(c) \notin DOMAIN session
    /\ call[c].pc = "submitted" => SessionOf(c) \in DOMAIN session
    /\ call[c].pc = "observed" => ObservedFits(c)
    /\ call[c].pc = "evidence" => call[c].base # None

OneDispatch ==
  \A c, d \in Calls : Pending(c) /\ Pending(d) /\ SessionOf(c) = SessionOf(d) => c = d

SessionFits(s) ==
  /\ s[2] \in Positions(s[1])
  /\ s[3] \in 1 .. Len(tasks[s[1]][s[2]].attempts)
  /\ session[s] = "running" => WithDevin(tasks[s[1]][s[2]], s[3])

(* A session whose id is recorded exists *)
Known(w, i) ==
  \A n \in 1 .. Len(tasks[w][i].attempts) :
    tasks[w][i].attempts[n].output = "SESSION" => <<w, i, n>> \in DOMAIN session

RInv ==
  /\ RemoteTypeOK
  /\ \A w \in Workflows : WorkflowFits(workflow[w], tasks[w])
  /\ \A p \in Workers : WorkerFits(p)
  /\ \A c \in Calls : CallFits(c)
  /\ OneDispatch
  /\ \A s \in DOMAIN session : SessionFits(s)
  /\ \A w \in Workflows : \A i \in Positions(w) : Known(w, i)
-----------------------------------------------------------------------------
(* What the invariant says *)

(* Facts about a task that exists *)
LEMMA RemoteTask ==
  ASSUME RInv, NEW w \in Workflows, NEW i \in Positions(w)
  PROVE  /\ tasks[w] \in Seq(Task) /\ Len(tasks[w]) \in Nat /\ i \in 1 .. Len(tasks[w])
         /\ tasks[w][i] \in Task /\ tasks[w][i].attempts \in Seq(Attempt)
         /\ Len(tasks[w][i].attempts) \in Nat
         /\ WorkflowFits(workflow[w], tasks[w]) /\ RowFits(workflow[w]) /\ workflow[w] \in WorkflowRow
         /\ TaskFits(tasks[w][i])
         /\ tasks[w][i].kind = "IMPLEMENT" => ImplementFits(tasks[w][i])
         /\ Known(w, i)
<1>1. tasks[w] \in Seq(Task) /\ WorkflowFits(workflow[w], tasks[w]) /\ Known(w, i) /\ i \in 1 .. Len(tasks[w])
  BY DEF RInv, RemoteTypeOK, TypeOK, Positions
<1> USE <1>1
<1>2. RowFits(workflow[w]) /\ workflow[w] \in WorkflowRow /\ TaskFits(tasks[w][i])
  BY DEF WorkflowFits, RowFits
<1>3. tasks[w][i] \in Task /\ Len(tasks[w]) \in Nat
  BY SMT
<1>4. tasks[w][i].attempts \in Seq(Attempt)
  BY <1>3 DEF Task
<1>5. Len(tasks[w][i].attempts) \in Nat
  BY <1>4, LenIsNat
<1>6. tasks[w][i].kind = "IMPLEMENT" => ImplementFits(tasks[w][i])
  BY <1>2 DEF TaskFits
<1> QED
  BY <1>2, <1>3, <1>4, <1>5, <1>6

(* What the accepted attempts of a workflow are *)
AcceptedAttempts(w) == {a \in AttemptsOf(w, "IMPLEMENT") : AttemptAt(w, a).status = "SUCCEEDED"}

(* RInv implies the properties of RemoteAgents *)
LEMMA InvariantSays ==
  RInv => RunningSessionIsExclusive /\ GrantOnlyForLiveTask /\ OneResultAccepted
(* What RInv says of an implementation task *)
<1>ImplementTask.
  ASSUME RInv, NEW w \in Workflows, NEW i \in Positions(w), tasks[w][i].kind = "IMPLEMENT"
  PROVE  /\ ImplementFits(tasks[w][i]) /\ tasks[w][i].status \in TaskStatus
         /\ WorkflowFits(workflow[w], tasks[w]) /\ i \in 1 .. Len(tasks[w])
         /\ tasks[w][i].attempts \in Seq(Attempt) /\ Len(tasks[w][i].attempts) \in Nat
  <2> USE <1>ImplementTask
  <2>1. WorkflowFits(workflow[w], tasks[w]) /\ i \in 1 .. Len(tasks[w])
    BY DEF RInv, Positions
  <2>2. TaskFits(tasks[w][i])
    BY <2>1 DEF WorkflowFits
  <2>3. ImplementFits(tasks[w][i])
    BY <2>2 DEF TaskFits
  <2>4. tasks[w][i] \in Task /\ tasks[w][i].attempts \in Seq(Attempt) /\ Len(tasks[w][i].attempts) \in Nat
    BY RemoteTask
  <2>5. tasks[w][i].status \in TaskStatus
    BY <2>4 DEF Task
  <2> QED
    BY <2>1, <2>3, <2>4, <2>5
<1>SessionsExclusive.
  RInv => RunningSessionIsExclusive
  <2>1. ASSUME RInv, NEW s \in DOMAIN session, session[s] = "running",
               tasks[s[1]][s[2]].attempts[s[3]].reconciliation # "RETRY"
        PROVE  /\ s[2] = Len(tasks[s[1]])
               /\ s[3] = Len(tasks[s[1]][s[2]].attempts)
               /\ tasks[s[1]][s[2]].status \notin {"READY", "LEASED"}
    <3> USE <2>1
    <3> DEFINE w == s[1]
               i == s[2]
               task == tasks[w][i]
    <3>1. w \in Workflows
      BY SMT DEF RInv, RemoteTypeOK
    <3>2. i \in Positions(w) /\ WithDevin(task, s[3])
      BY DEF RInv, SessionFits
    <3> USE <3>2
    <3>3. /\ task.kind = "IMPLEMENT" /\ s[3] = Len(task.attempts) /\ s[3] # 0
          /\ LastAttempt(task).status \in OpenStatus
          /\ LastAttempt(task).reconciliation # "RETRY"
      BY DEF WithDevin, LastAttempt
    <3> USE <3>3
    <3>4. /\ ImplementFits(task) /\ WorkflowFits(workflow[w], tasks[w]) /\ i \in 1 .. Len(tasks[w])
      BY <3>1, <1>ImplementTask
    <3> USE <3>4
    <3>5. EndsIn(task.status, LastAttempt(task).status)
      BY DEF ImplementFits, AttemptsFit
    <3>6. task.status \notin {"READY", "LEASED", "SUCCEEDED"}
      BY <3>5 DEF EndsIn, OpenStatus
    <3>7. ~Past(tasks[w], i)
      BY <3>6 DEF Past, Superseded, Accepted
    <3>8. ~(i < Len(tasks[w]))
      BY <3>7 DEF WorkflowFits
    <3>9. tasks[w] \in Seq(Task) /\ Len(tasks[w]) \in Nat
      BY <3>1, RemoteTask
    <3>10. i = Len(tasks[w])
      BY SMT, <3>8, <3>9
    <3> QED
      BY <3>6, <3>10
  <2> QED
    BY <2>1 DEF RunningSessionIsExclusive
<1>GrantsHeld.
  RInv => GrantOnlyForLiveTask
  <2>1. ASSUME RInv, NEW w \in Workflows, NEW i \in Positions(w)
        PROVE  /\ tasks[w][i].grant # "INACTIVE" => tasks[w][i].status \in LiveStatus
               /\ tasks[w][i].status \in {"READY", "LEASED"} /\ tasks[w][i].grant = "INACTIVE" =>
                    /\ tasks[w][i].kind = "IMPLEMENT"
                    /\ tasks[w][i].attempts[Len(tasks[w][i].attempts)].provider = "devin"
    <3>1. TaskFits(tasks[w][i])
      BY <2>1 DEF RInv, Positions, WorkflowFits
    <3> QED
      BY <3>1 DEF TaskFits, ImplementFits, GrantHeld, LastAttempt, LiveStatus
  <2> QED
    BY <2>1 DEF GrantOnlyForLiveTask
(* An attempt at the implementation that succeeded is the last one of the    *)
(* implementation scheduled last, which the tests follow                     *)
<1>AcceptedIsLast.
  ASSUME RInv, NEW w \in Workflows, NEW i \in Positions(w), tasks[w][i].kind = "IMPLEMENT",
         NEW n \in 1 .. Len(tasks[w][i].attempts), tasks[w][i].attempts[n].status = "SUCCEEDED"
  PROVE  /\ i + 1 = Len(tasks[w]) /\ n = Len(tasks[w][i].attempts)
         /\ tasks[w][Len(tasks[w])].kind = "TEST"
  <2> USE <1>AcceptedIsLast
  <2> DEFINE task == tasks[w][i]
             len == Len(task.attempts)
  <2>1. /\ ImplementFits(task) /\ task.status \in TaskStatus /\ WorkflowFits(workflow[w], tasks[w])
        /\ i \in 1 .. Len(tasks[w]) /\ len \in Nat
    BY <1>ImplementTask
  <2> USE <2>1
  <2>2. ~(n < len)
    BY DEF ImplementFits, AttemptsFit, EarlierFailed
  <2>3. n = len /\ len # 0
    BY SMT, <2>2
  <2>4. EndsIn(task.status, "SUCCEEDED")
    BY <2>3 DEF ImplementFits, AttemptsFit, LastAttempt
  <2>5. task.status = "SUCCEEDED"
    BY <2>4 DEF EndsIn, TaskStatus
  <2>6. i # Len(tasks[w])
    BY <2>5 DEF WorkflowFits, ResultFits
  <2>7. Len(tasks[w]) \in Nat
    BY RemoteTask
  <2>8. i < Len(tasks[w])
    BY SMT, <2>6, <2>7
  <2>9. Past(tasks[w], i)
    BY <2>8 DEF WorkflowFits
  <2>10. i + 1 = Len(tasks[w]) /\ tasks[w][i + 1].kind = "TEST"
    BY <2>5, <2>9 DEF Past, Superseded
  <2> QED
    BY <2>3, <2>10
<1>AcceptedFacts.
  ASSUME RInv, NEW w \in Workflows, NEW a \in AcceptedAttempts(w)
  PROVE  /\ a[1] \in Positions(w) /\ tasks[w][a[1]].kind = "IMPLEMENT"
         /\ a = <<a[1], a[2]>> /\ a[1] + 1 = Len(tasks[w]) /\ a[2] = Len(tasks[w][a[1]].attempts)
         /\ tasks[w][Len(tasks[w])].kind = "TEST"
  <2> USE <1>AcceptedFacts
  <2>1. a \in AttemptsOf(w, "IMPLEMENT") /\ AttemptAt(w, a).status = "SUCCEEDED"
    BY DEF AcceptedAttempts
  <2>2. PICK i \in {j \in Positions(w) : tasks[w][j].kind = "IMPLEMENT"} : a \in {i} \X DOMAIN tasks[w][i].attempts
    BY <2>1 DEF AttemptsOf
  <2>3. i \in Positions(w) /\ tasks[w][i].kind = "IMPLEMENT"
    BY <2>2
  <2>4. a[1] = i /\ a[2] \in DOMAIN tasks[w][i].attempts /\ a = <<a[1], a[2]>>
    BY SMT, <2>2
  <2> USE <2>3
  <2>5. tasks[w][i].attempts \in Seq(Attempt)
    BY RemoteTask
  <2> USE <2>4
  <2>6. a[2] \in 1 .. Len(tasks[w][i].attempts)
    BY SMT, <2>5
  <2>7. tasks[w][i].attempts[a[2]].status = "SUCCEEDED"
    BY <2>1 DEF AttemptAt
  <2>8. /\ i + 1 = Len(tasks[w]) /\ a[2] = Len(tasks[w][i].attempts)
        /\ tasks[w][Len(tasks[w])].kind = "TEST"
    BY <2>6, <2>7, <1>AcceptedIsLast
  <2> QED
    BY <2>8
(* The candidate is the artifact of the accepted attempt *)
<1>CandidateAccepted.
  ASSUME RInv, NEW w \in Workflows
  PROVE  {workflow[w].candidate_revision} \ {None} = {AttemptAt(w, a).artifact : a \in AcceptedAttempts(w)}
  <2> USE <1>CandidateAccepted
  <2> DEFINE ts == tasks[w]
             len == Len(ts)
  <2>1. ResultFits(workflow[w], ts) /\ ts \in Seq(Task) /\ len \in Nat
    <3>1. WorkflowFits(workflow[w], ts)
      BY DEF RInv
    <3>2. ts \in Seq(Task)
      BY DEF RInv, RemoteTypeOK, TypeOK
    <3> QED
      BY <3>1, <3>2, LenIsNat DEF WorkflowFits
  <2>2. CASE ts[len].kind = "IMPLEMENT" /\ ts[len].status # "SUCCEEDED" /\ workflow[w].candidate_revision = None
    <3>1. AcceptedAttempts(w) = {}
      BY <2>2, <1>AcceptedFacts
    <3> QED
      BY <2>2, <3>1
  <2>3. CASE /\ ts[len].kind = "TEST" /\ len > 1 /\ Accepted(ts[len - 1])
             /\ workflow[w].candidate_revision = LastAttempt(ts[len - 1]).artifact
             /\ workflow[w].candidate_revision # None
    <3> DEFINE i == len - 1
               n == Len(ts[i].attempts)
               a == <<i, n>>
    <3>1. i \in Positions(w) /\ i + 1 = len
      BY SMT, <2>1, <2>3 DEF Positions
    <3>2. ts[i].kind = "IMPLEMENT" /\ ts[i].status = "SUCCEEDED"
      BY <2>3 DEF Accepted
    <3> HIDE DEF i
    <3> USE <3>2
    <3>3. ImplementFits(ts[i]) /\ ts[i].attempts \in Seq(Attempt) /\ n \in Nat
      BY <3>1, <1>ImplementTask
    <3>4. n # 0
      BY <3>3 DEF ImplementFits, AttemptsFit
    <3>5. LastAttempt(ts[i]).status = "SUCCEEDED"
      BY <3>3, <3>4 DEF ImplementFits, AttemptsFit, EndsIn
    <3>6. n \in DOMAIN ts[i].attempts
      BY SMT, <3>3, <3>4
    <3> HIDE DEF n
    <3>7. a \in AttemptsOf(w, "IMPLEMENT") /\ a[1] = i /\ a[2] = n
      BY SMT, <3>1, <3>6 DEF AttemptsOf
    <3> HIDE DEF a
    <3>8. AttemptAt(w, a) = LastAttempt(ts[i])
      BY <3>7 DEF AttemptAt, LastAttempt, n
    <3>9. a \in AcceptedAttempts(w)
      BY <3>5, <3>7, <3>8 DEF AcceptedAttempts
    <3>10. ASSUME NEW b \in AcceptedAttempts(w) PROVE b = a
      <4>1. b = <<b[1], b[2]>> /\ b[1] + 1 = len /\ b[1] \in Positions(w) /\ b[2] = Len(ts[b[1]].attempts)
        BY <1>AcceptedFacts
      <4>2. b[1] = i
        BY SMT, <2>1, <3>1, <4>1 DEF Positions
      <4> QED
        BY <4>1, <4>2 DEF a, n
    <3>11. workflow[w].candidate_revision = AttemptAt(w, a).artifact
      BY <2>3, <3>8 DEF i
    <3> QED
      BY <2>3, <3>9, <3>10, <3>11
  <2> QED
    BY <2>1, <2>2, <2>3 DEF ResultFits
<1>ResultsAccepted.
  RInv => OneResultAccepted
  <2>1. ASSUME RInv, NEW w \in Workflows, NEW a \in AcceptedAttempts(w), NEW b \in AcceptedAttempts(w)
        PROVE  a = b
    <3>1. a = <<a[1], a[2]>> /\ a[1] + 1 = Len(tasks[w]) /\ a[1] \in Positions(w) /\ a[2] = Len(tasks[w][a[1]].attempts)
      BY <2>1, <1>AcceptedFacts
    <3>2. b = <<b[1], b[2]>> /\ b[1] + 1 = Len(tasks[w]) /\ b[1] \in Positions(w) /\ b[2] = Len(tasks[w][b[1]].attempts)
      BY <2>1, <1>AcceptedFacts
    <3>3. a[1] = b[1]
      BY SMT, <3>1, <3>2 DEF Positions
    <3> QED
      BY <3>1, <3>2, <3>3
  <2>2. ASSUME RInv, NEW w \in Workflows, NEW a \in AcceptedAttempts(w), NEW i \in Positions(w),
               tasks[w][i].kind = "IMPLEMENT"
        PROVE  i <= a[1]
    <3>1. a[1] + 1 = Len(tasks[w]) /\ a[1] \in Positions(w) /\ tasks[w][Len(tasks[w])].kind = "TEST"
      BY <2>2, <1>AcceptedFacts
    <3>2. Len(tasks[w]) \in Nat /\ i \in 1 .. Len(tasks[w]) /\ i # Len(tasks[w])
      BY <2>2, <3>1, RemoteTask
    <3> QED
      BY SMT, <3>1, <3>2 DEF Positions
  <2> QED
    BY <2>1, <2>2, <1>CandidateAccepted DEF OneResultAccepted, AcceptedAttempts
<1> QED
  BY <1>SessionsExclusive, <1>GrantsHeld, <1>ResultsAccepted
-----------------------------------------------------------------------------
(* Tasks *)

(* A task with these fields *)
TaskIs(t, kind, status, owner, grant, attempts) ==
  /\ t \in Task /\ t.kind = kind /\ t.status = status
  /\ t.lease_owner = owner /\ t.grant = grant /\ t.attempts = attempts

(* The writes of the handlers, field by field *)
LEMMA StatusIs ==
  ASSUME NEW task \in Task, NEW status \in TaskStatus
  PROVE  TaskIs([task EXCEPT !.status = status], task.kind, status, task.lease_owner, task.grant, task.attempts)
BY DEF TaskIs, Task

LEMMA AttemptsIs ==
  ASSUME NEW task \in Task, NEW attempts \in Seq(Attempt)
  PROVE  TaskIs([task EXCEPT !.attempts = attempts], task.kind, task.status, task.lease_owner, task.grant, attempts)
BY DEF TaskIs, Task

LEMMA OwnerIs ==
  ASSUME NEW task \in Task, NEW owner \in {"orchestrator", "NULL"} \cup RemotePrincipal
  PROVE  TaskIs([task EXCEPT !.lease_owner = owner], task.kind, task.status, owner, task.grant, task.attempts)
BY DEF TaskIs, Task

LEMMA TokenIs ==
  ASSUME NEW task \in Task, NEW token \in Tokens \cup {None}
  PROVE  TaskIs([task EXCEPT !.lease_token = token], task.kind, task.status, task.lease_owner, task.grant, task.attempts)
BY DEF TaskIs, Task

LEMMA LeftIs ==
  ASSUME NEW task \in Task, NEW left \in 0 .. LeaseTicks
  PROVE  TaskIs([task EXCEPT !.lease_left = left], task.kind, task.status, task.lease_owner, task.grant, task.attempts)
BY DEF TaskIs, Task

LEMMA GrantIs ==
  ASSUME NEW task \in Task, NEW grant \in {"ACTIVE", "EXPIRED", "INACTIVE"}
  PROVE  TaskIs([task EXCEPT !.grant = grant], task.kind, task.status, task.lease_owner, grant, task.attempts)
BY DEF TaskIs, Task

(* A lease is between no time and its full length *)
LEMMA LeaseRange == 0 \in 0 .. LeaseTicks /\ LeaseTicks \in 0 .. LeaseTicks
BY SMT, LeaseAssumption

LEMMA ClearLeaseIs ==
  ASSUME NEW task \in Task
  PROVE  TaskIs(ClearLease(task), task.kind, task.status, "NULL", task.grant, task.attempts)
<1> DEFINE t1 == [task EXCEPT !.lease_owner = "NULL"]
           t2 == [t1 EXCEPT !.lease_token = None]
<1>1. ClearLease(task) = [t2 EXCEPT !.lease_left = 0]
  BY DEF ClearLease
<1>2. TaskIs(t1, task.kind, task.status, "NULL", task.grant, task.attempts)
  BY OwnerIs
<1> HIDE DEF t1
<1>3. TaskIs(t2, task.kind, task.status, "NULL", task.grant, task.attempts)
  BY <1>2, TokenIs DEF TaskIs
<1> HIDE DEF t2
<1>4. TaskIs([t2 EXCEPT !.lease_left = 0], t2.kind, t2.status, t2.lease_owner, t2.grant, t2.attempts)
  BY <1>3, LeftIs, LeaseRange DEF TaskIs
<1> QED
  BY <1>1, <1>3, <1>4 DEF TaskIs

LEMMA DeactivateGrantIs ==
  ASSUME NEW task \in Task
  PROVE  TaskIs(DeactivateGrant(task), task.kind, task.status, task.lease_owner, "INACTIVE", task.attempts)
BY GrantIs DEF DeactivateGrant

(* A task that ends: its lease is cleared and its grant deactivated *)
LEMMA EndedIs ==
  ASSUME NEW task \in Task
  PROVE  TaskIs(DeactivateGrant(ClearLease(task)), task.kind, task.status, "NULL", "INACTIVE", task.attempts)
<1> DEFINE t == ClearLease(task)
<1>1. TaskIs(t, task.kind, task.status, "NULL", task.grant, task.attempts)
  BY ClearLeaseIs
<1> HIDE DEF t
<1>2. TaskIs(DeactivateGrant(t), t.kind, t.status, t.lease_owner, "INACTIVE", t.attempts)
  BY <1>1, DeactivateGrantIs DEF TaskIs
<1>3. TaskIs(DeactivateGrant(t), task.kind, task.status, "NULL", "INACTIVE", task.attempts)
  BY <1>1, <1>2 DEF TaskIs
<1> QED
  BY <1>3 DEF t

(* Status and attempts replaced together *)
LEMMA StatusAttemptsIs ==
  ASSUME NEW task \in Task, NEW status \in TaskStatus, NEW attempts \in Seq(Attempt)
  PROVE  TaskIs([task EXCEPT !.status = status, !.attempts = attempts],
                task.kind, status, task.lease_owner, task.grant, attempts)
<1> DEFINE t == [task EXCEPT !.status = status]
<1>1. [task EXCEPT !.status = status, !.attempts = attempts] = [t EXCEPT !.attempts = attempts]
  OBVIOUS
<1>2. TaskIs(t, task.kind, status, task.lease_owner, task.grant, task.attempts)
  BY StatusIs
<1> HIDE DEF t
<1>3. TaskIs([t EXCEPT !.attempts = attempts], t.kind, t.status, t.lease_owner, t.grant, attempts)
  BY <1>2, AttemptsIs DEF TaskIs
<1>4. TaskIs([t EXCEPT !.attempts = attempts], task.kind, status, task.lease_owner, task.grant, attempts)
  BY <1>2, <1>3 DEF TaskIs
<1> QED
  BY <1>1, <1>4

LEMMA NewTaskIs ==
  ASSUME NEW kind \in TaskKind
  PROVE  NewTask(kind) \in Task /\ TaskIs(NewTask(kind), kind, "READY", "NULL", "ACTIVE", <<>>)
BY SMT, NewTaskFits DEF TaskIs, NewTask

LEMMA NewTaskTaskFits ==
  ASSUME NEW kind \in {"IMPLEMENT", "TEST"}
  PROVE  TaskFits(NewTask(kind)) /\ kind \in TaskKind
<1> DEFINE t == NewTask(kind)
<1>1. kind \in TaskKind
  BY DEF TaskKind
<1>2. TaskIs(t, kind, "READY", "NULL", "ACTIVE", <<>>)
  BY <1>1, NewTaskIs
<1> HIDE DEF t
<1>3. /\ t.kind = kind /\ t.status = "READY" /\ t.lease_owner = "NULL" /\ t.grant = "ACTIVE"
      /\ t.attempts = <<>> /\ Len(t.attempts) = 0
  BY SMT, <1>2 DEF TaskIs
<1> USE <1>3
<1>4. EarlierFailed(t)
  BY SMT DEF EarlierFailed
<1>5. AttemptsFit(t)
  BY <1>4 DEF AttemptsFit
<1>6. LeaseFits(t) /\ GrantHeld(t)
  BY DEF LeaseFits, GrantHeld, LiveStatus, DEVIN_PRINCIPAL, WINDSURF_PRINCIPAL
<1>7. TaskFits(t)
  BY <1>5, <1>6 DEF TaskFits, ImplementFits
<1> QED
  BY <1>1, <1>7 DEF t
-----------------------------------------------------------------------------
(* The initial states *)

(* A workflow that waits for its implementation *)
Implementing(row) ==
  /\ RowFits(row) /\ row.state = "IMPLEMENTING" /\ row.candidate_revision = None

(* The initial states are consistent *)
LEMMA InitRemote ==
  RemoteInit => RInv
(* What the plan and the architecture review left behind *)
<1>StageDoneIs.
  ASSUME NEW kind \in TaskKind
  PROVE  /\ StageDone(kind) \in Task /\ StageDone(kind).kind = kind
         /\ StageDone(kind).status = "SUCCEEDED" /\ StageDone(kind).grant = "INACTIVE"
         /\ \A n \in 1 .. Len(StageDone(kind).attempts) : StageDone(kind).attempts[n].output # "SESSION"
  <2> USE <1>StageDoneIs
  <2> DEFINE someone == CHOOSE p \in Providers : TRUE
             a == [status |-> "SUCCEEDED", error_code |-> None, provider |-> someone,
                   examined |-> None, artifact |-> None, output |-> "FITS", reconciliation |-> "NULL"]
             t0 == NewTask(kind)
             t1 == [t0 EXCEPT !.status = "SUCCEEDED"]
             t2 == [t1 EXCEPT !.grant = "INACTIVE"]
             attempts == <<a>>
             t3 == [t2 EXCEPT !.attempts = attempts]
  <2>1. StageDone(kind) = t3
    BY DEF StageDone
  <2>2. someone \in Providers
    BY ProvidersAssumption
  <2> HIDE DEF someone
  <2>3. a \in Attempt /\ a.output = "FITS"
    BY SMT, <2>2 DEF Attempt
  <2> HIDE DEF a
  <2>4. attempts \in Seq(Attempt) /\ \A n \in 1 .. Len(attempts) : attempts[n].output # "SESSION"
    BY SMT, <2>3
  <2> HIDE DEF attempts
  <2>5. TaskIs(t0, kind, "READY", "NULL", "ACTIVE", <<>>)
    BY NewTaskIs
  <2> HIDE DEF t0
  <2>6. TaskIs(t1, kind, "SUCCEEDED", "NULL", "ACTIVE", <<>>)
    BY <2>5, StatusIs DEF TaskIs, TaskStatus
  <2> HIDE DEF t1
  <2>7. TaskIs(t2, kind, "SUCCEEDED", "NULL", "INACTIVE", <<>>)
    BY <2>6, GrantIs DEF TaskIs
  <2> HIDE DEF t2
  <2>8. TaskIs(t3, kind, "SUCCEEDED", "NULL", "INACTIVE", attempts)
    BY <2>4, <2>7, AttemptsIs DEF TaskIs
  <2> HIDE DEF t3
  <2> QED
    BY <2>1, <2>4, <2>8 DEF TaskIs
<1>InitialRow.
  ASSUME NEW contained \in BOOLEAN
  PROVE  Implementing([state |-> "IMPLEMENTING", version |-> 5, block_reason |-> "NULL",
           containment_required |-> contained, candidate_revision |-> None,
           disposition |-> IF contained THEN "RESUME" ELSE "NULL", merge_approval |-> None])
  <2> USE <1>InitialRow
  <2> DEFINE disposition == IF contained THEN "RESUME" ELSE "NULL"
  <2>1. disposition \in {"NULL", "RESUME", "REJECT"}
    OBVIOUS
  <2> HIDE DEF disposition
  <2> DEFINE row == [state |-> "IMPLEMENTING", version |-> 5, block_reason |-> "NULL",
               containment_required |-> contained, candidate_revision |-> None,
               disposition |-> disposition, merge_approval |-> None]
  <2>2. row \in WorkflowRow
    BY SMT, <2>1 DEF WorkflowRow, WorkflowState, BlockReason
  <2>3. row.state = "IMPLEMENTING" /\ row.block_reason = "NULL" /\ row.candidate_revision = None
    OBVIOUS
  <2> HIDE DEF row
  <2>4. Implementing(row)
    BY <2>2, <2>3 DEF Implementing, RowFits
  <2> QED
    BY <2>4 DEF row, disposition
<1>InitialTasks.
  ASSUME NEW row, Implementing(row),
         NEW ts, ts = <<StageDone("PLAN"), StageDone("ARCHITECTURE_REVIEW"), NewTask("IMPLEMENT")>>
  PROVE  /\ ts \in Seq(Task) /\ WorkflowFits(row, ts)
         /\ \A i \in 1 .. Len(ts) : \A n \in 1 .. Len(ts[i].attempts) : ts[i].attempts[n].output # "SESSION"
  <2> USE <1>InitialTasks
  <2> DEFINE plan == StageDone("PLAN")
             review == StageDone("ARCHITECTURE_REVIEW")
             impl == NewTask("IMPLEMENT")
  <2>1. /\ plan \in Task /\ plan.kind = "PLAN"
        /\ plan.status = "SUCCEEDED" /\ plan.grant = "INACTIVE"
        /\ \A n \in 1 .. Len(plan.attempts) : plan.attempts[n].output # "SESSION"
    BY <1>StageDoneIs DEF TaskKind
  <2>2. /\ review \in Task /\ review.kind = "ARCHITECTURE_REVIEW"
        /\ review.status = "SUCCEEDED" /\ review.grant = "INACTIVE"
        /\ \A n \in 1 .. Len(review.attempts) : review.attempts[n].output # "SESSION"
    BY <1>StageDoneIs DEF TaskKind
  <2>3. TaskFits(impl) /\ TaskIs(impl, "IMPLEMENT", "READY", "NULL", "ACTIVE", <<>>)
    BY NewTaskTaskFits, NewTaskIs
  <2> HIDE DEF plan, review, impl
  <2>4. ts = <<plan, review, impl>>
    BY DEF plan, review, impl
  <2>5. /\ impl \in Task /\ impl.kind = "IMPLEMENT" /\ impl.status = "READY" /\ Len(impl.attempts) = 0
    BY SMT, <2>3 DEF TaskIs
  <2>6. /\ ts \in Seq(Task) /\ Len(ts) = 3 /\ ts[1] = plan /\ ts[2] = review /\ ts[3] = impl
    BY SMT, <2>1, <2>2, <2>4, <2>5
  <2> USE <2>6
  <2>7. \A i \in 1 .. Len(ts) : i = 1 \/ i = 2 \/ i = 3
    BY SMT
  <2>8. \A i \in 1 .. Len(ts) : i < Len(ts) => i = 1 \/ i = 2
    BY SMT
  <2>9. TaskFits(plan) /\ TaskFits(review)
    BY <2>1, <2>2 DEF TaskFits
  <2>10. \A i \in 1 .. Len(ts) : TaskFits(ts[i])
    BY <2>3, <2>7, <2>9
  <2>11. \A i \in 1 .. Len(ts) : i < Len(ts) => Past(ts, i)
    BY <2>1, <2>2, <2>8 DEF Past
  <2>12. Drives(row.state, ts[Len(ts)])
    BY <2>5 DEF Drives, Implementing
  <2>13. ResultFits(row, ts)
    BY <2>5 DEF ResultFits, Implementing
  <2>14. Len(ts) # 0
    BY SMT
  <2>15. WorkflowFits(row, ts)
    BY <2>10, <2>11, <2>12, <2>13, <2>14 DEF WorkflowFits, Implementing
  <2>16. \A n \in 1 .. Len(impl.attempts) : impl.attempts[n].output # "SESSION"
    BY SMT, <2>5
  <2>17. ASSUME NEW i \in 1 .. Len(ts) PROVE \A n \in 1 .. Len(ts[i].attempts) : ts[i].attempts[n].output # "SESSION"
    <3>1. CASE i = 1
      BY <2>1, <3>1
    <3>2. CASE i = 2
      BY <2>2, <3>2
    <3>3. CASE i = 3
      BY <2>16, <3>3
    <3> QED
      BY <2>7, <3>1, <3>2, <3>3
  <2>18. ts \in Seq(Task)
    OBVIOUS
  <2> QED
    BY <2>15, <2>17, <2>18
<1>InitRInv.
  RemoteInit => RInv
  <2> SUFFICES ASSUME RemoteInit PROVE RInv
    OBVIOUS
  <2>1. PICK contained \in [Workflows -> BOOLEAN] :
          workflow = [w \in Workflows |->
            [state |-> "IMPLEMENTING", version |-> 5, block_reason |-> "NULL",
             containment_required |-> contained[w], candidate_revision |-> None,
             disposition |-> IF contained[w] THEN "RESUME" ELSE "NULL", merge_approval |-> None]]
    BY DEF RemoteInit
  <2>2. \A w \in Workflows : Implementing(workflow[w])
    BY <2>1, <1>InitialRow
  <2>3. DOMAIN workflow = Workflows /\ workflow = [w \in Workflows |-> workflow[w]]
    BY <2>1
  <2>4. workflow \in [Workflows -> WorkflowRow \cup {None}]
    BY <2>2, <2>3 DEF Implementing, RowFits
  <2>5. \A w \in Workflows : tasks[w] = <<StageDone("PLAN"), StageDone("ARCHITECTURE_REVIEW"), NewTask("IMPLEMENT")>>
    BY DEF RemoteInit
  <2>6. \A w \in Workflows :
          /\ tasks[w] \in Seq(Task) /\ WorkflowFits(workflow[w], tasks[w])
          /\ \A i \in 1 .. Len(tasks[w]) : \A n \in 1 .. Len(tasks[w][i].attempts) :
               tasks[w][i].attempts[n].output # "SESSION"
    BY <2>2, <2>5, <1>InitialTasks
  <2>7. tasks \in [Workflows -> Seq(Task)]
    <3>1. tasks = [w \in Workflows |-> tasks[w]]
      BY DEF RemoteInit
    <3> QED
      BY <2>6, <3>1
  <2>8. Idle \in WorkerState /\ Idle.pc = "idle"
    BY SMT DEF WorkerState, Idle
  <2>9. worker \in [Workers -> WorkerState] /\ \A p \in Workers : worker[p].pc = "idle"
    BY <2>8 DEF RemoteInit
  <2>10. NoCall \in CallState /\ NoCall.pc = "idle"
    BY SMT DEF CallState, NoCall
  <2>11. call \in [Calls -> CallState] /\ \A c \in Calls : call[c].pc = "idle"
    BY <2>10 DEF RemoteInit
  <2>12. DOMAIN session = {}
    BY SMT DEF RemoteInit
  <2> USE <2>11
  <2>13. RemoteTypeOK
    BY <2>4, <2>7, <2>9, <2>12 DEF RemoteTypeOK, TypeOK
  <2>14. OneDispatch
    BY DEF OneDispatch, Pending
  <2>15. \A w \in Workflows : \A i \in Positions(w) : Known(w, i)
    BY <2>6 DEF Known, Positions
  <2> QED
    BY <2>6, <2>9, <2>12, <2>13, <2>14, <2>15 DEF RInv, WorkerFits, CallFits
<1> QED
  BY <1>InitRInv
-----------------------------------------------------------------------------
(* What a step does to a task *)

(* Attempts never disappear, one that has ended keeps its outcome, and one    *)
(* whose dispatch is recorded does not become a dispatch in progress again    *)
Keeps(old, new) ==
  /\ new.kind = old.kind
  /\ Len(old.attempts) <= Len(new.attempts)
  /\ \A n \in 1 .. Len(old.attempts) :
       /\ old.attempts[n].status # "RUNNING" =>
            /\ new.attempts[n].status = old.attempts[n].status
            /\ new.attempts[n].error_code = old.attempts[n].error_code
            /\ new.attempts[n].artifact = old.attempts[n].artifact
       /\ new.attempts[n].output = "DISPATCHING" => old.attempts[n].output = "DISPATCHING"

Kept ==
  \A w \in Workflows :
    Len(tasks[w]) <= Len(tasks'[w]) /\ \A i \in Positions(w) : Keeps(tasks[w][i], tasks'[w][i])

(* A dispatch in progress is not disturbed *)
StaysDispatching(old, new) == \A n : Dispatching(old, n) => Dispatching(new, n)

(* What Devin may be at work on stays the last attempt, and open *)
StaysWithDevin(old, new) == \A n : WithDevin(old, n) => WithDevin(new, n)

(* No session id is recorded *)
NoNewSession(old, new) ==
  \A n \in 1 .. Len(new.attempts) : new.attempts[n].output = "SESSION" =>
    n \in 1 .. Len(old.attempts) /\ old.attempts[n].output = "SESSION"

Undisturbed(old, new) ==
  Keeps(old, new) /\ StaysDispatching(old, new) /\ StaysWithDevin(old, new) /\ NoNewSession(old, new)

(* A step that leaves the attempts alone *)
LEMMA SameAttempts ==
  ASSUME NEW old \in Task, NEW new, new.kind = old.kind, new.attempts = old.attempts
  PROVE  Undisturbed(old, new)
<1>1. Len(old.attempts) <= Len(new.attempts)
  BY SMT DEF Task
<1>2. Keeps(old, new)
  BY <1>1 DEF Keeps
<1> QED
  BY <1>2 DEF Undisturbed, StaysDispatching, StaysWithDevin, NoNewSession, Dispatching, WithDevin

(* new is old with its last attempt, number n, replaced by a *)
LastEdited(old, new, n, a) ==
  /\ new.kind = old.kind /\ n = Len(old.attempts) /\ n # 0
  /\ new.attempts = [old.attempts EXCEPT ![n] = a]

EditsOnly(old, new, n, a) ==
  /\ n \in Nat /\ n \in 1 .. Len(old.attempts) /\ Len(new.attempts) = Len(old.attempts) /\ new.attempts[n] = a
  /\ \A m \in 1 .. Len(old.attempts) : m # n => new.attempts[m] = old.attempts[m]
  /\ \A m \in 1 .. Len(old.attempts) : m < n => new.attempts[m] = old.attempts[m]

LEMMA EditedAttempts ==
  ASSUME NEW old \in Task, NEW new, NEW a \in Attempt, NEW n, LastEdited(old, new, n, a)
  PROVE  EditsOnly(old, new, n, a)
<1>1. old.attempts \in Seq(Attempt) /\ n \in 1 .. Len(old.attempts) /\ n \in Nat
  BY SMT DEF Task, LastEdited
<1> USE <1>1
<1>2. /\ Len(new.attempts) = Len(old.attempts)
      /\ \A m \in 1 .. Len(old.attempts) : new.attempts[m] = IF m = n THEN a ELSE old.attempts[m]
  BY SMT, PutInSeq DEF LastEdited
<1>3. \A m \in 1 .. Len(old.attempts) : m < n => m # n
  BY SMT
<1> QED
  BY <1>2, <1>3 DEF EditsOnly

(* What a step that writes the last attempt leaves undisturbed *)
LEMMA EditKeeps ==
  ASSUME NEW old \in Task, NEW new, NEW a \in Attempt, NEW n, LastEdited(old, new, n, a),
         a.output = "DISPATCHING" => old.attempts[n].output = "DISPATCHING",
         old.attempts[n].status # "RUNNING" =>
           /\ a.status = old.attempts[n].status /\ a.error_code = old.attempts[n].error_code
           /\ a.artifact = old.attempts[n].artifact
  PROVE  Keeps(old, new)
<1>0. EditsOnly(old, new, n, a)
  BY EditedAttempts
<1>1. /\ n \in Nat /\ n \in 1 .. Len(old.attempts) /\ Len(new.attempts) = Len(old.attempts) /\ new.attempts[n] = a
      /\ \A m \in 1 .. Len(old.attempts) : m # n => new.attempts[m] = old.attempts[m]
      /\ \A m \in 1 .. Len(old.attempts) : m < n => new.attempts[m] = old.attempts[m]
  BY <1>0 DEF EditsOnly
<1>2. new.kind = old.kind /\ Len(old.attempts) \in Nat
  BY LenIsNat DEF LastEdited, Task
<1>3. Len(old.attempts) <= Len(new.attempts)
  BY SMT, <1>1, <1>2
<1> QED
  BY <1>1, <1>2, <1>3 DEF Keeps

(* An attempt that stays open with the output it has *)
SameOutput(old, n, a) == a.output = old.attempts[n].output

LEMMA StillOpen ==
  ASSUME NEW old \in Task, NEW new, NEW a \in Attempt, NEW n, LastEdited(old, new, n, a),
         a.status \in OpenStatus, SameOutput(old, n, a)
  PROVE  StaysDispatching(old, new) /\ StaysWithDevin(old, new) /\ NoNewSession(old, new)
<1>0. EditsOnly(old, new, n, a)
  BY EditedAttempts
<1>1. /\ n \in 1 .. Len(old.attempts) /\ Len(new.attempts) = Len(old.attempts) /\ new.attempts[n] = a
      /\ \A m \in 1 .. Len(old.attempts) : m # n => new.attempts[m] = old.attempts[m]
  BY <1>0 DEF EditsOnly
<1>2. new.kind = old.kind /\ n = Len(old.attempts)
  BY DEF LastEdited
<1> USE <1>1
<1>3. StaysDispatching(old, new)
  BY <1>2 DEF StaysDispatching, Dispatching, SameOutput
<1>4. StaysWithDevin(old, new)
  BY <1>2 DEF StaysWithDevin, WithDevin, SameOutput
<1>5. NoNewSession(old, new)
  BY DEF NoNewSession, SameOutput
<1> QED
  BY <1>3, <1>4, <1>5

(* Nothing is disturbed where nothing is written *)
LEMMA Untouched ==
  ASSUME NEW t \in Task
  PROVE  Undisturbed(t, t)
BY SameAttempts
-----------------------------------------------------------------------------
(* What a step leaves to the others *)

(* A call does nothing, no dispatch it has in progress is disturbed, and what *)
(* it knows of sessions stays true                                            *)
CallStays(c) ==
  /\ call'[c] = call[c]
  /\ Pending(c) => StaysDispatching(CallTask(c), tasks'[call[c].wf][call[c].pos])
  /\ \A s \in DOMAIN session : s \in DOMAIN session' /\ (session[s] # "running" => session'[s] # "running")
  /\ call[c].pc = "submitting" /\ SessionOf(c) \notin DOMAIN session => SessionOf(c) \notin DOMAIN session'

(* A session does not begin, and the attempt it works on stays open *)
SessionStays(s) ==
  session'[s] = "running" =>
    session[s] = "running" /\ StaysWithDevin(tasks[s[1]][s[2]], tasks'[s[1]][s[2]])

(* Who does nothing while tasks are only added to keeps what it relies on *)
LEMMA OthersKept ==
  RInv /\ RemoteTypeOK' /\ Kept =>
    /\ \A p \in Workers : worker'[p] = worker[p] => WorkerFits(p)'
    /\ \A c \in Calls : CallStays(c) => CallFits(c)'
    /\ \A s \in DOMAIN session : SessionStays(s) => SessionFits(s)'
(* A position stays one, and its task the same kind with no fewer attempts *)
<1>KeptTask.
  ASSUME RInv, RemoteTypeOK', Kept, NEW w \in Workflows, NEW i \in Positions(w)
  PROVE  /\ i \in Positions(w)'
         /\ tasks'[w][i].kind = tasks[w][i].kind
         /\ \A n \in 1 .. Len(tasks[w][i].attempts) :
              /\ n \in 1 .. Len(tasks'[w][i].attempts)
              /\ tasks[w][i].attempts[n].output # "DISPATCHING" => tasks'[w][i].attempts[n].output # "DISPATCHING"
  <2> USE <1>KeptTask
  <2>1. Keeps(tasks[w][i], tasks'[w][i]) /\ Len(tasks[w]) <= Len(tasks'[w])
    BY DEF Kept
  <2>2. tasks[w] \in Seq(Task) /\ tasks'[w] \in Seq(Task)
    BY DEF RInv, RemoteTypeOK, TypeOK
  <2> USE <2>1
  <2>3. i \in Positions(w)'
    BY SMT, <2>2 DEF Positions
  <2>4. Len(tasks[w][i].attempts) \in Nat /\ Len(tasks'[w][i].attempts) \in Nat
    <3>1. tasks'[w][i] \in Task
      BY SMT, <2>2, <2>3 DEF Positions
    <3> QED
      BY <3>1, RemoteTask, LenIsNat DEF Task
  <2>5. Len(tasks[w][i].attempts) <= Len(tasks'[w][i].attempts)
    BY DEF Keeps
  <2>6. \A n \in 1 .. Len(tasks[w][i].attempts) : n \in 1 .. Len(tasks'[w][i].attempts)
    BY SMT, <2>4, <2>5
  <2> QED
    BY <2>3, <2>6 DEF Keeps
(* A worker that does nothing keeps its task *)
<1>WorkerKept.
  ASSUME RInv, RemoteTypeOK', Kept, NEW p \in Workers, worker'[p] = worker[p]
  PROVE  WorkerFits(p)'
  <2> USE <1>WorkerKept
  <2>1. SUFFICES ASSUME worker[p].pc # "idle" PROVE WorkerFits(p)'
    BY DEF WorkerFits
  <2> DEFINE w == worker[p].wf
             i == worker[p].pos
  <2>2. /\ w \in Workflows /\ i \in Positions(w) /\ tasks[w][i].kind = "IMPLEMENT"
        /\ worker[p].pc = "executing" => worker[p].attempt \in 1 .. Len(tasks[w][i].attempts)
    BY <2>1 DEF RInv, WorkerFits, HeldTask
  <2>3. /\ i \in Positions(w)' /\ tasks'[w][i].kind = "IMPLEMENT"
        /\ worker[p].pc = "executing" => worker[p].attempt \in 1 .. Len(tasks'[w][i].attempts)
    BY <2>2, <1>KeptTask
  <2> QED
    BY <2>2, <2>3 DEF WorkerFits, HeldTask
(* A call that does nothing can go on relying on what it has established,    *)
(* as long as no dispatch it has in progress is disturbed                    *)
<1>CallKept.
  ASSUME RInv, RemoteTypeOK', Kept, NEW c \in Calls, call'[c] = call[c],
         Pending(c) => StaysDispatching(CallTask(c), tasks'[call[c].wf][call[c].pos]),
         \A s \in DOMAIN session : s \in DOMAIN session' /\ (session[s] # "running" => session'[s] # "running"),
         call[c].pc = "submitting" /\ SessionOf(c) \notin DOMAIN session => SessionOf(c) \notin DOMAIN session'
  PROVE  CallFits(c)'
  <2> USE <1>CallKept
  <2>1. SUFFICES ASSUME call[c].pc # "idle" PROVE CallFits(c)'
    BY DEF CallFits
  <2> DEFINE w == call[c].wf
             i == call[c].pos
             n == call[c].attempt
  <2>2. CallFits(c)
    BY DEF RInv
  <2> USE <2>1, <2>2
  <2>3. w \in Workflows /\ i \in Positions(w) /\ tasks[w][i].kind = "IMPLEMENT"
    BY DEF CallFits, CallTask
  <2>4. /\ i \in Positions(w)' /\ tasks'[w][i].kind = "IMPLEMENT"
        /\ \A m \in 1 .. Len(tasks[w][i].attempts) :
             /\ m \in 1 .. Len(tasks'[w][i].attempts)
             /\ tasks[w][i].attempts[m].output # "DISPATCHING" => tasks'[w][i].attempts[m].output # "DISPATCHING"
    BY <2>3, <1>KeptTask
  <2>5. CallTask(c)' = tasks'[w][i] /\ SessionOf(c)' = SessionOf(c)
    BY DEF CallTask, SessionOf
  <2> USE <2>5
  <2>6. Pending(c)' => Dispatching(CallTask(c), n)' /\ Pending(c)
    <3>1. Pending(c)' <=> Pending(c)
      BY DEF Pending
    <3>2. Pending(c) => Dispatching(CallTask(c), n)
      BY DEF CallFits
    <3>3. Pending(c) => Dispatching(tasks'[w][i], n)
      BY <3>2 DEF StaysDispatching
    <3> QED
      BY <3>1, <3>3 DEF Dispatching
  <2>7. call[c].pc = "observed" => ObservedFits(c)'
    <3>1. SUFFICES ASSUME call[c].pc = "observed" PROVE ObservedFits(c)'
      OBVIOUS
    <3>2. /\ n \in 1 .. Len(tasks[w][i].attempts) /\ tasks[w][i].attempts[n].output # "DISPATCHING"
          /\ SessionOf(c) \in DOMAIN session
          /\ call[c].seen \in {"SUCCEEDED", "ENDED"} => session[SessionOf(c)] # "running"
      BY <3>1 DEF CallFits, ObservedFits, CallTask
    <3>3. /\ n \in 1 .. Len(tasks'[w][i].attempts) /\ tasks'[w][i].attempts[n].output # "DISPATCHING"
          /\ SessionOf(c) \in DOMAIN session'
          /\ call[c].seen \in {"SUCCEEDED", "ENDED"} => session'[SessionOf(c)] # "running"
      BY <2>4, <3>2
    <3> QED
      BY <3>3 DEF ObservedFits
  <2>8. /\ call[c].pc = "submitting" => SessionOf(c)' \notin DOMAIN session'
        /\ call[c].pc = "submitted" => SessionOf(c)' \in DOMAIN session'
        /\ call[c].pc = "evidence" => call[c].base # None
    BY DEF CallFits
  <2> QED
    BY <2>3, <2>4, <2>6, <2>7, <2>8 DEF CallFits
(* A session stays that of its attempt *)
<1>SessionKept.
  ASSUME RInv, RemoteTypeOK', Kept, NEW s \in DOMAIN session,
         session'[s] = "running" =>
           session[s] = "running" /\ StaysWithDevin(tasks[s[1]][s[2]], tasks'[s[1]][s[2]])
  PROVE  SessionFits(s)'
  <2> USE <1>SessionKept
  <2>1. SessionFits(s) /\ s[1] \in Workflows
    BY SMT DEF RInv, RemoteTypeOK
  <2>2. /\ s[2] \in Positions(s[1]) /\ s[3] \in 1 .. Len(tasks[s[1]][s[2]].attempts)
        /\ session[s] = "running" => WithDevin(tasks[s[1]][s[2]], s[3])
    BY <2>1 DEF SessionFits
  <2>3. s[2] \in Positions(s[1])' /\ s[3] \in 1 .. Len(tasks'[s[1]][s[2]].attempts)
    BY <2>1, <2>2, <1>KeptTask
  <2>4. session'[s] = "running" => WithDevin(tasks'[s[1]][s[2]], s[3])
    BY <2>2 DEF StaysWithDevin
  <2> QED
    BY <2>3, <2>4 DEF SessionFits, WithDevin
<1> QED
  BY <1>WorkerKept, <1>CallKept, <1>SessionKept DEF CallStays, SessionStays
-----------------------------------------------------------------------------
(* Writes *)

(* A step of the engine that disturbs no attempt a remote agent works on *)
LEMMA EngineKept ==
  ASSUME RInv, TypeOK', UNCHANGED <<call, session>>,
         \A w \in Workflows : WorkflowFits(workflow'[w], tasks'[w]),
         \A p \in Workers : worker'[p] = worker[p] \/ WorkerFits(p)',
         \A w \in Workflows : Len(tasks[w]) <= Len(tasks'[w]),
         \A w \in Workflows : \A i \in Positions(w) : Undisturbed(tasks[w][i], tasks'[w][i]),
         \A w \in Workflows : \A i \in Positions(w)' : i \notin Positions(w) => Len(tasks'[w][i].attempts) = 0
  PROVE  RInv' /\ Kept
<1>1. RemoteTypeOK'
  BY DEF RInv, RemoteTypeOK
<1>2. Kept
  BY DEF Kept, Undisturbed
<1>3. \A p \in Workers : WorkerFits(p)'
  BY <1>1, <1>2, OthersKept
<1>4. ASSUME NEW c \in Calls PROVE CallFits(c)'
  <2>1. Pending(c) => StaysDispatching(CallTask(c), tasks'[call[c].wf][call[c].pos])
    <3>1. Pending(c) => call[c].pc # "idle"
      BY DEF Pending
    <3>2. Pending(c) => call[c].wf \in Workflows /\ call[c].pos \in Positions(call[c].wf)
      BY <3>1 DEF RInv, CallFits
    <3> QED
      BY <3>2 DEF CallTask, Undisturbed
  <2> QED
    BY <1>1, <1>2, <2>1, OthersKept DEF CallStays
<1>5. OneDispatch'
  BY DEF RInv, OneDispatch, Pending, SessionOf
<1>6. ASSUME NEW s \in DOMAIN session PROVE SessionFits(s)'
  <2>1. s[1] \in Workflows /\ s[2] \in Positions(s[1])
    BY SMT DEF RInv, RemoteTypeOK, SessionFits
  <2>2. StaysWithDevin(tasks[s[1]][s[2]], tasks'[s[1]][s[2]])
    BY <2>1 DEF Undisturbed
  <2> QED
    BY <1>1, <1>2, <2>2, OthersKept DEF SessionStays
<1>7. ASSUME NEW w \in Workflows, NEW i \in Positions(w)' PROVE Known(w, i)'
  <2>1. CASE i \in Positions(w)
    BY <2>1 DEF RInv, Known, Undisturbed, NoNewSession
  <2>2. CASE i \notin Positions(w)
    <3>1. Len(tasks'[w][i].attempts) = 0
      BY <2>2
    <3> QED
      BY SMT, <3>1 DEF Known
  <2> QED
    BY <2>1, <2>2
<1> QED
  BY <1>1, <1>2, <1>3, <1>4, <1>5, <1>6, <1>7 DEF RInv

(* ts is what the tasks of w become when the one at i is written, and perhaps *)
(* another one scheduled                                                      *)
Wrote(w, i, new, ts) ==
  /\ ts \in Seq(Task) /\ Len(tasks[w]) <= Len(ts)
  /\ ts[i] = new
  /\ \A j \in Positions(w) : j # i => ts[j] = tasks[w][j]
  /\ \A j \in 1 .. Len(ts) : j \notin Positions(w) => Len(ts[j].attempts) = 0

LEMMA PutWrites ==
  ASSUME RInv, NEW w \in Workflows, NEW i \in Positions(w), NEW new \in Task
  PROVE  Wrote(w, i, new, PutTask(w, i, new))
<1>1. tasks[w] \in Seq(Task) /\ i \in 1 .. Len(tasks[w])
  BY RemoteTask
<1> DEFINE ts == [tasks[w] EXCEPT ![i] = new]
<1>2. /\ ts \in Seq(Task) /\ Len(ts) = Len(tasks[w])
      /\ \A j \in 1 .. Len(tasks[w]) : ts[j] = IF j = i THEN new ELSE tasks[w][j]
  BY SMT, <1>1, PutInSeq
<1> HIDE DEF ts
<1>3. Wrote(w, i, new, ts)
  BY SMT, <1>1, <1>2 DEF Wrote, Positions
<1> QED
  BY <1>3 DEF PutTask, ts

LEMMA AppendWrites ==
  ASSUME RInv, NEW w \in Workflows, NEW i \in Positions(w), NEW new \in Task, NEW kind \in TaskKind
  PROVE  Wrote(w, i, new, Append(PutTask(w, i, new), NewTask(kind)))
<1> DEFINE put == PutTask(w, i, new)
           ts == Append(put, NewTask(kind))
<1>1. i \in 1 .. Len(tasks[w]) /\ tasks[w] \in Seq(Task)
  BY RemoteTask
<1>2. put \in Seq(Task) /\ Len(put) = Len(tasks[w]) /\ \A j \in 1 .. Len(tasks[w]) : put[j] = IF j = i THEN new ELSE tasks[w][j]
  BY SMT, <1>1, PutInSeq DEF PutTask
<1>3. NewTask(kind) \in Task /\ Len(NewTask(kind).attempts) = 0
  BY SMT, NewTaskFits DEF NewTask
<1> HIDE DEF put
<1>4. /\ ts \in Seq(Task) /\ Len(ts) = Len(put) + 1 /\ \A j \in 1 .. Len(put) : ts[j] = put[j]
      /\ ts[Len(put) + 1] = NewTask(kind)
  BY SMT, <1>2, <1>3, AppendToSeq
<1> HIDE DEF ts
<1>5. Wrote(w, i, new, ts)
  BY SMT, <1>1, <1>2, <1>3, <1>4 DEF Wrote, Positions
<1> QED
  BY <1>5 DEF ts, put

(* The step writes the task at i of w, perhaps schedules another, and leaves  *)
(* w with this row                                                            *)
Writes(w, i, new, ts, row) ==
  /\ Wrote(w, i, new, ts) /\ tasks' = [tasks EXCEPT ![w] = ts]
  /\ workflow' = [workflow EXCEPT ![w] = row]
  /\ WorkflowFits(row, ts)

(* What a write of one task does to the tables *)
LEMMA WritesKept ==
  ASSUME RInv, NEW w \in Workflows, NEW i \in Positions(w), NEW new \in Task, NEW ts, NEW row,
         Writes(w, i, new, ts, row)
  PROVE  /\ workflow' \in [Workflows -> WorkflowRow \cup {None}] /\ tasks' \in [Workflows -> Seq(Task)]
         /\ \A v \in Workflows : WorkflowFits(workflow'[v], tasks'[v])
         /\ \A v \in Workflows : Len(tasks[v]) <= Len(tasks'[v])
         /\ tasks'[w] = ts /\ tasks'[w][i] = new
         /\ \A v \in Workflows : \A j \in Positions(v) : v # w \/ j # i => tasks'[v][j] = tasks[v][j]
         /\ \A v \in Workflows : \A j \in Positions(v)' : j \notin Positions(v) => Len(tasks'[v][j].attempts) = 0
         /\ Keeps(tasks[w][i], new) => Kept
<1>1. /\ workflow \in [Workflows -> WorkflowRow \cup {None}] /\ tasks \in [Workflows -> Seq(Task)]
      /\ \A v \in Workflows : WorkflowFits(workflow[v], tasks[v])
  BY DEF RInv, RemoteTypeOK, TypeOK
<1>2. row \in WorkflowRow /\ ts \in Seq(Task)
  BY DEF WorkflowFits, RowFits, Writes, Wrote
<1>3. workflow' \in [Workflows -> WorkflowRow \cup {None}] /\ tasks' \in [Workflows -> Seq(Task)]
  BY <1>1, <1>2 DEF Writes
<1>4. /\ tasks'[w] = ts /\ workflow'[w] = row
      /\ \A v \in Workflows : v # w => tasks'[v] = tasks[v] /\ workflow'[v] = workflow[v]
  BY <1>1 DEF Writes
<1> USE <1>4
<1>5. \A v \in Workflows : WorkflowFits(workflow'[v], tasks'[v])
  BY <1>1 DEF Writes
<1>50. Wrote(w, i, new, ts)
  BY DEF Writes
<1> USE <1>50
<1>6. ASSUME NEW v \in Workflows PROVE Len(tasks[v]) <= Len(tasks'[v])
  <2>1. Len(tasks[v]) \in Nat
    BY <1>1, LenIsNat
  <2>2. Len(tasks[v]) <= Len(tasks[v])
    BY SMT, <2>1
  <2> QED
    BY <2>2 DEF Wrote
<1>7. tasks'[w][i] = new
  BY DEF Wrote
<1>8. \A v \in Workflows : \A j \in Positions(v) : v # w \/ j # i => tasks'[v][j] = tasks[v][j]
  BY DEF Wrote
<1>9. \A v \in Workflows : \A j \in Positions(v)' : j \notin Positions(v) => Len(tasks'[v][j].attempts) = 0
  BY DEF Wrote, Positions
<1>10. ASSUME Keeps(tasks[w][i], new) PROVE Kept
  <2>1. ASSUME NEW v \in Workflows, NEW j \in Positions(v) PROVE Keeps(tasks[v][j], tasks'[v][j])
    <3>1. Keeps(tasks[v][j], tasks[v][j])
      BY RemoteTask, Untouched DEF Undisturbed
    <3> QED
      BY <1>7, <1>8, <1>10, <3>1
  <2> QED
    BY <1>6, <2>1 DEF Kept
<1> QED
  BY <1>3, <1>5, <1>6, <1>7, <1>8, <1>9, <1>10

(* The engine writes one task *)
LEMMA EngineWrites ==
  ASSUME RInv, NEW w \in Workflows, NEW i \in Positions(w), NEW new \in Task, NEW ts, NEW row,
         Writes(w, i, new, ts, row), Undisturbed(tasks[w][i], new),
         worker' \in [Workers -> WorkerState], \A p \in Workers : worker'[p] = worker[p] \/ WorkerFits(p)',
         UNCHANGED <<call, session>>
  PROVE  RInv' /\ Kept
<1>1. /\ workflow' \in [Workflows -> WorkflowRow \cup {None}] /\ tasks' \in [Workflows -> Seq(Task)]
      /\ \A v \in Workflows : WorkflowFits(workflow'[v], tasks'[v])
      /\ \A v \in Workflows : Len(tasks[v]) <= Len(tasks'[v])
      /\ tasks'[w] = ts /\ tasks'[w][i] = new
      /\ \A v \in Workflows : \A j \in Positions(v) : v # w \/ j # i => tasks'[v][j] = tasks[v][j]
      /\ \A v \in Workflows : \A j \in Positions(v)' : j \notin Positions(v) => Len(tasks'[v][j].attempts) = 0
      /\ Keeps(tasks[w][i], new) => Kept
  BY WritesKept
<1> USE <1>1
<1>2. TypeOK'
  BY DEF TypeOK
<1>3. ASSUME NEW v \in Workflows, NEW j \in Positions(v) PROVE Undisturbed(tasks[v][j], tasks'[v][j])
  <2>1. Undisturbed(tasks[v][j], tasks[v][j])
    BY RemoteTask, Untouched
  <2> QED
    BY <2>1
<1> QED
  BY <1>2, <1>3, EngineKept
-----------------------------------------------------------------------------
(* The tasks of a workflow *)

(* An implementation that is neither accepted nor superseded is the last task *)
LEMMA OpenIsLast ==
  ASSUME NEW row, NEW ts \in Seq(Task), WorkflowFits(row, ts), NEW i \in 1 .. Len(ts),
         ts[i].kind = "IMPLEMENT", ts[i].status \notin {"SUCCEEDED", "RECONCILED"}
  PROVE  i = Len(ts) /\ Drives(row.state, ts[i]) /\ row.candidate_revision = None
<1>1. ~Past(ts, i)
  BY DEF Past, Superseded, Accepted
<1>2. ~(i < Len(ts))
  BY <1>1 DEF WorkflowFits
<1>3. i = Len(ts)
  BY SMT, <1>2
<1> QED
  BY <1>3 DEF WorkflowFits, ResultFits

(* Before the last task there are only past ones, and while it is an          *)
(* implementation none of them was accepted                                   *)
LEMMA EarlierPast ==
  ASSUME NEW row, NEW ts \in Seq(Task), WorkflowFits(row, ts), NEW i \in 1 .. Len(ts), i = Len(ts),
         ts[i].kind = "IMPLEMENT", NEW j \in 1 .. Len(ts), j # i
  PROVE  /\ TaskFits(ts[j]) /\ j < Len(ts)
         /\ ts[j].kind \in {"PLAN", "ARCHITECTURE_REVIEW"} \/ Superseded(ts[j])
<1>1. j < Len(ts)
  BY SMT
<1>2. TaskFits(ts[j]) /\ Past(ts, j)
  BY <1>1 DEF WorkflowFits
<1>3. ~(j + 1 = Len(ts) /\ ts[j + 1].kind = "TEST")
  OBVIOUS
<1> QED
  BY <1>1, <1>2, <1>3 DEF Past

(* The last implementation goes on *)
LEMMA LastMoves ==
  ASSUME NEW row, NEW ts \in Seq(Task), WorkflowFits(row, ts), NEW i \in 1 .. Len(ts),
         ts[i].kind = "IMPLEMENT", ts[i].status \notin {"SUCCEEDED", "RECONCILED"},
         NEW new \in Task, new.kind = "IMPLEMENT", ImplementFits(new), new.status # "SUCCEEDED",
         NEW next, RowFits(next), next.candidate_revision = row.candidate_revision, Drives(next.state, new)
  PROVE  WorkflowFits(next, [ts EXCEPT ![i] = new])
<1> DEFINE us == [ts EXCEPT ![i] = new]
<1>1. i = Len(ts) /\ row.candidate_revision = None
  BY OpenIsLast
<1> USE <1>1
<1>2. Len(us) = Len(ts) /\ us[Len(us)] = new /\ \A j \in 1 .. Len(ts) : us[j] = IF j = i THEN new ELSE ts[j]
  BY SMT, PutInSeq
<1> HIDE DEF us
<1>3. TaskFits(new)
  BY DEF TaskFits
<1> USE <1>2
<1>4. ASSUME NEW j \in 1 .. Len(ts), j # i
      PROVE  TaskFits(ts[j]) /\ us[j] = ts[j] /\ Past(us, j)
  <2>1. TaskFits(ts[j]) /\ (ts[j].kind \in {"PLAN", "ARCHITECTURE_REVIEW"} \/ Superseded(ts[j]))
    BY <1>4, EarlierPast
  <2> QED
    BY <1>4, <2>1 DEF Past
<1>5. \A j \in 1 .. Len(ts) : TaskFits(us[j])
  BY <1>3, <1>4
<1>6. \A j \in 1 .. Len(ts) : j < Len(ts) => Past(us, j)
  <2>1. \A j \in 1 .. Len(ts) : j < Len(ts) => j # i
    BY SMT
  <2> QED
    BY <1>4, <2>1
<1>7. ResultFits(next, us)
  BY DEF ResultFits
<1>8. Len(us) # 0
  BY SMT
<1>9. WorkflowFits(next, us)
  BY <1>5, <1>6, <1>7, <1>8 DEF WorkflowFits
<1> QED
  BY <1>9 DEF us

(* What a new task looks like *)
(* The last implementation is accepted, or superseded by another one *)
LEMMA LastFollowed ==
  ASSUME NEW row, NEW ts \in Seq(Task), WorkflowFits(row, ts), NEW i \in 1 .. Len(ts),
         ts[i].kind = "IMPLEMENT", ts[i].status \notin {"SUCCEEDED", "RECONCILED"},
         NEW new \in Task, new.kind = "IMPLEMENT", ImplementFits(new),
         NEW kind \in {"IMPLEMENT", "TEST"},
         NEW next, RowFits(next),
         kind = "TEST" => /\ Accepted(new) /\ next.state = "TESTING"
                          /\ next.candidate_revision = LastAttempt(new).artifact /\ next.candidate_revision # None,
         kind = "IMPLEMENT" => /\ Superseded(new) /\ next.state = "IMPLEMENTING"
                               /\ next.candidate_revision = row.candidate_revision
  PROVE  WorkflowFits(next, Append([ts EXCEPT ![i] = new], NewTask(kind)))
<1> DEFINE put == [ts EXCEPT ![i] = new]
           us == Append(put, NewTask(kind))
<1>1. i = Len(ts) /\ row.candidate_revision = None
  BY OpenIsLast
<1>2. put \in Seq(Task) /\ Len(put) = Len(ts) /\ \A j \in 1 .. Len(ts) : put[j] = IF j = i THEN new ELSE ts[j]
  BY SMT, PutInSeq
<1> HIDE DEF put
<1>3. TaskFits(NewTask(kind)) /\ kind \in TaskKind
  BY NewTaskTaskFits
<1>4. NewTask(kind) \in Task /\ NewTask(kind).kind = kind /\ NewTask(kind).status = "READY"
  BY <1>3, NewTaskFits
<1>5. /\ Len(us) = i + 1 /\ i \in Nat /\ us[i + 1] = NewTask(kind)
      /\ \A j \in 1 .. i : us[j] = IF j = i THEN new ELSE ts[j]
  BY SMT, <1>1, <1>2, <1>4, AppendToSeq
<1> HIDE DEF us
<1> USE <1>5
<1>6. us[i] = new /\ \A j \in 1 .. Len(us) : j \in 1 .. i \/ j = i + 1
  BY SMT
<1>7. TaskFits(new)
  BY DEF TaskFits
<1>8. ASSUME NEW j \in 1 .. i, j # i
      PROVE  TaskFits(us[j]) /\ Past(us, j)
  <2>1. TaskFits(ts[j]) /\ (ts[j].kind \in {"PLAN", "ARCHITECTURE_REVIEW"} \/ Superseded(ts[j]))
    BY <1>1, <1>8, EarlierPast
  <2>2. us[j] = ts[j]
    BY <1>8
  <2> QED
    BY <2>1, <2>2 DEF Past
<1>9. \A j \in 1 .. Len(us) : TaskFits(us[j])
  BY <1>3, <1>6, <1>7, <1>8
<1>10. Past(us, i)
  BY <1>4, <1>6 DEF Past
<1>11. \A j \in 1 .. Len(us) : j < Len(us) => Past(us, j)
  <2>1. \A j \in 1 .. Len(us) : j < Len(us) => j \in 1 .. i
    BY SMT
  <2> QED
    BY <1>8, <1>10, <2>1
<1>12. us[Len(us)] = NewTask(kind) /\ Drives(next.state, NewTask(kind))
  BY <1>4 DEF Drives
<1> USE <1>12
<1>13. ResultFits(next, us)
  <2>1. Len(us) - 1 = i /\ Len(us) > 1
    BY SMT
  <2>2. CASE kind = "TEST"
    BY <1>4, <1>6, <2>1, <2>2 DEF ResultFits
  <2>3. CASE kind = "IMPLEMENT"
    BY <1>1, <1>4, <2>3 DEF ResultFits
  <2> QED
    BY <2>2, <2>3
<1>14. Len(us) # 0
  BY SMT
<1>15. WorkflowFits(next, us)
  BY <1>9, <1>11, <1>13, <1>14 DEF WorkflowFits
<1> QED
  BY <1>15 DEF us, put
-----------------------------------------------------------------------------
(* Moving the implementation of a workflow *)

(* The step writes the task at i of w and the row of w *)
Puts(w, i, new, row) ==
  /\ tasks' = [tasks EXCEPT ![w] = PutTask(w, i, new)]
  /\ workflow' = [workflow EXCEPT ![w] = row]

(* new is what the open implementation at i can become in a workflow with    *)
(* this row                                                                  *)
Moves(w, i, new, row) ==
  /\ tasks[w][i].kind = "IMPLEMENT" /\ tasks[w][i].status \notin {"SUCCEEDED", "RECONCILED"}
  /\ new \in Task /\ new.kind = "IMPLEMENT" /\ ImplementFits(new) /\ new.status # "SUCCEEDED"
  /\ RowFits(row) /\ row.candidate_revision = workflow[w].candidate_revision /\ Drives(row.state, new)

LEMMA MoveWrites ==
  ASSUME RInv, NEW w \in Workflows, NEW i \in Positions(w), NEW new, NEW row,
         Moves(w, i, new, row), Puts(w, i, new, row)
  PROVE  new \in Task /\ Writes(w, i, new, PutTask(w, i, new), row)
<1>1. /\ tasks[w] \in Seq(Task) /\ i \in 1 .. Len(tasks[w])
      /\ WorkflowFits(workflow[w], tasks[w])
  BY RemoteTask
<1>2. WorkflowFits(row, [tasks[w] EXCEPT ![i] = new])
  BY <1>1, LastMoves DEF Moves
<1>3. Wrote(w, i, new, PutTask(w, i, new))
  BY PutWrites DEF Moves
<1> QED
  BY <1>2, <1>3 DEF Writes, Puts, PutTask, Moves

(* A row that is not written *)
LEMMA SameRow ==
  ASSUME RInv, NEW w \in Workflows, UNCHANGED workflow
  PROVE  workflow' = [workflow EXCEPT ![w] = workflow[w]]
BY DEF RInv, RemoteTypeOK, TypeOK

(* Facts about an open implementation task *)
LEMMA OpenTask ==
  ASSUME RInv, NEW w \in Workflows, NEW i \in Positions(w),
         tasks[w][i].kind = "IMPLEMENT", tasks[w][i].status \notin {"SUCCEEDED", "RECONCILED"}
  PROVE  /\ i = Len(tasks[w]) /\ Drives(workflow[w].state, tasks[w][i])
         /\ RowFits(workflow[w]) /\ workflow[w].candidate_revision = None /\ workflow[w] \in WorkflowRow
         /\ tasks[w][i] \in Task /\ ImplementFits(tasks[w][i])
<1>1. /\ tasks[w] \in Seq(Task) /\ i \in 1 .. Len(tasks[w]) /\ tasks[w][i] \in Task
      /\ WorkflowFits(workflow[w], tasks[w]) /\ RowFits(workflow[w]) /\ workflow[w] \in WorkflowRow
      /\ ImplementFits(tasks[w][i])
  BY RemoteTask
<1> QED
  BY <1>1, OpenIsLast

(* A leased or running task is an implementation *)
LEMMA HeldIsImplement ==
  ASSUME RInv, NEW w \in Workflows, NEW i \in Positions(w), tasks[w][i].status \in {"LEASED", "RUNNING", "BLOCKED"}
  PROVE  tasks[w][i].kind = "IMPLEMENT"
BY RemoteTask DEF TaskFits

(* Workers are typed, and each is as before or holds an implementation *)
WorkersStep ==
  worker' \in [Workers -> WorkerState] /\ \A p \in Workers : worker'[p] = worker[p] \/ WorkerFits(p)'

LEMMA WorkersStay ==
  ASSUME RInv, UNCHANGED worker
  PROVE  WorkersStep
BY DEF RInv, RemoteTypeOK, TypeOK, WorkersStep

LEMMA WorkerDrops ==
  ASSUME RInv, NEW p \in Workers, worker' = [worker EXCEPT ![p] = Idle]
  PROVE  WorkersStep
<1>1. Idle \in WorkerState /\ Idle.pc = "idle"
  BY SMT DEF Idle, WorkerState
<1>2. worker \in [Workers -> WorkerState]
  BY DEF RInv, RemoteTypeOK, TypeOK
<1>3. worker' \in [Workers -> WorkerState] /\ worker'[p] = Idle /\ \A q \in Workers : q # p => worker'[q] = worker[q]
  BY <1>1, <1>2
<1>4. WorkerFits(p)'
  BY <1>1, <1>3 DEF WorkerFits
<1> QED
  BY <1>3, <1>4 DEF WorkersStep

(* A worker goes on with k, on the task at i of w *)
WorkerBecomes(p, k, w, i) ==
  k \in WorkerState /\ k.wf = w /\ k.pos = i /\ worker' = [worker EXCEPT ![p] = k]

(* The task a worker holds *)
LEMMA HeldRemote ==
  ASSUME RInv, NEW p \in Workers, worker[p].pc # "idle"
  PROVE  LET w == worker[p].wf
             i == worker[p].pos
         IN /\ w \in Workflows /\ i \in Positions(w) /\ HeldTask(p) = tasks[w][i]
            /\ tasks[w][i] \in Task /\ tasks[w][i].kind = "IMPLEMENT"
            /\ worker[p].pc = "executing" => worker[p].attempt \in 1 .. Len(tasks[w][i].attempts)
            /\ worker[p] \in WorkerState
<1>1. WorkerFits(p) /\ worker[p] \in WorkerState
  BY DEF RInv, RemoteTypeOK, TypeOK
<1> QED
  BY <1>1, RemoteTask DEF WorkerFits, HeldTask

(* The engine moves an implementation *)
LEMMA EngineMoves ==
  ASSUME RInv, NEW w \in Workflows, NEW i \in Positions(w), NEW new, NEW row,
         Moves(w, i, new, row), Puts(w, i, new, row), Undisturbed(tasks[w][i], new),
         WorkersStep, UNCHANGED <<call, session>>
  PROVE  RInv' /\ Kept
<1>1. new \in Task /\ Writes(w, i, new, PutTask(w, i, new), row)
  BY MoveWrites
<1> QED
  BY <1>1, EngineWrites DEF WorkersStep

(* An attempt is added after failed ones *)
LEMMA Appended ==
  ASSUME NEW old \in Task, ImplementFits(old), old.status \in {"READY", "LEASED"}, NEW a \in Attempt,
         a.output # "SESSION", NEW new \in Task, new.kind = old.kind, new.attempts = Append(old.attempts, a)
  PROVE  /\ EarlierFailed(new) /\ Len(new.attempts) = Len(old.attempts) + 1 /\ Len(new.attempts) # 0
         /\ LastAttempt(new) = a /\ Undisturbed(old, new)
<1>1. Len(old.attempts) # 0 => LastAttempt(old).status = "FAILED"
  BY DEF ImplementFits, AttemptsFit, EndsIn
<1>2. /\ Len(old.attempts) \in Nat /\ Len(new.attempts) = Len(old.attempts) + 1
      /\ \A n \in 1 .. Len(old.attempts) : new.attempts[n] = old.attempts[n]
      /\ new.attempts[Len(old.attempts) + 1] = a
  BY SMT, AppendToSeq, LenIsNat DEF Task
<1> USE <1>2
<1>3. Undisturbed(old, new)
  <2>1. Keeps(old, new) /\ NoNewSession(old, new)
    BY SMT DEF Keeps, NoNewSession
  <2>2. \A n : ~Dispatching(old, n) /\ ~WithDevin(old, n)
    BY <1>1 DEF Dispatching, WithDevin, LastAttempt, OpenStatus
  <2> QED
    BY <2>1, <2>2 DEF Undisturbed, StaysDispatching, StaysWithDevin
<1>4. EarlierFailed(new)
  <2>1. SUFFICES ASSUME NEW n \in 1 .. Len(new.attempts), n < Len(new.attempts)
                 PROVE  new.attempts[n].status = "FAILED"
    BY DEF EarlierFailed
  <2>2. n \in 1 .. Len(old.attempts) /\ (n < Len(old.attempts) \/ n = Len(old.attempts)) /\ Len(old.attempts) # 0
    BY SMT, <2>1
  <2>3. new.attempts[n] = old.attempts[n]
    BY <2>2
  <2> QED
    BY <1>1, <2>2, <2>3 DEF ImplementFits, AttemptsFit, EarlierFailed, LastAttempt
<1>5. Len(new.attempts) # 0
  BY SMT
<1> QED
  BY <1>3, <1>4, <1>5 DEF LastAttempt

(* The last attempt is written *)
LEMMA Rewritten ==
  ASSUME NEW old \in Task, ImplementFits(old), NEW n, NEW a \in Attempt, NEW new, LastEdited(old, new, n, a)
  PROVE  /\ EarlierFailed(new) /\ Len(new.attempts) = Len(old.attempts) /\ Len(new.attempts) # 0
         /\ LastAttempt(new) = a /\ LastAttempt(old) = old.attempts[n]
<1>0. EditsOnly(old, new, n, a)
  BY EditedAttempts
<1>1. /\ n \in Nat /\ n \in 1 .. Len(old.attempts) /\ Len(new.attempts) = Len(old.attempts) /\ new.attempts[n] = a
      /\ \A m \in 1 .. Len(old.attempts) : m # n => new.attempts[m] = old.attempts[m]
      /\ \A m \in 1 .. Len(old.attempts) : m < n => new.attempts[m] = old.attempts[m]
  BY <1>0 DEF EditsOnly
<1>2. n = Len(old.attempts) /\ n # 0
  BY DEF LastEdited
<1>3. EarlierFailed(new)
  BY <1>1, <1>2 DEF ImplementFits, AttemptsFit, EarlierFailed
<1> QED
  BY <1>1, <1>2, <1>3 DEF LastAttempt

(* A task with no lease and no grant fits with its last attempt *)
LEMMA EndedFits ==
  ASSUME NEW new, EarlierFailed(new), Len(new.attempts) # 0, EndsIn(new.status, LastAttempt(new).status),
         new.lease_owner = "NULL", new.grant = "INACTIVE", new.status \notin {"READY", "LEASED"}
  PROVE  ImplementFits(new)
<1>1. AttemptsFit(new)
  BY DEF AttemptsFit
<1>2. LeaseFits(new) /\ GrantHeld(new)
  BY DEF LeaseFits, GrantHeld, DEVIN_PRINCIPAL, WINDSURF_PRINCIPAL
<1> QED
  BY <1>1, <1>2 DEF ImplementFits
-----------------------------------------------------------------------------
(* The steps of the engine *)

(* A worker takes up an implementation task and begins an attempt at it *)
LEMMA TakeUpSteps ==
  RInv /\ UNCHANGED <<call, session>> => \A p \in Workers :
    /\ \A w \in Workflows : \A i \in Positions(w) :
         LeaseNextTask(p, w, i) /\ tasks[w][i].kind = "IMPLEMENT" => RInv' /\ Kept
    /\ \A provider \in Providers : PrepareExecution(p, provider) => RInv' /\ Kept
<1>WorkerHolds.
  ASSUME RInv, NEW w \in Workflows, NEW i \in Positions(w), NEW new \in Task, NEW ts, NEW row,
         Writes(w, i, new, ts, row), new.kind = "IMPLEMENT",
         NEW p \in Workers, NEW k, WorkerBecomes(p, k, w, i),
         k.pc = "executing" => k.attempt \in 1 .. Len(new.attempts)
  PROVE  WorkersStep
  <2> USE <1>WorkerHolds
  <2>1. worker \in [Workers -> WorkerState] /\ i \in 1 .. Len(tasks[w]) /\ Len(tasks[w]) \in Nat
    BY RemoteTask DEF RInv, RemoteTypeOK, TypeOK
  <2>2. worker' \in [Workers -> WorkerState] /\ worker'[p] = k /\ \A q \in Workers : q # p => worker'[q] = worker[q]
    BY <2>1 DEF WorkerBecomes
  <2>3. /\ workflow' \in [Workflows -> WorkflowRow \cup {None}] /\ tasks' \in [Workflows -> Seq(Task)]
        /\ \A v \in Workflows : WorkflowFits(workflow'[v], tasks'[v])
        /\ \A v \in Workflows : Len(tasks[v]) <= Len(tasks'[v])
        /\ tasks'[w] = ts /\ tasks'[w][i] = new
        /\ \A v \in Workflows : \A j \in Positions(v) : v # w \/ j # i => tasks'[v][j] = tasks[v][j]
        /\ \A v \in Workflows : \A j \in Positions(v)' : j \notin Positions(v) => Len(tasks'[v][j].attempts) = 0
        /\ Keeps(tasks[w][i], new) => Kept
    BY WritesKept
  <2>4. i \in Positions(w)'
    <3>1. tasks'[w] \in Seq(Task) /\ Len(tasks[w]) <= Len(tasks'[w])
      BY <2>3
    <3> QED
      BY SMT, <2>1, <3>1 DEF Positions
  <2> USE <2>2
  <2>5. HeldTask(p)' = new
    BY <2>3 DEF HeldTask, WorkerBecomes
  <2>6. WorkerFits(p)'
    BY <2>4, <2>5 DEF WorkerFits, WorkerBecomes
  <2> QED
    BY <2>6 DEF WorkersStep
(* The number of an added attempt is one of the new ones *)
<1>SuccessorInRange.
  ASSUME NEW n \in Nat, NEW m, m = n + 1
  PROVE  n + 1 \in 1 .. m
  BY SMT, <1>SuccessorInRange
(* lease_next_task on an implementation *)
<1>RemoteLease.
  ASSUME RInv, NEW p \in Workers, NEW w \in Workflows, NEW i \in Positions(w), LeaseNextTask(p, w, i),
         tasks[w][i].kind = "IMPLEMENT", UNCHANGED <<call, session>>
  PROVE  RInv' /\ Kept
  <2> USE <1>RemoteLease
  <2> DEFINE task == tasks[w][i]
             k == [pc |-> "leased", wf |-> w, pos |-> i, token |-> FreshToken, attempt |-> 0]
  <2>1. /\ task.status = "READY" /\ Tokens \ TokensInUse # {} /\ UNCHANGED workflow
        /\ worker' = [worker EXCEPT ![p] = k]
    BY DEF LeaseNextTask
  <2>2. /\ Drives(workflow[w].state, task) /\ RowFits(workflow[w]) /\ task \in Task /\ ImplementFits(task)
        /\ i \in Nat
    <3>1. i \in Nat
      BY SMT DEF Positions
    <3> QED
      BY <2>1, <3>1, OpenTask
  <2>3. FreshToken \in Tokens
    BY <2>1 DEF FreshToken
  <2>4. PICK new : /\ TaskIs(new, "IMPLEMENT", "LEASED", "orchestrator", task.grant, task.attempts)
                   /\ tasks' = [tasks EXCEPT ![w] = PutTask(w, i, new)]
    <3> DEFINE t1 == [task EXCEPT !.status = "LEASED"]
               t2 == [t1 EXCEPT !.lease_owner = "orchestrator"]
               t3 == [t2 EXCEPT !.lease_token = FreshToken]
               t4 == [t3 EXCEPT !.lease_left = LeaseTicks]
    <3>1. tasks' = [tasks EXCEPT ![w] = PutTask(w, i, t4)]
      BY DEF LeaseNextTask
    <3>2. TaskIs(t1, "IMPLEMENT", "LEASED", task.lease_owner, task.grant, task.attempts)
      BY <2>2, StatusIs DEF TaskStatus
    <3> HIDE DEF t1
    <3>3. TaskIs(t2, "IMPLEMENT", "LEASED", "orchestrator", task.grant, task.attempts)
      BY <3>2, OwnerIs DEF TaskIs
    <3> HIDE DEF t2
    <3>4. TaskIs(t3, "IMPLEMENT", "LEASED", "orchestrator", task.grant, task.attempts)
      BY <2>3, <3>3, TokenIs DEF TaskIs
    <3> HIDE DEF t3
    <3>5. TaskIs(t4, "IMPLEMENT", "LEASED", "orchestrator", task.grant, task.attempts)
      BY <3>4, LeftIs, LeaseRange DEF TaskIs
    <3> HIDE DEF t4
    <3> QED
      BY <3>1, <3>5
  <2>5. /\ new \in Task /\ new.kind = "IMPLEMENT" /\ new.status = "LEASED" /\ new.lease_owner = "orchestrator"
        /\ new.grant = task.grant /\ new.attempts = task.attempts
    BY <2>4 DEF TaskIs
  <2> USE <2>5
  <2>6. ImplementFits(new)
    <3>1. AttemptsFit(new) /\ GrantHeld(new)
      BY <2>1, <2>2
         DEF ImplementFits, AttemptsFit, EarlierFailed, EndsIn, LastAttempt, GrantHeld, LiveStatus
    <3>2. LeaseFits(new)
      BY DEF LeaseFits, DEVIN_PRINCIPAL, WINDSURF_PRINCIPAL
    <3> QED
      BY <3>1, <3>2 DEF ImplementFits
  <2>7. Moves(w, i, new, workflow[w])
    BY <2>1, <2>2, <2>6 DEF Moves, Drives
  <2>8. Puts(w, i, new, workflow[w])
    BY <2>1, <2>4, SameRow DEF Puts
  <2>9. Undisturbed(task, new)
    BY <2>2, SameAttempts
  <2>10. WorkerBecomes(p, k, w, i)
    <3>1. k \in WorkerState /\ k.wf = w /\ k.pos = i
      BY SMT, <2>2, <2>3 DEF WorkerState
    <3> HIDE DEF k
    <3> QED
      BY <2>1, <3>1 DEF WorkerBecomes
  <2>11. k.pc # "executing"
    OBVIOUS
  <2> HIDE DEF k
  <2>12. new \in Task /\ Writes(w, i, new, PutTask(w, i, new), workflow[w])
    BY <2>7, <2>8, MoveWrites
  <2>13. WorkersStep
    BY <2>10, <2>11, <2>12, <1>WorkerHolds
  <2> QED
    BY <2>7, <2>8, <2>9, <2>13, EngineMoves
(* _prepare_execution with a provider *)
<1>RemotePrepare.
  ASSUME RInv, NEW p \in Workers, NEW provider \in Providers, PrepareExecution(p, provider),
         UNCHANGED <<call, session>>
  PROVE  RInv' /\ Kept
  <2> USE <1>RemotePrepare
  <2> DEFINE w == worker[p].wf
             i == worker[p].pos
             task == tasks[w][i]
             a == [status |-> "RUNNING", error_code |-> None, provider |-> provider,
                   examined |-> workflow[w].candidate_revision, artifact |-> None,
                   output |-> "NULL", reconciliation |-> "NULL"]
             k1 == [worker[p] EXCEPT !.pc = "executing"]
             k == [k1 EXCEPT !.attempt = Len(task.attempts) + 1]
  <2>1. worker[p].pc = "leased" /\ worker[p].pc # "idle"
    BY DEF PrepareExecution
  <2>2. /\ w \in Workflows /\ i \in Positions(w) /\ HeldTask(p) = task
        /\ task \in Task /\ task.kind = "IMPLEMENT" /\ worker[p] \in WorkerState
    BY <2>1, HeldRemote
  <2> USE <2>2
  <2>3. task.status = "LEASED" /\ task.lease_owner = "orchestrator" /\ task.grant = "ACTIVE" /\ UNCHANGED workflow
    BY DEF PrepareExecution, PrepareAllowed, HoldsLease
  <2>4. /\ Drives(workflow[w].state, task) /\ RowFits(workflow[w]) /\ ImplementFits(task)
        /\ workflow[w] \in WorkflowRow
    BY <2>3, OpenTask
  <2>5. a \in Attempt /\ a.status = "RUNNING" /\ a.output = "NULL"
    <3>1. workflow[w].candidate_revision \in Revisions \cup {None}
      BY <2>4 DEF WorkflowRow
    <3> QED
      BY <3>1 DEF Attempt, RemoteProvider
  <2>6. PICK new : /\ TaskIs(new, "IMPLEMENT", "RUNNING", "orchestrator", "ACTIVE", Append(task.attempts, a))
                   /\ tasks' = [tasks EXCEPT ![w] = PutTask(w, i, new)]
    <3> DEFINE t1 == [task EXCEPT !.status = "RUNNING"]
               t2 == [t1 EXCEPT !.lease_left = LeaseTicks]
               attempts == Append(task.attempts, a)
               t3 == [t2 EXCEPT !.attempts = attempts]
    <3>1. tasks' = [tasks EXCEPT ![w] = PutTask(w, i, t3)]
      BY DEF PrepareExecution, Task
    <3>2. attempts \in Seq(Attempt)
      <4> HIDE DEF a
      <4>1. task.attempts \in Seq(Attempt)
        BY DEF Task
      <4> QED
        BY SMT, <2>5, <4>1, AppendToSeq
    <3>3. TaskIs(t1, "IMPLEMENT", "RUNNING", "orchestrator", "ACTIVE", task.attempts)
      BY <2>3, StatusIs DEF TaskStatus
    <3> HIDE DEF t1, attempts
    <3>4. TaskIs(t2, "IMPLEMENT", "RUNNING", "orchestrator", "ACTIVE", task.attempts)
      BY <3>3, LeftIs, LeaseRange DEF TaskIs
    <3> HIDE DEF t2
    <3>5. TaskIs(t3, "IMPLEMENT", "RUNNING", "orchestrator", "ACTIVE", attempts)
      BY <3>2, <3>4, AttemptsIs DEF TaskIs
    <3> HIDE DEF t3
    <3>6. TaskIs(t3, "IMPLEMENT", "RUNNING", "orchestrator", "ACTIVE", Append(task.attempts, a))
      BY <3>5 DEF attempts
    <3> QED
      BY <3>1, <3>6
  <2> HIDE DEF a
  <2>7. /\ new \in Task /\ new.kind = "IMPLEMENT" /\ new.status = "RUNNING" /\ new.lease_owner = "orchestrator"
        /\ new.grant = "ACTIVE" /\ new.attempts = Append(task.attempts, a)
    BY <2>6 DEF TaskIs
  <2> USE <2>7
  <2>8. /\ EarlierFailed(new) /\ Len(new.attempts) = Len(task.attempts) + 1 /\ Len(new.attempts) # 0
        /\ LastAttempt(new) = a /\ Undisturbed(task, new)
    <3>1. a.output # "SESSION" /\ task.status \in {"READY", "LEASED"} /\ new.kind = task.kind
      BY <2>3, <2>5
    <3> QED
      BY <2>4, <2>5, <3>1, Appended
  <2>9. ImplementFits(new)
    <3>1. AttemptsFit(new)
      BY <2>5, <2>8 DEF AttemptsFit, EndsIn
    <3>2. LeaseFits(new) /\ GrantHeld(new)
      BY <2>5, <2>8 DEF LeaseFits, GrantHeld, LiveStatus, DEVIN_PRINCIPAL, WINDSURF_PRINCIPAL
    <3> QED
      BY <3>1, <3>2 DEF ImplementFits
  <2>10. Moves(w, i, new, workflow[w])
    BY <2>3, <2>4, <2>9 DEF Moves, Drives
  <2>11. Puts(w, i, new, workflow[w])
    BY <2>3, <2>6, SameRow DEF Puts
  <2>12. WorkerBecomes(p, k, w, i) /\ k.attempt \in 1 .. Len(new.attempts)
    <3>1. Len(task.attempts) \in Nat /\ Len(task.attempts) + 1 \in Nat
      BY LenIsNat DEF Task
    <3>2. k1 \in WorkerState /\ k1.wf = w /\ k1.pos = i
      BY DEF WorkerState
    <3>3. worker' = [worker EXCEPT ![p] = k]
      <4>1. worker \in [Workers -> WorkerState]
        BY DEF RInv, RemoteTypeOK, TypeOK
      <4> QED
        BY <4>1 DEF PrepareExecution
    <3> HIDE DEF k1
    <3>4. k \in WorkerState /\ k.wf = w /\ k.pos = i /\ k.attempt = Len(task.attempts) + 1
      BY <3>1, <3>2 DEF WorkerState
    <3> HIDE DEF k
    <3>5. Len(new.attempts) = Len(task.attempts) + 1
      BY <2>8
    <3>6. Len(task.attempts) + 1 \in 1 .. Len(new.attempts)
      BY <3>1, <3>5, <1>SuccessorInRange
    <3> QED
      BY <3>3, <3>4, <3>6 DEF WorkerBecomes
  <2> HIDE DEF k
  <2>13. new \in Task /\ Writes(w, i, new, PutTask(w, i, new), workflow[w])
    BY <2>10, <2>11, MoveWrites
  <2>14. WorkersStep
    BY <2>12, <2>13, <1>WorkerHolds
  <2> QED
    BY <2>8, <2>10, <2>11, <2>14, EngineMoves
<1> QED
  BY <1>RemoteLease, <1>RemotePrepare

(* The row of a workflow whose implementation is blocked, failed, ... *)
LEMMA TransitionRowFits ==
  ASSUME NEW row, RowFits(row), NEW target \in {"BLOCKED", "FAILED", "CANCELLED", "TESTING", "IMPLEMENTING"}
  PROVE  LET new == Transition(row, target)
         IN RowFits(new) /\ new.state = target /\ new.candidate_revision = row.candidate_revision
<1> DEFINE moved == [row EXCEPT !.state = target]
           new == Transition(row, target)
<1>1. row \in WorkflowRow /\ target \in WorkflowState
  BY DEF RowFits, WorkflowState
<1>2. new = [moved EXCEPT !.version = row.version + 1]
  BY DEF Transition
<1>3. /\ moved \in WorkflowRow
      /\ moved.state = target
      /\ moved.block_reason = row.block_reason
      /\ moved.candidate_revision = row.candidate_revision
  BY <1>1 DEF WorkflowRow
<1>4. row.version + 1 \in Nat
  BY SMT, <1>1 DEF WorkflowRow
<1> HIDE DEF moved
<1>5. /\ new \in WorkflowRow /\ new.state = target /\ new.block_reason = row.block_reason
      /\ new.candidate_revision = row.candidate_revision
  BY <1>2, <1>3, <1>4 DEF WorkflowRow
<1> HIDE DEF new
<1>6. RowFits(new)
  BY <1>5 DEF RowFits
<1> QED
  BY <1>5, <1>6 DEF new

LEMMA MovedRowFits ==
  ASSUME NEW row, RowFits(row), NEW target \in {"BLOCKED", "FAILED", "CANCELLED", "TESTING", "IMPLEMENTING"},
         NEW reason \in BlockReason \ {"INPUT_DISPOSITION_REQUIRED"}
  PROVE  LET new == Transition([row EXCEPT !.block_reason = reason], target)
         IN RowFits(new) /\ new.state = target /\ new.candidate_revision = row.candidate_revision
<1> DEFINE given == [row EXCEPT !.block_reason = reason]
<1>1. /\ given \in WorkflowRow /\ given.state = row.state /\ given.block_reason = reason
      /\ given.candidate_revision = row.candidate_revision
  BY DEF RowFits, WorkflowRow
<1> HIDE DEF given
<1>2. RowFits(given)
  BY <1>1 DEF RowFits
<1>3. /\ RowFits(Transition(given, target)) /\ Transition(given, target).state = target
      /\ Transition(given, target).candidate_revision = given.candidate_revision
  BY <1>2, TransitionRowFits
<1> QED
  BY <1>1, <1>3 DEF given

(* _record_routing_block *)
LEMMA RemoteRoutingBlocked ==
  ASSUME RInv, NEW p \in Workers, RoutingBlocked(p), UNCHANGED <<call, session>>
  PROVE  RInv' /\ Kept
<1> DEFINE w == worker[p].wf
           i == worker[p].pos
           task == tasks[w][i]
           a == [status |-> "FAILED", error_code |-> "RoutingBlocked", provider |-> None,
                 examined |-> None, artifact |-> None, output |-> "NULL", reconciliation |-> "NULL"]
           attempts == Append(task.attempts, a)
           blocked == [task EXCEPT !.status = "BLOCKED", !.attempts = attempts]
           new == DeactivateGrant(ClearLease(blocked))
           row == Transition([workflow[w] EXCEPT !.block_reason = "NO_ELIGIBLE_PROVIDER"], "BLOCKED")
<1>1. worker[p].pc # "idle"
  BY DEF RoutingBlocked
<1>2. /\ w \in Workflows /\ i \in Positions(w) /\ HeldTask(p) = task
      /\ task \in Task /\ task.kind = "IMPLEMENT"
  BY <1>1, HeldRemote
<1> USE <1>2
<1>3. task.status = "LEASED" /\ worker' = [worker EXCEPT ![p] = Idle]
  BY DEF RoutingBlocked, PrepareAllowed, HoldsLease
<1>4. tasks' = [tasks EXCEPT ![w] = PutTask(w, i, new)] /\ workflow' = [workflow EXCEPT ![w] = row]
  BY DEF RoutingBlocked, Task
<1>5. RowFits(workflow[w]) /\ ImplementFits(task)
  BY <1>3, OpenTask
<1>6. a \in Attempt /\ a.status = "FAILED" /\ a.output # "SESSION"
  BY DEF Attempt
<1> HIDE DEF a
<1>7. attempts \in Seq(Attempt)
  <2>1. task.attempts \in Seq(Attempt)
    BY DEF Task
  <2> QED
    BY SMT, <1>6, <2>1, AppendToSeq
<1> HIDE DEF attempts
<1>8. TaskIs(blocked, "IMPLEMENT", "BLOCKED", task.lease_owner, task.grant, attempts)
  BY <1>7, StatusAttemptsIs DEF TaskStatus
<1> HIDE DEF blocked
<1>9. TaskIs(new, blocked.kind, blocked.status, "NULL", "INACTIVE", blocked.attempts)
  BY <1>8, EndedIs DEF TaskIs
<1> HIDE DEF new
<1>10. /\ new \in Task /\ new.kind = "IMPLEMENT" /\ new.status = "BLOCKED" /\ new.lease_owner = "NULL"
       /\ new.grant = "INACTIVE" /\ new.attempts = Append(task.attempts, a)
  BY <1>8, <1>9 DEF TaskIs, attempts
<1>11. /\ EarlierFailed(new) /\ Len(new.attempts) = Len(task.attempts) + 1 /\ Len(new.attempts) # 0
       /\ LastAttempt(new) = a /\ Undisturbed(task, new)
  <2>1. task.status \in {"READY", "LEASED"} /\ new.kind = task.kind
    BY <1>3, <1>10
  <2> QED
    BY <1>5, <1>6, <1>10, <2>1, Appended
<1>12. ImplementFits(new)
  <2>1. EndsIn(new.status, LastAttempt(new).status)
    BY <1>6, <1>10, <1>11 DEF EndsIn
  <2> QED
    BY <1>10, <1>11, <2>1, EndedFits
<1>13. RowFits(row) /\ row.state = "BLOCKED" /\ row.candidate_revision = workflow[w].candidate_revision
  <2>1. "NO_ELIGIBLE_PROVIDER" \in BlockReason \ {"INPUT_DISPOSITION_REQUIRED"}
    BY DEF BlockReason
  <2>2. "BLOCKED" \in {"BLOCKED", "FAILED", "CANCELLED", "TESTING", "IMPLEMENTING"}
    OBVIOUS
  <2> QED
    BY <1>5, <2>1, <2>2, MovedRowFits
<1> HIDE DEF row
<1>14. Moves(w, i, new, row)
  BY <1>3, <1>10, <1>12, <1>13 DEF Moves, Drives
<1>15. Puts(w, i, new, row)
  BY <1>4 DEF Puts
<1>16. WorkersStep
  BY <1>3, WorkerDrops
<1> QED
  BY <1>11, <1>14, <1>15, <1>16, EngineMoves

(* A worker process forgets its task *)
LEMMA RemoteForget ==
  ASSUME RInv, NEW p \in Workers, worker' = [worker EXCEPT ![p] = Idle], UNCHANGED <<workflow, tasks, call, session>>
  PROVE  RInv' /\ Kept
<1>1. WorkersStep
  BY WorkerDrops
<1>2. TypeOK'
  BY <1>1 DEF RInv, RemoteTypeOK, TypeOK, WorkersStep
<1>3. \A w \in Workflows : WorkflowFits(workflow'[w], tasks'[w])
  BY DEF RInv
<1>4. \A w \in Workflows : Len(tasks[w]) <= Len(tasks'[w])
  <2>1. SUFFICES ASSUME NEW w \in Workflows PROVE Len(tasks[w]) <= Len(tasks[w])
    OBVIOUS
  <2>2. Len(tasks[w]) \in Nat
    BY LenIsNat DEF RInv, RemoteTypeOK, TypeOK
  <2> QED
    BY SMT, <2>2
<1>5. \A w \in Workflows : \A i \in Positions(w) : Undisturbed(tasks[w][i], tasks'[w][i])
  BY RemoteTask, Untouched
<1>6. \A w \in Workflows : \A i \in Positions(w)' : i \notin Positions(w) => Len(tasks'[w][i].attempts) = 0
  BY DEF Positions
<1> QED
  BY <1>1, <1>2, <1>3, <1>4, <1>5, <1>6, EngineKept DEF WorkersStep

(* A task whose attempt n is written and whose lease is cleared *)
LEMMA CloseIs ==
  ASSUME NEW task \in Task, NEW n \in 1 .. Len(task.attempts), NEW a \in Attempt
  PROVE  LET attempts == [task.attempts EXCEPT ![n] = a]
         IN /\ attempts \in Seq(Attempt)
            /\ TaskIs([task EXCEPT !.attempts = attempts], task.kind, task.status, task.lease_owner, task.grant, attempts)
            /\ TaskIs(ClearLease([task EXCEPT !.attempts = attempts]), task.kind, task.status, "NULL", task.grant, attempts)
<1> DEFINE attempts == [task.attempts EXCEPT ![n] = a]
           t == [task EXCEPT !.attempts = attempts]
<1>1. task.attempts \in Seq(Attempt)
  BY DEF Task
<1>2. attempts \in Seq(Attempt)
  BY SMT, <1>1, PutInSeq
<1> HIDE DEF attempts
<1>3. TaskIs(t, task.kind, task.status, task.lease_owner, task.grant, attempts)
  BY <1>2, AttemptsIs
<1> HIDE DEF t
<1> USE <1>3
<1>4. TaskIs(ClearLease(t), t.kind, t.status, "NULL", t.grant, t.attempts)
  BY ClearLeaseIs DEF TaskIs
<1>5. TaskIs(ClearLease(t), task.kind, task.status, "NULL", task.grant, attempts)
  BY <1>4 DEF TaskIs
<1> QED
  BY <1>2, <1>5 DEF t, attempts

(* t is the task with its last attempt replaced by a and its lease cleared *)
Closed(task, t, n, a) ==
  t \in Task /\ LastEdited(task, t, n, a) /\ t.lease_owner = "NULL" /\ t.grant = task.grant
-----------------------------------------------------------------------------
(* A result is accepted *)

(* new is the task with its last attempt replaced by a, done with *)
Done(task, new, n, a) ==
  /\ new \in Task /\ LastEdited(task, new, n, a) /\ new.status = "SUCCEEDED"
  /\ new.lease_owner = "NULL" /\ new.grant = "INACTIVE"

(* The step accepts a revision as the result of the task at i of w *)
Accepts(w, i, new, revision) ==
  /\ tasks' = [tasks EXCEPT ![w] = PutTask(w, i, new) \o FollowingTasks("IMPLEMENT")]
  /\ workflow' = [workflow EXCEPT ![w] =
                    AdvanceRow([workflow[w] EXCEPT !.candidate_revision = revision], "IMPLEMENT")]

(* An attempt that succeeded *)
ResultSize == {"FITS", "OVERSIZED"}

SuccessOf(b, revision, size) == [b EXCEPT !.status = "SUCCEEDED", !.artifact = revision, !.output = size]
-----------------------------------------------------------------------------
(* The sweep *)

(* row and ts are what a step may make of w *)
Follows(w, row, ts) ==
  /\ ts \in Seq(Task) /\ Len(ts) = Len(tasks[w]) /\ WorkflowFits(row, ts)
  /\ \A i \in Positions(w) : Undisturbed(tasks[w][i], ts[i])

(* reclaim_expired_tasks on one task *)
TimedOut(b) == [b EXCEPT !.status = "TIMED_OUT", !.error_code = "LeaseExpired"]
-----------------------------------------------------------------------------
(* The commands of humans *)

(* A decision is recorded with an attempt *)
DecidedOn(b, decision) == [b EXCEPT !.reconciliation = decision]

(* A human decides about an execution whose outcome is unknown *)
LEMMA ReconcileSteps ==
  RInv /\ UNCHANGED <<call, session>> =>
    \A w \in Workflows : \A i \in Positions(w) : \A decision \in {"RETRY", "FAIL"} :
      ReconcileExecution(w, i, decision) => RInv' /\ Kept
(* The attempt a human decides about is the last *)
<1>AbandonedIsLast.
  ASSUME NEW task \in Task, AttemptsFit(task), AbandonedAttempt(task) # 0
  PROVE  LET n == AbandonedAttempt(task)
         IN /\ n = Len(task.attempts) /\ n # 0 /\ n \in 1 .. Len(task.attempts)
            /\ task.attempts[n] \in Attempt /\ task.attempts[n].status = "TIMED_OUT"
  <2> USE <1>AbandonedIsLast
  <2> DEFINE last == Len(task.attempts)
             abandoned == {n \in DOMAIN task.attempts :
                        /\ task.attempts[n].status = "TIMED_OUT"
                        /\ task.attempts[n].error_code = "LeaseExpired"}
             newest == CHOOSE n \in abandoned : \A m \in abandoned : m <= n
  <2>1. task.attempts \in Seq(Attempt) /\ last \in Nat /\ DOMAIN task.attempts = 1 .. last
    BY SMT DEF Task
  <2>2. \A n \in 1 .. last : n < last => task.attempts[n].status = "FAILED"
    BY DEF AttemptsFit, EarlierFailed
  <2> USE <2>1
  <2>3. \A n \in 1 .. last : n # last => n < last
    BY SMT
  <2>4. abandoned # {} /\ AbandonedAttempt(task) = newest
    BY DEF AbandonedAttempt
  <2>5. abandoned = {last}
    <3>1. \A n \in abandoned : n = last
      BY <2>2, <2>3
    <3> HIDE DEF abandoned
    <3> QED
      BY <2>4, <3>1
  <2>6. last \in 1 .. last /\ task.attempts[last].status = "TIMED_OUT"
    BY <2>5
  <2> HIDE DEF abandoned
  <2>7. newest = last
    BY SMT, <2>5
  <2>8. task.attempts[last] \in Attempt /\ last # 0
    BY SMT, <2>6
  <2> HIDE DEF newest
  <2> QED
    BY <2>4, <2>6, <2>7, <2>8
<1>DecidedAttempt.
  ASSUME NEW b \in Attempt, NEW decision \in {"RETRY", "FAIL"}
  PROVE  LET a == DecidedOn(b, decision)
         IN /\ a \in Attempt /\ a.status = b.status /\ a.error_code = b.error_code /\ a.artifact = b.artifact
            /\ a.output = b.output /\ a.reconciliation = decision
  BY SMT, <1>DecidedAttempt DEF DecidedOn, Attempt
<1>ReconciledImplement.
  ASSUME NEW task \in Task, ImplementFits(task), task.status = "BLOCKED", AbandonedAttempt(task) # 0,
         NEW decision \in {"RETRY", "FAIL"}
  PROVE  LET new == [task EXCEPT !.status = "RECONCILED", !.attempts[AbandonedAttempt(task)].reconciliation = decision]
         IN /\ new \in Task /\ new.kind = task.kind /\ new.status = "RECONCILED" /\ ImplementFits(new)
            /\ Undisturbed(task, new) /\ LastAttempt(new).reconciliation = decision
  <2> USE <1>ReconciledImplement
  <2> DEFINE n == AbandonedAttempt(task)
             a == DecidedOn(task.attempts[n], decision)
             attempts == [task.attempts EXCEPT ![n] = a]
             new == [task EXCEPT !.status = "RECONCILED", !.attempts = attempts]
  <2>1. [task EXCEPT !.status = "RECONCILED", !.attempts[n].reconciliation = decision] = new
    <3> HIDE DEF n
    <3> QED
      BY DEF Task, DecidedOn
  <2>2. /\ n = Len(task.attempts) /\ n # 0 /\ n \in 1 .. Len(task.attempts)
        /\ task.attempts[n] \in Attempt /\ task.attempts[n].status = "TIMED_OUT"
    BY <1>AbandonedIsLast DEF ImplementFits
  <2> HIDE DEF n
  <2>3. /\ a \in Attempt /\ a.status = task.attempts[n].status /\ a.error_code = task.attempts[n].error_code
        /\ a.artifact = task.attempts[n].artifact /\ a.output = task.attempts[n].output
        /\ a.reconciliation = decision
    BY <2>2, <1>DecidedAttempt
  <2> HIDE DEF a
  <2> USE <2>3
  <2>4. attempts \in Seq(Attempt)
    BY <2>2, CloseIs
  <2> HIDE DEF attempts
  <2>5. TaskIs(new, task.kind, "RECONCILED", task.lease_owner, task.grant, attempts)
    BY <2>4, StatusAttemptsIs DEF TaskStatus
  <2> HIDE DEF new
  <2>6. /\ new \in Task /\ new.kind = task.kind /\ new.status = "RECONCILED"
        /\ new.lease_owner = task.lease_owner /\ new.grant = task.grant
    BY <2>5 DEF TaskIs
  <2>7. LastEdited(task, new, n, a)
    BY <2>2, <2>5 DEF LastEdited, TaskIs, attempts
  <2> USE <2>7
  <2>8. /\ EarlierFailed(new) /\ Len(new.attempts) = Len(task.attempts) /\ Len(new.attempts) # 0
        /\ LastAttempt(new) = a /\ LastAttempt(task) = task.attempts[n]
    BY Rewritten
  <2> USE <2>6
  <2>9. AttemptsFit(new)
    BY <2>2, <2>8 DEF AttemptsFit, EndsIn
  <2>10. LeaseFits(new)
    BY DEF ImplementFits, LeaseFits, HandedOver
  <2>11. GrantHeld(new)
    BY DEF ImplementFits, GrantHeld, LiveStatus
  <2>12. Undisturbed(task, new)
    <3>1. a.status \in OpenStatus /\ SameOutput(task, n, a)
      BY <2>2 DEF OpenStatus, SameOutput
    <3>2. StaysDispatching(task, new) /\ StaysWithDevin(task, new) /\ NoNewSession(task, new)
      BY <3>1, StillOpen
    <3>3. a.output = "DISPATCHING" => task.attempts[n].output = "DISPATCHING"
      OBVIOUS
    <3>4. task.attempts[n].status # "RUNNING" =>
            /\ a.status = task.attempts[n].status /\ a.error_code = task.attempts[n].error_code
            /\ a.artifact = task.attempts[n].artifact
      OBVIOUS
    <3>5. a \in Attempt
      OBVIOUS
    <3>6. Keeps(task, new)
      BY <3>3, <3>4, <3>5, EditKeeps
    <3> QED
      BY <3>2, <3>6 DEF Undisturbed
  <2> QED
    BY <2>1, <2>8, <2>9, <2>10, <2>11, <2>12 DEF ImplementFits, n
(* reconcile_execution *)
<1>RemoteReconcile.
  ASSUME RInv, NEW w \in Workflows, NEW i \in Positions(w), NEW decision \in {"RETRY", "FAIL"},
         ReconcileExecution(w, i, decision), UNCHANGED <<call, session>>
  PROVE  RInv' /\ Kept
  <2> USE <1>RemoteReconcile
  <2> DEFINE task == tasks[w][i]
             new == [task EXCEPT !.status = "RECONCILED", !.attempts[AbandonedAttempt(task)].reconciliation = decision]
             retry == Transition([workflow[w] EXCEPT !.block_reason = "NULL"], "IMPLEMENTING")
             fail == Transition([workflow[w] EXCEPT !.block_reason = "EXECUTION_RECONCILED_FAILED"], "FAILED")
  <2>1. task.status = "BLOCKED" /\ AbandonedAttempt(task) # 0 /\ UNCHANGED worker
    BY DEF ReconcileExecution, Reconcilable
  <2>2. task.kind = "IMPLEMENT" /\ task.status \notin {"SUCCEEDED", "RECONCILED"}
    BY <2>1, HeldIsImplement
  <2>3. RowFits(workflow[w]) /\ task \in Task /\ ImplementFits(task)
    BY <2>2, OpenTask
  <2>4. tasks[w] \in Seq(Task) /\ i \in 1 .. Len(tasks[w]) /\ WorkflowFits(workflow[w], tasks[w])
    BY RemoteTask
  <2>5. /\ new \in Task /\ new.kind = task.kind /\ new.status = "RECONCILED" /\ ImplementFits(new)
        /\ Undisturbed(task, new) /\ LastAttempt(new).reconciliation = decision
    BY <2>1, <2>3, <1>ReconciledImplement
  <2>6. TASK_WORKFLOW_STATE["IMPLEMENT"] = "IMPLEMENTING"
    BY SMT DEF TASK_WORKFLOW_STATE, TaskKind
  <2>7. \/ /\ decision = "RETRY" /\ workflow' = [workflow EXCEPT ![w] = retry]
           /\ tasks' = [tasks EXCEPT ![w] = Append(PutTask(w, i, new), NewTask("IMPLEMENT"))]
        \/ /\ workflow' = [workflow EXCEPT ![w] = fail]
           /\ tasks' = [tasks EXCEPT ![w] = PutTask(w, i, new)]
    BY <2>2, <2>6 DEF ReconcileExecution
  <2> HIDE DEF new
  <2>8. WorkersStep
    BY <2>1, WorkersStay
  <2> USE <2>5
  <2>9. CASE /\ decision = "RETRY" /\ workflow' = [workflow EXCEPT ![w] = retry]
             /\ tasks' = [tasks EXCEPT ![w] = Append(PutTask(w, i, new), NewTask("IMPLEMENT"))]
    <3> DEFINE ts == Append(PutTask(w, i, new), NewTask("IMPLEMENT"))
    <3>1. RowFits(retry) /\ retry.state = "IMPLEMENTING" /\ retry.candidate_revision = workflow[w].candidate_revision
      <4>1. "NULL" \in BlockReason \ {"INPUT_DISPOSITION_REQUIRED"}
        BY DEF BlockReason
      <4> QED
        BY <2>3, <4>1, MovedRowFits
    <3> HIDE DEF retry
    <3>2. Superseded(new) /\ new.kind = "IMPLEMENT"
      BY <2>2, <2>9 DEF Superseded
    <3>3. WorkflowFits(retry, Append([tasks[w] EXCEPT ![i] = new], NewTask("IMPLEMENT")))
      BY <2>2, <2>4, <3>1, <3>2, LastFollowed
    <3>4. WorkflowFits(retry, ts)
      BY <3>3 DEF PutTask
    <3>5. Wrote(w, i, new, ts)
      BY AppendWrites DEF TaskKind
    <3>6. Writes(w, i, new, ts, retry)
      BY <2>9, <3>4, <3>5 DEF Writes
    <3> HIDE DEF ts
    <3>7. worker' \in [Workers -> WorkerState] /\ \A q \in Workers : worker'[q] = worker[q] \/ WorkerFits(q)'
      BY <2>8 DEF WorkersStep
    <3> QED
      BY <3>6, <3>7, EngineWrites
  <2>10. CASE /\ workflow' = [workflow EXCEPT ![w] = fail]
              /\ tasks' = [tasks EXCEPT ![w] = PutTask(w, i, new)]
    <3>1. RowFits(fail) /\ fail.state = "FAILED" /\ fail.candidate_revision = workflow[w].candidate_revision
      <4>1. "EXECUTION_RECONCILED_FAILED" \in BlockReason \ {"INPUT_DISPOSITION_REQUIRED"}
        BY DEF BlockReason
      <4> QED
        BY <2>3, <4>1, MovedRowFits
    <3> HIDE DEF fail
    <3>2. Drives(fail.state, new) /\ new.status # "SUCCEEDED"
      BY <3>1 DEF Drives
    <3>3. Moves(w, i, new, fail)
      BY <2>2, <3>1, <3>2 DEF Moves
    <3>4. Puts(w, i, new, fail)
      BY <2>10 DEF Puts
    <3> QED
      BY <2>8, <3>3, <3>4, EngineMoves
  <2> QED
    BY <2>7, <2>9, <2>10
<1> QED
  BY <1>RemoteReconcile

(* cancel_workflow on one live task *)
Cancelled(task) == DeactivateGrant([task EXCEPT !.status = "CANCELLED"])

(* Clocks run out, expired tasks are reclaimed, workflows are cancelled *)
LEMMA SweepSteps ==
  RInv /\ UNCHANGED <<call, session>> =>
    /\ \A w \in Workflows : \A i \in Positions(w) :
         GrantExpires(w, i) /\ tasks[w][i].lease_owner # WINDSURF_PRINCIPAL => RInv' /\ Kept
    /\ \A p \in Workers : \A swept \in SUBSET ExpiredTasks : ReclaimExpiredTasks(p, swept) => RInv' /\ Kept
    /\ \A w \in Workflows : CancelWorkflow(w) => RInv' /\ Kept
(* The hour of a grant has passed, also that of the tests *)
<1>TestMoves.
  ASSUME RInv, NEW w \in Workflows, NEW i \in Positions(w), tasks[w][i].kind = "TEST",
         NEW new \in Task, new.kind = "TEST", TaskFits(new),
         NEW row, RowFits(row), row.candidate_revision = workflow[w].candidate_revision, Drives(row.state, new)
  PROVE  i = Len(tasks[w]) /\ WorkflowFits(row, PutTask(w, i, new))
  <2> USE <1>TestMoves
  <2> DEFINE ts == tasks[w]
             us == PutTask(w, i, new)
  <2>1. ts \in Seq(Task) /\ i \in 1 .. Len(ts) /\ WorkflowFits(workflow[w], ts) /\ Len(ts) \in Nat
    BY RemoteTask
  <2> USE <2>1
  <2>2. i = Len(ts)
    <3>1. ~Past(ts, i)
      BY DEF Past, Superseded, Accepted
    <3>2. ~(i < Len(ts))
      BY <3>1 DEF WorkflowFits
    <3> QED
      BY SMT, <3>2
  <2> USE <2>2
  <2>3. Len(us) = Len(ts) /\ us[Len(us)] = new /\ \A j \in 1 .. Len(ts) : us[j] = IF j = i THEN new ELSE ts[j]
    BY SMT, PutInSeq DEF PutTask
  <2> HIDE DEF us
  <2> USE <2>3
  <2>4. ASSUME NEW j \in 1 .. Len(ts), j < Len(ts)
        PROVE  TaskFits(us[j]) /\ us[j] = ts[j] /\ Past(us, j)
    <3>1. j # i /\ j + 1 \in 1 .. Len(ts) /\ (j + 1 = Len(ts) => j + 1 = i)
      BY SMT, <2>4
    <3>2. TaskFits(ts[j]) /\ Past(ts, j) /\ us[j] = ts[j]
      BY <2>4, <3>1 DEF WorkflowFits
    <3>3. us[i].kind = "TEST"
      OBVIOUS
    <3> QED
      BY <3>1, <3>2, <3>3 DEF Past
  <2>5. \A j \in 1 .. Len(ts) : TaskFits(us[j])
    <3>1. \A j \in 1 .. Len(ts) : j = i \/ j < Len(ts)
      BY SMT
    <3> QED
      BY <2>4, <3>1
  <2>6. ResultFits(row, us)
    <3>1. ts[Len(ts)].kind = "TEST"
      OBVIOUS
    <3>2. /\ Len(ts) > 1 /\ Accepted(ts[Len(ts) - 1]) /\ row.candidate_revision # None
          /\ row.candidate_revision = LastAttempt(ts[Len(ts) - 1]).artifact
      BY <3>1 DEF WorkflowFits, ResultFits
    <3> USE <3>2
    <3>3. Len(ts) - 1 \in 1 .. Len(ts) /\ Len(ts) - 1 # i
      BY SMT
    <3>4. us[Len(us) - 1] = ts[Len(ts) - 1] /\ Len(us) > 1
      BY <3>3
    <3> QED
      BY <3>4 DEF ResultFits
  <2>7. Len(us) # 0
    BY SMT
  <2>8. WorkflowFits(row, us)
    BY <2>4, <2>5, <2>6, <2>7 DEF WorkflowFits
  <2> QED
    BY <2>8 DEF us
<1>RemoteGrantExpires.
  ASSUME RInv, NEW w \in Workflows, NEW i \in Positions(w), GrantExpires(w, i),
         tasks[w][i].lease_owner # WINDSURF_PRINCIPAL, UNCHANGED <<call, session>>
  PROVE  RInv' /\ Kept
  <2> USE <1>RemoteGrantExpires
  <2> DEFINE task == tasks[w][i]
             new == [task EXCEPT !.grant = "EXPIRED"]
  <2>1. task.grant = "ACTIVE" /\ UNCHANGED <<workflow, worker>> /\ tasks' = [tasks EXCEPT ![w] = PutTask(w, i, new)]
    BY DEF GrantExpires
  <2>2. /\ task \in Task /\ TaskFits(task) /\ RowFits(workflow[w]) /\ WorkflowFits(workflow[w], tasks[w])
        /\ tasks[w] \in Seq(Task)
    BY RemoteTask
  <2> USE <2>2
  <2>3. TaskIs(new, task.kind, task.status, task.lease_owner, "EXPIRED", task.attempts)
    BY GrantIs
  <2> HIDE DEF new
  <2>4. /\ new \in Task /\ new.kind = task.kind /\ new.status = task.status /\ new.lease_owner = task.lease_owner
        /\ new.grant = "EXPIRED" /\ new.attempts = task.attempts
    BY <2>3 DEF TaskIs
  <2> USE <2>4
  <2>5. Undisturbed(task, new)
    BY SameAttempts
  <2>6. Puts(w, i, new, workflow[w])
    BY <2>1, SameRow DEF Puts
  <2>7. WorkersStep
    BY <2>1, WorkersStay
  <2>8. CASE task.kind = "IMPLEMENT"
    <3> USE <2>8
    <3>1. ImplementFits(task)
      BY DEF TaskFits
    <3>2. ImplementFits(new)
      BY <2>1, <3>1
         DEF ImplementFits, AttemptsFit, EarlierFailed, LastAttempt, LeaseFits, HandedOver, GrantHeld
    <3>3. task.status \notin {"SUCCEEDED", "RECONCILED"}
      BY <2>1, <3>1 DEF ImplementFits, GrantHeld, LiveStatus
    <3>4. Drives(workflow[w].state, task)
      BY <3>3, OpenTask
    <3>5. Moves(w, i, new, workflow[w])
      BY <2>1, <3>2, <3>3, <3>4 DEF Moves, Drives
    <3> QED
      BY <2>5, <2>6, <2>7, <3>5, EngineMoves
  <2>9. CASE task.kind = "TEST"
    <3> USE <2>9
    <3>1. TaskFits(new)
      BY <2>1 DEF TaskFits
    <3>2. Drives(workflow[w].state, new)
      <4>1. ~Past(tasks[w], i)
        BY DEF Past, Superseded, Accepted
      <4>2. ~(i < Len(tasks[w])) /\ i \in 1 .. Len(tasks[w]) /\ Len(tasks[w]) \in Nat
        BY <4>1, RemoteTask DEF WorkflowFits
      <4>3. i = Len(tasks[w])
        BY SMT, <4>2
      <4>4. Drives(workflow[w].state, task)
        BY <4>3 DEF WorkflowFits
      <4> QED
        BY <4>4 DEF Drives
    <3>3. WorkflowFits(workflow[w], PutTask(w, i, new))
      BY <3>1, <3>2, <1>TestMoves
    <3>4. Wrote(w, i, new, PutTask(w, i, new))
      BY PutWrites
    <3>5. Writes(w, i, new, PutTask(w, i, new), workflow[w])
      BY <2>6, <3>3, <3>4 DEF Writes, Puts
    <3> QED
      BY <2>5, <2>7, <3>5, EngineWrites DEF WorkersStep
  <2>10. task.kind \in {"IMPLEMENT", "TEST"}
    BY <2>1 DEF TaskFits
  <2> QED
    BY <2>8, <2>9, <2>10
<1>Stays.
  ASSUME RInv, NEW w \in Workflows
  PROVE  Follows(w, workflow[w], tasks[w])
  <2> USE <1>Stays
  <2>1. tasks[w] \in Seq(Task) /\ WorkflowFits(workflow[w], tasks[w])
    BY DEF RInv, RemoteTypeOK, TypeOK
  <2>2. \A i \in Positions(w) : Undisturbed(tasks[w][i], tasks[w][i])
    BY RemoteTask, Untouched
  <2> QED
    BY <2>1, <2>2 DEF Follows
<1>PutFollows.
  ASSUME RInv, NEW w \in Workflows, NEW i \in Positions(w), NEW new \in Task, NEW row,
         WorkflowFits(row, PutTask(w, i, new)), Undisturbed(tasks[w][i], new)
  PROVE  Follows(w, row, PutTask(w, i, new))
  <2> USE <1>PutFollows
  <2> DEFINE ts == PutTask(w, i, new)
  <2>1. tasks[w] \in Seq(Task) /\ i \in 1 .. Len(tasks[w])
    BY RemoteTask
  <2>2. /\ ts \in Seq(Task) /\ Len(ts) = Len(tasks[w])
        /\ \A j \in 1 .. Len(tasks[w]) : ts[j] = IF j = i THEN new ELSE tasks[w][j]
    BY SMT, <2>1, PutInSeq DEF PutTask
  <2> HIDE DEF ts
  <2> USE <2>2
  <2>3. \A j \in Positions(w) : Undisturbed(tasks[w][j], ts[j])
    <3>1. ASSUME NEW j \in Positions(w) PROVE Undisturbed(tasks[w][j], ts[j])
      <4>1. tasks[w][j] \in Task /\ j \in 1 .. Len(tasks[w])
        BY RemoteTask
      <4>2. CASE j = i
        BY <4>1, <4>2
      <4>3. CASE j # i
        BY <4>1, <4>3, Untouched
      <4> QED
        BY <4>2, <4>3
    <3> QED
      BY <3>1
  <2>4. Follows(w, row, ts)
    BY <2>3 DEF Follows, ts
  <2> QED
    BY <2>4 DEF ts
<1>MoveFollows.
  ASSUME RInv, NEW w \in Workflows, NEW i \in Positions(w), NEW new, NEW row,
         Moves(w, i, new, row), Undisturbed(tasks[w][i], new)
  PROVE  Follows(w, row, PutTask(w, i, new))
  <2> USE <1>MoveFollows
  <2>1. /\ tasks[w] \in Seq(Task) /\ i \in 1 .. Len(tasks[w])
        /\ WorkflowFits(workflow[w], tasks[w])
    BY RemoteTask
  <2>2. WorkflowFits(row, [tasks[w] EXCEPT ![i] = new]) /\ new \in Task
    BY <2>1, LastMoves DEF Moves
  <2>3. WorkflowFits(row, PutTask(w, i, new))
    BY <2>2 DEF PutTask
  <2> QED
    BY <2>2, <2>3, <1>PutFollows
(* A step of the engine over all workflows *)
<1>EngineFollows.
  ASSUME RInv, \A w \in Workflows : Follows(w, workflow'[w], tasks'[w]),
         workflow' = [w \in Workflows |-> workflow'[w]], tasks' = [w \in Workflows |-> tasks'[w]],
         UNCHANGED <<worker, call, session>>
  PROVE  RInv' /\ Kept
  <2> USE <1>EngineFollows
  <2>2. \A w \in Workflows : Follows(w, workflow'[w], tasks'[w])
    BY SMT
  <2> USE <2>2
  <2>3. TypeOK'
    <3>1. \A w \in Workflows : workflow'[w] \in WorkflowRow /\ tasks'[w] \in Seq(Task)
      BY DEF Follows, WorkflowFits, RowFits
    <3>2. workflow' \in [Workflows -> WorkflowRow \cup {None}] /\ tasks' \in [Workflows -> Seq(Task)]
      BY <3>1
    <3>3. worker' \in [Workers -> WorkerState]
      BY DEF RInv, RemoteTypeOK, TypeOK
    <3> QED
      BY <3>2, <3>3 DEF TypeOK
  <2>4. \A w \in Workflows : WorkflowFits(workflow'[w], tasks'[w])
    BY DEF Follows
  <2>5. \A p \in Workers : worker'[p] = worker[p] \/ WorkerFits(p)'
    OBVIOUS
  <2>6. \A w \in Workflows : Len(tasks'[w]) = Len(tasks[w]) /\ Len(tasks[w]) \in Nat
    BY LenIsNat DEF Follows, RInv, RemoteTypeOK, TypeOK
  <2>7. \A w \in Workflows : Len(tasks[w]) <= Len(tasks'[w])
    BY SMT, <2>6
  <2>8. \A w \in Workflows : \A i \in Positions(w) : Undisturbed(tasks[w][i], tasks'[w][i])
    BY DEF Follows
  <2>9. \A w \in Workflows : \A i \in Positions(w)' : i \notin Positions(w) => Len(tasks'[w][i].attempts) = 0
    BY <2>6 DEF Positions
  <2>10. UNCHANGED <<call, session>>
    OBVIOUS
  <2> QED
    BY <2>3, <2>4, <2>5, <2>7, <2>8, <2>9, <2>10, EngineKept
<1>TimedOutAttempt.
  ASSUME NEW b \in Attempt
  PROVE  TimedOut(b) \in Attempt /\ TimedOut(b).status = "TIMED_OUT" /\ TimedOut(b).output = b.output
  <2> USE <1>TimedOutAttempt
  <2> DEFINE a1 == [b EXCEPT !.status = "TIMED_OUT"]
             a == [a1 EXCEPT !.error_code = "LeaseExpired"]
  <2>1. TimedOut(b) = a
    BY DEF TimedOut
  <2>2. a1 \in Attempt /\ a1.status = "TIMED_OUT" /\ a1.output = b.output
    BY DEF Attempt
  <2> HIDE DEF a1
  <2>3. a \in Attempt /\ a.status = "TIMED_OUT" /\ a.output = b.output
    BY SMT, <2>2 DEF Attempt
  <2> QED
    BY <2>1, <2>3
(* The newest running attempt of a running task is its last *)
<1>NewestRunning.
  ASSUME NEW task \in Task, AttemptsFit(task), task.status = "RUNNING"
  PROVE  LET running == {n \in DOMAIN task.attempts : task.attempts[n].status = "RUNNING"}
             newest == CHOOSE n \in running : \A m \in running : m <= n
         IN /\ running # {} /\ newest = Len(task.attempts) /\ Len(task.attempts) # 0
            /\ Len(task.attempts) \in 1 .. Len(task.attempts)
            /\ task.attempts[Len(task.attempts)] \in Attempt
            /\ task.attempts[Len(task.attempts)].status = "RUNNING"
  <2> USE <1>NewestRunning
  <2> DEFINE last == Len(task.attempts)
             running == {n \in DOMAIN task.attempts : task.attempts[n].status = "RUNNING"}
             newest == CHOOSE n \in running : \A m \in running : m <= n
  <2>1. task.attempts \in Seq(Attempt) /\ last \in Nat /\ DOMAIN task.attempts = 1 .. last
    BY SMT DEF Task
  <2>2. last # 0 /\ task.attempts[last].status = "RUNNING"
    BY DEF AttemptsFit, EndsIn, LastAttempt
  <2> USE <2>1, <2>2
  <2>3. last \in 1 .. last /\ task.attempts[last] \in Attempt
    BY SMT
  <2>4. \A n \in 1 .. last : n < last => task.attempts[n].status = "FAILED"
    BY DEF AttemptsFit, EarlierFailed
  <2>5. \A n \in 1 .. last : n # last => n < last
    BY SMT
  <2>6. running = {last}
    BY <2>3, <2>4, <2>5
  <2> HIDE DEF running
  <2>7. newest = last
    BY SMT, <2>6
  <2> HIDE DEF newest
  <2> QED
    BY <2>3, <2>6, <2>7 DEF running, newest
<1>ReclaimedImplement.
  ASSUME NEW task \in Task, ImplementFits(task), Expired(task)
  PROVE  LET new == ReclaimTask(task)
         IN /\ new \in Task /\ new.kind = task.kind /\ ImplementFits(new) /\ Undisturbed(task, new)
            /\ task.status = "LEASED" => new.status = "READY" /\ new.grant = task.grant
            /\ task.status = "RUNNING" => new.status = "BLOCKED"
            /\ task.status \in {"LEASED", "RUNNING"}
  <2> USE <1>ReclaimedImplement
  <2> DEFINE new == ReclaimTask(task)
  <2>0. task.status \in {"LEASED", "RUNNING"}
    BY DEF Expired
  <2>1. CASE task.status = "LEASED"
    <3> USE <2>1
    <3> DEFINE ready == [task EXCEPT !.status = "READY"]
    <3>1. new = ClearLease(ready)
      BY DEF ReclaimTask
    <3>2. TaskIs(ready, task.kind, "READY", task.lease_owner, task.grant, task.attempts)
      BY StatusIs DEF TaskStatus
    <3> HIDE DEF ready, new
    <3>3. TaskIs(new, ready.kind, ready.status, "NULL", ready.grant, ready.attempts)
      BY <3>1, <3>2, ClearLeaseIs DEF TaskIs
    <3>4. /\ new \in Task /\ new.kind = task.kind /\ new.status = "READY" /\ new.lease_owner = "NULL"
          /\ new.grant = task.grant /\ new.attempts = task.attempts
      BY <3>2, <3>3 DEF TaskIs
    <3> USE <3>4
    <3>5. AttemptsFit(new)
      BY DEF ImplementFits, AttemptsFit, EarlierFailed, EndsIn, LastAttempt
    <3>6. LeaseFits(new)
      BY DEF LeaseFits, DEVIN_PRINCIPAL, WINDSURF_PRINCIPAL
    <3>7. GrantHeld(new)
      BY DEF ImplementFits, GrantHeld, LiveStatus, LastAttempt
    <3>8. Undisturbed(task, new)
      BY SameAttempts
    <3> QED
      BY <3>5, <3>6, <3>7, <3>8 DEF ImplementFits, new
  <2>2. CASE task.status = "RUNNING"
    <3> DEFINE n == Len(task.attempts)
               a == TimedOut(task.attempts[n])
               attempts == [task.attempts EXCEPT ![n] = a]
               timed_out == [task EXCEPT !.attempts = attempts]
               blocked == [timed_out EXCEPT !.status = "BLOCKED"]
               running == {k \in DOMAIN task.attempts : task.attempts[k].status = "RUNNING"}
               newest == CHOOSE k \in running : \A m \in running : m <= k
    <3>1. /\ running # {} /\ newest = n /\ n # 0 /\ n \in 1 .. Len(task.attempts)
          /\ task.attempts[n] \in Attempt /\ task.attempts[n].status = "RUNNING"
      BY <2>2, <1>NewestRunning DEF ImplementFits
    <3> USE <3>1
    <3>2. new = DeactivateGrant(ClearLease(blocked))
      <4>1. new = DeactivateGrant(ClearLease([[task EXCEPT !.attempts[newest].status = "TIMED_OUT",
                    !.attempts[newest].error_code = "LeaseExpired"] EXCEPT !.status = "BLOCKED"]))
        BY <2>2 DEF ReclaimTask
      <4> HIDE DEF newest
      <4>2. timed_out = [task EXCEPT !.attempts[newest].status = "TIMED_OUT",
                                     !.attempts[newest].error_code = "LeaseExpired"]
        BY DEF Task, TimedOut
      <4> HIDE DEF timed_out
      <4> QED
        BY <4>1, <4>2
    <3>3. a \in Attempt /\ a.status = "TIMED_OUT" /\ a.output = task.attempts[n].output
      BY <1>TimedOutAttempt
    <3> HIDE DEF a, new
    <3> USE <3>3
    <3>4. TaskIs(timed_out, task.kind, task.status, task.lease_owner, task.grant, attempts)
      BY CloseIs
    <3> HIDE DEF timed_out
    <3>5. TaskIs(blocked, timed_out.kind, "BLOCKED", timed_out.lease_owner, timed_out.grant, timed_out.attempts)
      BY <3>4, StatusIs DEF TaskStatus, TaskIs
    <3> HIDE DEF blocked
    <3>6. TaskIs(new, blocked.kind, blocked.status, "NULL", "INACTIVE", blocked.attempts)
      BY <3>2, <3>5, EndedIs DEF TaskIs
    <3>7. /\ new \in Task /\ new.kind = task.kind /\ new.status = "BLOCKED" /\ new.lease_owner = "NULL"
          /\ new.grant = "INACTIVE" /\ new.attempts = attempts
      BY <3>4, <3>5, <3>6 DEF TaskIs
    <3> USE <3>7
    <3>8. LastEdited(task, new, n, a)
      BY DEF LastEdited
    <3> USE <3>8
    <3>9. /\ EarlierFailed(new) /\ Len(new.attempts) = Len(task.attempts) /\ Len(new.attempts) # 0
          /\ LastAttempt(new) = a /\ LastAttempt(task) = task.attempts[n]
      BY Rewritten
    <3>10. ImplementFits(new)
      <4>1. EndsIn(new.status, LastAttempt(new).status) /\ new.status \notin {"READY", "LEASED"}
        BY <3>9 DEF EndsIn
      <4> QED
        BY <3>9, <4>1, EndedFits
    <3>11. Undisturbed(task, new)
      <4>1. Keeps(task, new)
        BY EditKeeps
      <4>2. a.status \in OpenStatus
        BY DEF OpenStatus
      <4>3. SameOutput(task, n, a)
        BY DEF SameOutput
      <4>4. StaysDispatching(task, new) /\ StaysWithDevin(task, new) /\ NoNewSession(task, new)
        BY <4>2, <4>3, StillOpen
      <4> QED
        BY <4>1, <4>4 DEF Undisturbed
    <3> QED
      BY <2>2, <3>10, <3>11 DEF new
  <2> QED
    BY <2>0, <2>1, <2>2
(* reclaim_expired_tasks *)
<1>RemoteReclaim.
  ASSUME RInv, NEW p \in Workers, NEW swept \in SUBSET ExpiredTasks, ReclaimExpiredTasks(p, swept),
         UNCHANGED <<call, session>>
  PROVE  RInv' /\ Kept
  <2> USE <1>RemoteReclaim
  <2> DEFINE running(w) == {i \in Positions(w) : <<w, i>> \in swept /\ tasks[w][i].status = "RUNNING"}
             row(w) == IF running(w) # {} THEN BlockForReconciliation(workflow[w]) ELSE workflow[w]
             ts(w) == [i \in Positions(w) |->
                         IF <<w, i>> \in swept THEN ReclaimTask(tasks[w][i]) ELSE tasks[w][i]]
  <2>1. /\ workflow' = [w \in Workflows |-> row(w)]
        /\ tasks' = [w \in Workflows |-> ts(w)]
        /\ UNCHANGED worker
    BY DEF ReclaimExpiredTasks
  <2>2. ASSUME NEW w \in Workflows
        PROVE  Follows(w, row(w), ts(w))
    <3>1. tasks[w] \in Seq(Task)
      BY DEF RInv, RemoteTypeOK, TypeOK
    <3>2. CASE \A i \in Positions(w) : <<w, i>> \notin swept
      <4>1. running(w) = {}
        BY <3>2
      <4>2. ts(w) = [i \in Positions(w) |-> tasks[w][i]]
        BY <3>2
      <4>3. ts(w) = tasks[w]
        <5> HIDE DEF ts
        <5> QED
          BY <3>1, <4>2, SeqIsFunction DEF Positions
      <4>4. row(w) = workflow[w]
        BY <4>1
      <4> HIDE DEF row, ts
      <4> QED
        BY <4>3, <4>4, <1>Stays
    <3>3. CASE \E i \in Positions(w) : <<w, i>> \in swept
      <4>1. PICK i \in Positions(w) : <<w, i>> \in swept
        BY <3>3
      <4>2. \A j \in Positions(w) : <<w, j>> \in swept => Expired(tasks[w][j])
        BY SMT DEF ExpiredTasks
      <4>3. \A j \in Positions(w) : <<w, j>> \in swept => j = Len(tasks[w])
        <5>1. ASSUME NEW j \in Positions(w), <<w, j>> \in swept PROVE j = Len(tasks[w])
          <6>1. tasks[w][j].status \in {"LEASED", "RUNNING", "BLOCKED"}
                /\ tasks[w][j].status \notin {"SUCCEEDED", "RECONCILED"}
            BY <4>2, <5>1 DEF Expired
          <6>2. tasks[w][j].kind = "IMPLEMENT"
            BY <6>1, HeldIsImplement
          <6> QED
            BY <6>1, <6>2, OpenTask
        <5> QED
          BY <5>1
      <4> DEFINE task == tasks[w][i]
                 new == ReclaimTask(task)
      <4>4. Expired(task) /\ task.kind = "IMPLEMENT" /\ task.status \notin {"SUCCEEDED", "RECONCILED"}
        <5>1. Expired(task) /\ task.status \in {"LEASED", "RUNNING", "BLOCKED"}
              /\ task.status \notin {"SUCCEEDED", "RECONCILED"}
          BY <4>1, <4>2 DEF Expired
        <5> QED
          BY <5>1, HeldIsImplement
      <4> USE <4>4
      <4>5. /\ i = Len(tasks[w]) /\ Drives(workflow[w].state, task)
            /\ RowFits(workflow[w]) /\ workflow[w].candidate_revision = None /\ workflow[w] \in WorkflowRow
            /\ task \in Task /\ ImplementFits(task)
        BY OpenTask
      <4> USE <4>5
      <4>6. ts(w) = PutTask(w, i, new)
        <5>1. [tasks[w] EXCEPT ![i] = new] = [j \in 1 .. Len(tasks[w]) |-> IF j = i THEN new ELSE tasks[w][j]]
          BY SMT, <3>1
        <5> QED
          BY <4>1, <4>3, <5>1 DEF Positions, PutTask
      <4>7. /\ new \in Task /\ new.kind = task.kind /\ ImplementFits(new) /\ Undisturbed(task, new)
            /\ task.status = "LEASED" => new.status = "READY" /\ new.grant = task.grant
            /\ task.status = "RUNNING" => new.status = "BLOCKED"
            /\ task.status \in {"LEASED", "RUNNING"}
        BY <1>ReclaimedImplement
      <4> HIDE DEF new, ts
      <4> USE <4>7
      <4>8. CASE task.status = "LEASED"
        <5>1. running(w) = {}
          BY <4>3, <4>8
        <5>2. row(w) = workflow[w]
          BY <5>1
        <5> HIDE DEF row
        <5>3. Drives(workflow[w].state, new) /\ new.status # "SUCCEEDED"
          BY <4>8 DEF Drives
        <5>4. Moves(w, i, new, workflow[w])
          BY <5>3 DEF Moves
        <5>5. Follows(w, workflow[w], PutTask(w, i, new))
          BY <5>4, <1>MoveFollows
        <5> QED
          BY <4>6, <5>2, <5>5
      <4>9. CASE task.status = "RUNNING"
        <5>1. i \in running(w)
          BY <4>1, <4>9
        <5>2. row(w) = BlockForReconciliation(workflow[w])
          BY <5>1
        <5> HIDE DEF row
        <5> DEFINE next == BlockForReconciliation(workflow[w])
        <5>3. RowFits(next) /\ next.state = "BLOCKED" /\ next.candidate_revision = workflow[w].candidate_revision
          <6>1. "EXECUTION_RECONCILIATION_REQUIRED" \in BlockReason \ {"INPUT_DISPOSITION_REQUIRED"}
            BY DEF BlockReason
          <6> QED
            BY <6>1, MovedRowFits DEF BlockForReconciliation
        <5> HIDE DEF next
        <5>4. Drives(next.state, new) /\ new.status # "SUCCEEDED"
          BY <4>9, <5>3 DEF Drives
        <5>5. Moves(w, i, new, next)
          BY <5>3, <5>4 DEF Moves
        <5>6. Follows(w, next, PutTask(w, i, new))
          BY <5>5, <1>MoveFollows
        <5> QED
          BY <4>6, <5>2, <5>6 DEF next
      <4> QED
        BY <4>8, <4>9
    <3> QED
      BY <3>2, <3>3
  <2> HIDE DEF row, ts
  <2>3. \A w \in Workflows : workflow'[w] = row(w) /\ tasks'[w] = ts(w)
    BY <2>1
  <2>4. \A w \in Workflows : Follows(w, workflow'[w], tasks'[w])
    BY <2>2, <2>3
  <2>5. workflow' = [w \in Workflows |-> workflow'[w]] /\ tasks' = [w \in Workflows |-> tasks'[w]]
    BY <2>1
  <2>6. UNCHANGED <<worker, call, session>>
    BY <2>1
  <2> QED
    BY <2>4, <2>5, <2>6, <1>EngineFollows
<1>CancelledIs.
  ASSUME NEW task \in Task
  PROVE  TaskIs(Cancelled(task), task.kind, "CANCELLED", task.lease_owner, "INACTIVE", task.attempts)
  <2> USE <1>CancelledIs
  <2> DEFINE t == [task EXCEPT !.status = "CANCELLED"]
  <2>1. TaskIs(t, task.kind, "CANCELLED", task.lease_owner, task.grant, task.attempts)
    BY StatusIs DEF TaskStatus
  <2> HIDE DEF t
  <2>2. TaskIs(DeactivateGrant(t), t.kind, t.status, t.lease_owner, "INACTIVE", t.attempts)
    BY <2>1, DeactivateGrantIs DEF TaskIs
  <2>3. TaskIs(DeactivateGrant(t), task.kind, "CANCELLED", task.lease_owner, "INACTIVE", task.attempts)
    BY <2>1, <2>2 DEF TaskIs
  <2> QED
    BY <2>3 DEF t, Cancelled
<1>CancelledImplement.
  ASSUME NEW task \in Task, task.kind = "IMPLEMENT", ImplementFits(task), task.status \in LiveStatus
  PROVE  LET new == Cancelled(task)
         IN /\ new \in Task /\ new.kind = "IMPLEMENT" /\ new.status = "CANCELLED" /\ ImplementFits(new)
            /\ Undisturbed(task, new)
  <2> USE <1>CancelledImplement
  <2> DEFINE new == Cancelled(task)
  <2>1. TaskIs(new, task.kind, "CANCELLED", task.lease_owner, "INACTIVE", task.attempts)
    BY <1>CancelledIs
  <2> HIDE DEF new
  <2>2. /\ new \in Task /\ new.kind = task.kind /\ new.status = "CANCELLED" /\ new.lease_owner = task.lease_owner
        /\ new.grant = "INACTIVE" /\ new.attempts = task.attempts
    BY <2>1 DEF TaskIs
  <2> USE <2>2
  <2>3. AttemptsFit(new)
    BY DEF ImplementFits, AttemptsFit, EarlierFailed, EndsIn, LastAttempt, LiveStatus
  <2>4. LeaseFits(new)
    BY DEF ImplementFits, LeaseFits, HandedOver, LastAttempt
  <2>5. GrantHeld(new)
    BY DEF GrantHeld
  <2>6. Undisturbed(task, new)
    BY SameAttempts
  <2> QED
    BY <2>3, <2>4, <2>5, <2>6 DEF ImplementFits, new
(* Only the last task of a workflow is live *)
<1>LiveTaskIsLast.
  ASSUME RInv, NEW w \in Workflows, NEW i \in Positions(w), tasks[w][i].status \in LiveStatus
  PROVE  i = Len(tasks[w])
  <2> USE <1>LiveTaskIsLast
  <2>1. TaskFits(tasks[w][i]) /\ i \in 1 .. Len(tasks[w]) /\ Len(tasks[w]) \in Nat /\ WorkflowFits(workflow[w], tasks[w])
    BY RemoteTask
  <2> USE <2>1
  <2>2. ~Past(tasks[w], i)
    BY DEF Past, TaskFits, Superseded, Accepted, LiveStatus
  <2>3. ~(i < Len(tasks[w]))
    BY <2>2 DEF WorkflowFits
  <2> QED
    BY SMT, <2>3
<1>CancelledTwice.
  ~TransitionAllowed("FAILED", "CANCELLED") /\ ~TransitionAllowed("CANCELLED", "CANCELLED")
  BY SMT DEF TransitionAllowed, ALLOWED_TRANSITIONS, WorkflowState
(* What the cancellation makes of a workflow *)
<1>CancelFollows.
  ASSUME RInv, NEW w \in Workflows, TransitionAllowed(workflow[w].state, "CANCELLED")
  PROVE  Follows(w, Transition(workflow[w], "CANCELLED"),
                 [i \in Positions(w) |-> IF tasks[w][i].status \in LiveStatus
                                         THEN Cancelled(tasks[w][i]) ELSE tasks[w][i]])
  <2> USE <1>CancelFollows
  <2> DEFINE ts == [i \in Positions(w) |-> IF tasks[w][i].status \in LiveStatus
                                           THEN Cancelled(tasks[w][i]) ELSE tasks[w][i]]
             i == Len(tasks[w])
             task == tasks[w][i]
             new == IF task.status \in LiveStatus THEN Cancelled(task) ELSE task
             row == Transition(workflow[w], "CANCELLED")
  <2> SUFFICES Follows(w, row, ts)
    BY SMT
  <2>1. tasks[w] \in Seq(Task) /\ WorkflowFits(workflow[w], tasks[w])
    BY DEF RInv, RemoteTypeOK, TypeOK
  <2>2. i \in Positions(w)
    BY SMT, <2>1 DEF WorkflowFits, Positions
  <2>3. /\ task \in Task /\ TaskFits(task) /\ RowFits(workflow[w]) /\ Drives(workflow[w].state, task)
        /\ ResultFits(workflow[w], tasks[w])
    BY <2>1, <2>2, RemoteTask DEF WorkflowFits
  <2>4. ts = PutTask(w, i, new)
    <3>1. [tasks[w] EXCEPT ![i] = new] = [j \in 1 .. Len(tasks[w]) |-> IF j = i THEN new ELSE tasks[w][j]]
      BY <2>1, SeqIsFunction
    <3>2. ASSUME NEW j \in Positions(w)
          PROVE  (IF tasks[w][j].status \in LiveStatus THEN Cancelled(tasks[w][j]) ELSE tasks[w][j])
                   = (IF j = i THEN new ELSE tasks[w][j])
      <4>1. CASE j = i
        BY <4>1
      <4>2. CASE j # i
        <5>1. tasks[w][j].status \notin LiveStatus
          BY <4>2, <1>LiveTaskIsLast
        <5> HIDE DEF new
        <5> QED
          BY <4>2, <5>1
      <4> QED
        BY <4>1, <4>2
    <3> HIDE DEF new
    <3>3. ts = [j \in Positions(w) |-> IF j = i THEN new ELSE tasks[w][j]]
      BY <3>2
    <3> QED
      BY <3>1, <3>3 DEF Positions, PutTask
  <2> USE <2>3
  <2>5. RowFits(row) /\ row.state = "CANCELLED" /\ row.candidate_revision = workflow[w].candidate_revision
    BY TransitionRowFits
  <2>6. task.status \notin {"FAILED", "RECONCILED", "CANCELLED"}
    BY <1>CancelledTwice DEF Drives
  <2> HIDE DEF row, ts
  <2>7. CASE task.kind = "IMPLEMENT"
    <3> USE <2>7
    <3>1. task.status \notin {"SUCCEEDED", "RECONCILED"} /\ ImplementFits(task)
      BY <2>6 DEF ResultFits, TaskFits
    <3> USE <3>1
    <3>2. /\ new \in Task /\ new.kind = "IMPLEMENT" /\ ImplementFits(new) /\ Undisturbed(task, new)
          /\ new.status \in {"BLOCKED", "CANCELLED"}
      <4>1. CASE task.status \in LiveStatus
        <5>1. new = Cancelled(task)
          BY <4>1
        <5> HIDE DEF new
        <5>2. /\ Cancelled(task) \in Task /\ Cancelled(task).kind = "IMPLEMENT" /\ Cancelled(task).status = "CANCELLED"
              /\ ImplementFits(Cancelled(task)) /\ Undisturbed(task, Cancelled(task))
          BY <4>1, <1>CancelledImplement
        <5> QED
          BY <5>1, <5>2
      <4>2. CASE task.status \notin LiveStatus
        <5>1. new = task
          BY <4>2
        <5> HIDE DEF new
        <5>2. task.status = "BLOCKED"
          BY <2>6, <4>2 DEF Task, TaskStatus, LiveStatus
        <5>3. Undisturbed(task, task)
          BY Untouched
        <5> QED
          BY <5>1, <5>2, <5>3
      <4> QED
        BY <4>1, <4>2
    <3> HIDE DEF new
    <3> USE <3>2
    <3>3. Drives(row.state, new) /\ new.status # "SUCCEEDED"
      BY <2>5 DEF Drives
    <3>4. Moves(w, i, new, row)
      BY <2>5, <3>3 DEF Moves
    <3>5. Follows(w, row, PutTask(w, i, new))
      BY <2>2, <3>4, <1>MoveFollows
    <3> QED
      BY <2>4, <3>5
  <2>8. CASE task.kind # "IMPLEMENT"
    <3>1. task.kind = "TEST"
      BY <2>8 DEF ResultFits
    <3>2. task.status = "READY" /\ Len(task.attempts) = 0
      BY <2>6, <3>1 DEF TaskFits
    <3>3. new = Cancelled(task)
      BY <3>2 DEF LiveStatus
    <3>4. TaskIs(Cancelled(task), task.kind, "CANCELLED", task.lease_owner, "INACTIVE", task.attempts)
      BY <1>CancelledIs
    <3> HIDE DEF new
    <3>5. /\ new \in Task /\ new.kind = "TEST" /\ new.status = "CANCELLED" /\ new.grant = "INACTIVE"
          /\ new.attempts = task.attempts /\ new.kind = task.kind
      BY <3>1, <3>3, <3>4 DEF TaskIs
    <3> USE <3>5
    <3>6. TaskFits(new)
      BY <3>2 DEF TaskFits
    <3>7. Undisturbed(task, new)
      BY SameAttempts
    <3>8. Drives(row.state, new)
      BY <2>5 DEF Drives
    <3>9. new \in Task /\ new.kind = "TEST"
      OBVIOUS
    <3>10. WorkflowFits(row, PutTask(w, i, new))
      BY <2>2, <2>5, <3>1, <3>6, <3>8, <3>9, <1>TestMoves
    <3>11. Follows(w, row, PutTask(w, i, new))
      BY <2>2, <3>7, <3>9, <3>10, <1>PutFollows
    <3> QED
      BY <2>4, <3>11
  <2> QED
    BY <2>7, <2>8
(* cancel_workflow *)
<1>RemoteCancel.
  ASSUME RInv, NEW w \in Workflows, CancelWorkflow(w), UNCHANGED <<call, session>>
  PROVE  RInv' /\ Kept
  <2> USE <1>RemoteCancel
  <2> DEFINE row == Transition(workflow[w], "CANCELLED")
             ts == [i \in Positions(w) |-> IF tasks[w][i].status \in LiveStatus
                                           THEN Cancelled(tasks[w][i]) ELSE tasks[w][i]]
  <2>1. /\ workflow' = [workflow EXCEPT ![w] = row] /\ tasks' = [tasks EXCEPT ![w] = ts]
        /\ UNCHANGED worker /\ TransitionAllowed(workflow[w].state, "CANCELLED")
    BY DEF CancelWorkflow, Cancelled, LiveStatus
  <2> USE <2>1
  <2>2. Follows(w, row, ts)
    BY <1>CancelFollows
  <2> HIDE DEF row, ts
  <2>3. /\ workflow \in [Workflows -> WorkflowRow \cup {None}] /\ tasks \in [Workflows -> Seq(Task)]
    BY DEF RInv, RemoteTypeOK, TypeOK
  <2> USE <2>3
  <2>4. workflow'[w] = row /\ tasks'[w] = ts
    OBVIOUS
  <2>5. \A v \in Workflows : v # w => workflow'[v] = workflow[v] /\ tasks'[v] = tasks[v]
    OBVIOUS
  <2>6. \A v \in Workflows : Follows(v, workflow'[v], tasks'[v])
    <3>1. ASSUME NEW v \in Workflows PROVE Follows(v, workflow'[v], tasks'[v])
      <4>1. CASE v = w
        BY <2>2, <2>4, <4>1
      <4>2. CASE v # w
        BY <2>5, <4>2, <1>Stays
      <4> QED
        BY <4>1, <4>2
    <3> QED
      BY <3>1
  <2>7. workflow' = [v \in Workflows |-> workflow'[v]] /\ tasks' = [v \in Workflows |-> tasks'[v]]
    OBVIOUS
  <2>8. UNCHANGED <<worker, call, session>>
    OBVIOUS
  <2> QED
    BY <2>6, <2>7, <2>8, <1>EngineFollows
<1> QED
  BY <1>RemoteGrantExpires, <1>RemoteReclaim, <1>RemoteCancel

(* Nothing is left to create, to release from containment or to merge *)
LEMMA RemoteHumans ==
  ASSUME RInv, NEW w \in Workflows
  PROVE  /\ \A suspicious : ~CreateWorkflow(w, suspicious)
         /\ \A decision : ~DispositionWorkflow(w, decision)
         /\ \A revision, decision : ~ApproveMerge(w, revision, decision)
<1>1. RowFits(workflow[w])
  BY DEF RInv, WorkflowFits
<1>2. Created(w)
  BY <1>1, RowAssumption DEF RowFits, Created
<1>3. workflow[w].state # "AWAITING_HUMAN_APPROVAL" /\ workflow[w].block_reason # "INPUT_DISPOSITION_REQUIRED"
  BY <1>1 DEF RowFits
<1> QED
  BY <1>2, <1>3 DEF CreateWorkflow, DispositionWorkflow, ApproveMerge
-----------------------------------------------------------------------------
(* Calls *)

(* The call c goes on with k *)
CallBecomes(c, k) == k \in CallState /\ call' = [call EXCEPT ![c] = k]

LEMMA CallTable ==
  ASSUME RInv, NEW c \in Calls, NEW k, CallBecomes(c, k)
  PROVE  call' \in [Calls -> CallState] /\ call'[c] = k /\ \A d \in Calls : d # c => call'[d] = call[d]
BY DEF RInv, RemoteTypeOK, CallBecomes

(* An idle call relies on nothing *)
LEMMA NoCallFits == NoCall \in CallState /\ NoCall.pc = "idle"
BY DEF NoCall, CallState

LEMMA NoCallRelies ==
  ASSUME NEW c, call'[c] = NoCall
  PROVE  CallFits(c)' /\ ~Pending(c)'
BY NoCallFits DEF CallFits, Pending

(* No other call dispatches the attempt that c does *)
LEMMA DispatchesApart ==
  ASSUME RInv, NEW c \in Calls, \A d \in Calls : d # c => call'[d] = call[d],
         Pending(c)' => \A d \in Calls : d # c /\ Pending(d) => SessionOf(d) # SessionOf(c)'
  PROVE  OneDispatch'
<1>1. \A d \in Calls : d # c => (Pending(d)' <=> Pending(d)) /\ SessionOf(d)' = SessionOf(d)
  BY DEF Pending, SessionOf
<1>2. ASSUME NEW a \in Calls, NEW b \in Calls, Pending(a)', Pending(b)', SessionOf(a)' = SessionOf(b)'
      PROVE  a = b
  <2>1. CASE a # c /\ b # c
    BY <1>1, <1>2, <2>1 DEF RInv, OneDispatch
  <2>2. CASE a = c \/ b = c
    BY <1>1, <1>2, <2>2
  <2> QED
    BY <2>1, <2>2
<1> QED
  BY <1>2 DEF OneDispatch

(* A call writes one task *)
LEMMA CallWrites ==
  ASSUME RInv, NEW w \in Workflows, NEW i \in Positions(w), NEW new \in Task, NEW ts, NEW row,
         Writes(w, i, new, ts, row), Keeps(tasks[w][i], new),
         NEW c \in Calls, NEW k, CallBecomes(c, k), UNCHANGED <<worker, session>>,
         CallFits(c)', Known(w, i)',
         Pending(c)' => \A d \in Calls : d # c /\ Pending(d) => SessionOf(d) # SessionOf(c)',
         \A d \in Calls : d # c /\ Pending(d) /\ call[d].wf = w /\ call[d].pos = i =>
           StaysDispatching(tasks[w][i], new),
         \A s \in DOMAIN session : session[s] = "running" /\ s[1] = w /\ s[2] = i =>
           StaysWithDevin(tasks[w][i], new)
  PROVE  RInv' /\ Kept
<1>1. /\ workflow' \in [Workflows -> WorkflowRow \cup {None}] /\ tasks' \in [Workflows -> Seq(Task)]
      /\ \A v \in Workflows : WorkflowFits(workflow'[v], tasks'[v])
      /\ \A v \in Workflows : Len(tasks[v]) <= Len(tasks'[v])
      /\ tasks'[w] = ts /\ tasks'[w][i] = new
      /\ \A v \in Workflows : \A j \in Positions(v) : v # w \/ j # i => tasks'[v][j] = tasks[v][j]
      /\ \A v \in Workflows : \A j \in Positions(v)' : j \notin Positions(v) => Len(tasks'[v][j].attempts) = 0
      /\ Keeps(tasks[w][i], new) => Kept
  BY WritesKept
<1>2. call' \in [Calls -> CallState] /\ call'[c] = k /\ \A d \in Calls : d # c => call'[d] = call[d]
  BY CallTable
<1> USE <1>1
<1>3. RemoteTypeOK' /\ Kept
  BY <1>2 DEF RInv, RemoteTypeOK, TypeOK
<1>4. \A p \in Workers : WorkerFits(p)'
  BY <1>3, OthersKept
<1>5. ASSUME NEW d \in Calls, d # c PROVE CallFits(d)'
  <2>1. ASSUME Pending(d) PROVE StaysDispatching(CallTask(d), tasks'[call[d].wf][call[d].pos])
    <3>1. call[d].wf \in Workflows /\ call[d].pos \in Positions(call[d].wf)
      BY <2>1 DEF RInv, CallFits, Pending
    <3>2. CASE call[d].wf = w /\ call[d].pos = i
      BY <1>5, <2>1, <3>2 DEF CallTask
    <3>3. CASE call[d].wf # w \/ call[d].pos # i
      <4>1. tasks'[call[d].wf][call[d].pos] = CallTask(d)
        BY <3>1, <3>3 DEF CallTask
      <4> QED
        BY <4>1 DEF StaysDispatching
    <3> QED
      BY <3>2, <3>3
  <2>2. call'[d] = call[d]
    BY <1>2, <1>5
  <2> QED
    BY <1>3, <2>1, <2>2, OthersKept DEF CallStays
<1>6. OneDispatch'
  BY <1>2, DispatchesApart
<1>7. ASSUME NEW s \in DOMAIN session PROVE SessionFits(s)'
  <2>1. s[1] \in Workflows /\ s[2] \in Positions(s[1])
    BY SMT DEF RInv, RemoteTypeOK, SessionFits
  <2>2. ASSUME session[s] = "running" PROVE StaysWithDevin(tasks[s[1]][s[2]], tasks'[s[1]][s[2]])
    <3>1. CASE s[1] = w /\ s[2] = i
      BY <2>2, <3>1
    <3>2. CASE s[1] # w \/ s[2] # i
      BY <2>1, <3>2 DEF StaysWithDevin
    <3> QED
      BY <3>1, <3>2
  <2> QED
    BY <1>3, <2>2, OthersKept DEF SessionStays
<1>8. ASSUME NEW v \in Workflows, NEW j \in Positions(v)' PROVE Known(v, j)'
  <2>1. CASE v = w /\ j = i
    BY <2>1
  <2>2. CASE j \in Positions(v) /\ (v # w \/ j # i)
    BY <2>2 DEF RInv, Known
  <2>3. CASE j \notin Positions(v)
    <3>1. Len(tasks'[v][j].attempts) = 0
      BY <2>3
    <3> QED
      BY SMT, <3>1 DEF Known
  <2> QED
    BY <2>1, <2>2, <2>3
<1> QED
  BY <1>3, <1>4, <1>5, <1>6, <1>7, <1>8 DEF RInv

(* A call reads, or talks to Devin: no row changes *)
LEMMA CallReads ==
  ASSUME RInv, NEW c \in Calls, NEW k, CallBecomes(c, k), UNCHANGED <<workflow, tasks, worker>>,
         DOMAIN session' \subseteq Workflows \X Nat \X Nat,
         \A s \in DOMAIN session' : session'[s] \in {"running", "finished", "ended"},
         \A s \in DOMAIN session : s \in DOMAIN session' /\ (session'[s] = "running" => session[s] = "running"),
         \A s \in DOMAIN session' : s \notin DOMAIN session => SessionFits(s)',
         \A d \in Calls : d # c /\ call[d].pc = "submitting" /\ SessionOf(d) \notin DOMAIN session =>
           SessionOf(d) \notin DOMAIN session',
         CallFits(c)',
         Pending(c)' => \A d \in Calls : d # c /\ Pending(d) => SessionOf(d) # SessionOf(c)'
  PROVE  RInv' /\ Kept
<1>1. call' \in [Calls -> CallState] /\ call'[c] = k /\ \A d \in Calls : d # c => call'[d] = call[d]
  BY CallTable
<1>2. RemoteTypeOK'
  BY <1>1 DEF RInv, RemoteTypeOK, TypeOK
<1>3. Kept
  <2>1. ASSUME NEW w \in Workflows PROVE Len(tasks[w]) <= Len(tasks'[w])
    <3>1. tasks[w] \in Seq(Task)
      BY DEF RInv, RemoteTypeOK, TypeOK
    <3> QED
      BY SMT, <3>1
  <2>2. ASSUME NEW w \in Workflows, NEW i \in Positions(w) PROVE Keeps(tasks[w][i], tasks'[w][i])
    BY RemoteTask, Untouched DEF Undisturbed
  <2> QED
    BY <2>1, <2>2 DEF Kept
<1> USE <1>3
<1>4. \A p \in Workers : WorkerFits(p)'
  BY <1>2, OthersKept
<1>5. ASSUME NEW d \in Calls, d # c PROVE CallFits(d)'
  <2>1. StaysDispatching(CallTask(d), tasks'[call[d].wf][call[d].pos])
    BY DEF StaysDispatching, CallTask
  <2>2. call'[d] = call[d]
    BY <1>1, <1>5
  <2>3. \A s \in DOMAIN session : s \in DOMAIN session' /\ (session[s] # "running" => session'[s] # "running")
    OBVIOUS
  <2>4. call[d].pc = "submitting" /\ SessionOf(d) \notin DOMAIN session => SessionOf(d) \notin DOMAIN session'
    BY <1>5
  <2> QED
    BY <1>2, <2>1, <2>2, <2>3, <2>4, OthersKept DEF CallStays
<1>6. OneDispatch'
  BY <1>1, DispatchesApart
<1>7. ASSUME NEW s \in DOMAIN session' PROVE SessionFits(s)'
  <2>1. CASE s \in DOMAIN session
    <3>1. StaysWithDevin(tasks[s[1]][s[2]], tasks'[s[1]][s[2]])
      BY DEF StaysWithDevin
    <3> QED
      BY <1>2, <2>1, <3>1, OthersKept DEF SessionStays
  <2> QED
    BY <2>1
<1>8. \A w \in Workflows : \A i \in Positions(w)' : Known(w, i)'
  BY DEF RInv, Known, Positions
<1>9. \A w \in Workflows : WorkflowFits(workflow'[w], tasks'[w])
  BY DEF RInv
<1> QED
  BY <1>2, <1>4, <1>5, <1>6, <1>7, <1>8, <1>9 DEF RInv

LEMMA CallReadsOnly ==
  ASSUME RInv, NEW c \in Calls, NEW k, CallBecomes(c, k), UNCHANGED <<workflow, tasks, worker, session>>,
         CallFits(c)', Pending(c)' => \A d \in Calls : d # c /\ Pending(d) => SessionOf(d) # SessionOf(c)'
  PROVE  RInv' /\ Kept
<1>1. /\ DOMAIN session \subseteq Workflows \X Nat \X Nat
      /\ \A s \in DOMAIN session : session[s] \in {"running", "finished", "ended"}
  BY DEF RInv, RemoteTypeOK
<1>2. session' = session /\ UNCHANGED <<workflow, tasks, worker>>
  OBVIOUS
<1> USE <1>2
<1>3. /\ DOMAIN session' \subseteq Workflows \X Nat \X Nat
      /\ \A s \in DOMAIN session' : session'[s] \in {"running", "finished", "ended"}
  BY <1>1
<1>4. /\ \A s \in DOMAIN session : s \in DOMAIN session' /\ (session'[s] = "running" => session[s] = "running")
      /\ \A s \in DOMAIN session' : s \notin DOMAIN session => SessionFits(s)'
      /\ \A d \in Calls : d # c /\ call[d].pc = "submitting" /\ SessionOf(d) \notin DOMAIN session =>
           SessionOf(d) \notin DOMAIN session'
  OBVIOUS
<1> QED
  BY <1>3, <1>4, CallReads

(* What a call knows that has neither a dispatch nor an observation in hand *)
Holds(k) ==
  /\ k.wf \in Workflows /\ k.pos \in Positions(k.wf) /\ tasks[k.wf][k.pos].kind = "IMPLEMENT"
  /\ k.pc \in {"handoff", "claiming", "claimed", "evidence"}
  /\ k.pc = "evidence" => k.base # None

(* dispatch_devin_task and claim_windsurf_task, their first transactions *)
HandoffCall(w, i, n, base) == [NoCall EXCEPT !.pc = "handoff", !.wf = w, !.pos = i, !.attempt = n, !.base = base]

ClaimingCall(w, i, base) == [NoCall EXCEPT !.pc = "claiming", !.wf = w, !.pos = i, !.base = base]

ClaimedCall(w, i, token) == [NoCall EXCEPT !.pc = "claimed", !.wf = w, !.pos = i, !.token = token]

ObservingCall(w, i, n, seen) == [NoCall EXCEPT !.pc = "observed", !.wf = w, !.pos = i, !.attempt = n, !.seen = seen]

(* Facts about a call that is being served *)
LEMMA CallFacts ==
  ASSUME RInv, NEW c \in Calls, call[c].pc # "idle"
  PROVE  LET w == call[c].wf
             i == call[c].pos
         IN /\ w \in Workflows /\ i \in Positions(w) /\ CallTask(c) = tasks[w][i]
            /\ tasks[w][i] \in Task /\ tasks[w][i].kind = "IMPLEMENT" /\ ImplementFits(tasks[w][i])
            /\ call[c] \in CallState /\ CallFits(c)
<1>1. /\ call[c].wf \in Workflows /\ call[c].pos \in Positions(call[c].wf) /\ CallTask(c).kind = "IMPLEMENT"
      /\ CallFits(c) /\ call[c] \in CallState
  BY DEF RInv, CallFits, RemoteTypeOK
<1>2. CallTask(c) = tasks[call[c].wf][call[c].pos]
  BY DEF CallTask
<1> QED
  BY <1>1, <1>2, RemoteTask

(* Transactions that write nothing: what the call goes on with *)
LEMMA ReadSteps ==
  RInv => \A c \in Calls :
    /\ \A w \in Workflows : \A i \in Positions(w) :
         DispatchRead(c, w, i) \/ ClaimRead(c, w, i) \/ ExistingClaim(c, w, i) => RInv' /\ Kept
    /\ \A revision \in Revisions : EvidenceRead(c, revision) => RInv' /\ Kept
    /\ CallEnds(c) => RInv' /\ Kept
<1>CallHolds.
  ASSUME RInv, NEW c \in Calls, NEW k, CallBecomes(c, k), Holds(k), UNCHANGED <<workflow, tasks, worker, session>>
  PROVE  RInv' /\ Kept
  <2> USE <1>CallHolds
  <2>1. call'[c] = k /\ tasks' = tasks
    BY CallTable
  <2>2. k.pc # "submitting" /\ k.pc # "submitted" /\ k.pc # "unclear" /\ k.pc # "observed"
    BY DEF Holds
  <2>3. ~Pending(c)'
    BY <2>1, <2>2 DEF Pending
  <2>4. CallFits(c)'
    BY <2>1, <2>2, <2>3 DEF CallFits, CallTask, Positions, Holds
  <2> QED
    BY <2>3, <2>4, CallReadsOnly
<1>HandoffIs.
  ASSUME NEW w \in Workflows, NEW i \in Nat, NEW n \in Nat, NEW base \in Revisions \cup {None}
  PROVE  LET k == HandoffCall(w, i, n, base)
         IN k \in CallState /\ k.pc = "handoff" /\ k.wf = w /\ k.pos = i
  BY <1>HandoffIs DEF NoCall, CallState, HandoffCall
<1>ClaimingIs.
  ASSUME NEW w \in Workflows, NEW i \in Nat, NEW base \in Revisions \cup {None}
  PROVE  LET k == ClaimingCall(w, i, base)
         IN k \in CallState /\ k.pc = "claiming" /\ k.wf = w /\ k.pos = i
  BY <1>ClaimingIs DEF NoCall, CallState, ClaimingCall
<1>ClaimedIs.
  ASSUME NEW w \in Workflows, NEW i \in Nat, NEW token \in Tokens \cup {None}
  PROVE  LET k == ClaimedCall(w, i, token)
         IN k \in CallState /\ k.pc = "claimed" /\ k.wf = w /\ k.pos = i
  BY <1>ClaimedIs DEF NoCall, CallState, ClaimedCall
<1>RemoteDispatchRead.
  ASSUME RInv, NEW c \in Calls, NEW w \in Workflows, NEW i \in Positions(w), DispatchRead(c, w, i)
  PROVE  RInv' /\ Kept
  <2> USE <1>RemoteDispatchRead
  <2> DEFINE n == Len(tasks[w][i].attempts) + 1
             base == workflow[w].candidate_revision
             k == HandoffCall(w, i, n, base)
  <2>1. tasks[w][i].kind = "IMPLEMENT" /\ UNCHANGED <<workflow, tasks, worker, session>>
    BY DEF DispatchRead, Dispatchable
  <2>2. workflow[w] \in WorkflowRow /\ Len(tasks[w][i].attempts) \in Nat
    BY RemoteTask
  <2>3. n \in Nat /\ base \in Revisions \cup {None} /\ i \in Nat
    BY SMT, <2>2 DEF WorkflowRow, Positions
  <2>4. call' = [call EXCEPT ![c] = k]
    BY DEF DispatchRead, HandoffCall
  <2> HIDE DEF n, base
  <2>5. k \in CallState /\ k.pc = "handoff" /\ k.wf = w /\ k.pos = i
    BY SMT, <2>3, <1>HandoffIs
  <2> HIDE DEF k
  <2>6. CallBecomes(c, k)
    BY <2>4, <2>5 DEF CallBecomes
  <2>7. Holds(k)
    BY <2>1, <2>5 DEF Holds
  <2> QED
    BY <2>1, <2>6, <2>7, <1>CallHolds
<1>RemoteClaimRead.
  ASSUME RInv, NEW c \in Calls, NEW w \in Workflows, NEW i \in Positions(w), ClaimRead(c, w, i)
  PROVE  RInv' /\ Kept
  <2> USE <1>RemoteClaimRead
  <2> DEFINE base == workflow[w].candidate_revision
             k == ClaimingCall(w, i, base)
  <2>1. tasks[w][i].kind = "IMPLEMENT" /\ UNCHANGED <<workflow, tasks, worker, session>>
    BY DEF ClaimRead, Claimable
  <2>2. workflow[w] \in WorkflowRow
    BY RemoteTask
  <2>3. base \in Revisions \cup {None} /\ i \in Nat
    BY SMT, <2>2 DEF WorkflowRow, Positions
  <2>4. call' = [call EXCEPT ![c] = k]
    BY DEF ClaimRead, ClaimingCall
  <2> HIDE DEF base
  <2>5. k \in CallState /\ k.pc = "claiming" /\ k.wf = w /\ k.pos = i
    BY <2>3, <1>ClaimingIs
  <2> HIDE DEF k
  <2>6. CallBecomes(c, k)
    BY <2>4, <2>5 DEF CallBecomes
  <2>7. Holds(k)
    BY <2>1, <2>5 DEF Holds
  <2> QED
    BY <2>1, <2>6, <2>7, <1>CallHolds
(* _existing_windsurf_claim *)
<1>RemoteExistingClaim.
  ASSUME RInv, NEW c \in Calls, NEW w \in Workflows, NEW i \in Positions(w), ExistingClaim(c, w, i)
  PROVE  RInv' /\ Kept
  <2> USE <1>RemoteExistingClaim
  <2> DEFINE token == tasks[w][i].lease_token
             k == ClaimedCall(w, i, token)
  <2>1. tasks[w][i].status = "RUNNING" /\ UNCHANGED <<workflow, tasks, worker, session>>
    BY DEF ExistingClaim
  <2>2. tasks[w][i].kind = "IMPLEMENT" /\ tasks[w][i] \in Task
    BY <2>1, HeldIsImplement, RemoteTask
  <2>3. token \in Tokens \cup {None} /\ i \in Nat
    BY SMT, <2>2 DEF Task, Positions
  <2>4. call' = [call EXCEPT ![c] = k]
    BY DEF ExistingClaim, ClaimedCall
  <2> HIDE DEF token
  <2>5. k \in CallState /\ k.pc = "claimed" /\ k.wf = w /\ k.pos = i
    BY <2>3, <1>ClaimedIs
  <2> HIDE DEF k
  <2>6. CallBecomes(c, k)
    BY <2>4, <2>5 DEF CallBecomes
  <2>7. Holds(k)
    BY <2>2, <2>5 DEF Holds
  <2> QED
    BY <2>1, <2>6, <2>7, <1>CallHolds
(* submit_windsurf_evidence, its first transaction *)
<1>RemoteEvidenceRead.
  ASSUME RInv, NEW c \in Calls, NEW revision \in Revisions, EvidenceRead(c, revision)
  PROVE  RInv' /\ Kept
  <2> USE <1>RemoteEvidenceRead
  <2> DEFINE k1 == [call[c] EXCEPT !.pc = "evidence"]
             k == [k1 EXCEPT !.base = revision]
  <2>1. call[c].pc # "idle" /\ UNCHANGED <<workflow, tasks, worker, session>>
    BY DEF EvidenceRead
  <2>2. /\ call[c].wf \in Workflows /\ call[c].pos \in Positions(call[c].wf)
        /\ tasks[call[c].wf][call[c].pos].kind = "IMPLEMENT" /\ call[c] \in CallState
    BY <2>1, CallFacts
  <2>3. call' = [call EXCEPT ![c] = k]
    BY DEF EvidenceRead, RInv, RemoteTypeOK
  <2>4. k1 \in CallState /\ k1.pc = "evidence" /\ k1.wf = call[c].wf /\ k1.pos = call[c].pos
    BY <2>2 DEF CallState
  <2>5. k = [k1 EXCEPT !.base = revision]
    BY SMT
  <2> HIDE DEF k1
  <2>6. k \in CallState /\ k.pc = "evidence" /\ k.wf = k1.wf /\ k.pos = k1.pos /\ k.base = revision
    BY SMT, <2>4 DEF CallState
  <2> HIDE DEF k
  <2> USE <2>6
  <2>7. CallBecomes(c, k)
    BY <2>3 DEF CallBecomes
  <2>8. k.base # None
    BY NoneAssumption
  <2>9. Holds(k)
    BY <2>2, <2>4, <2>8 DEF Holds
  <2> QED
    BY <2>1, <2>7, <2>9, <1>CallHolds
(* A call ends *)
<1>RemoteCallEnds.
  ASSUME RInv, NEW c \in Calls, CallEnds(c)
  PROVE  RInv' /\ Kept
  <2> USE <1>RemoteCallEnds
  <2>1. CallBecomes(c, NoCall) /\ UNCHANGED <<workflow, tasks, worker, session>>
    BY NoCallFits DEF CallEnds, CallBecomes
  <2>2. call'[c] = NoCall
    BY <2>1, CallTable
  <2>3. CallFits(c)' /\ ~Pending(c)'
    BY <2>2, NoCallRelies
  <2> QED
    BY <2>1, <2>3, CallReadsOnly
<1> QED
  BY <1>RemoteDispatchRead, <1>RemoteClaimRead, <1>RemoteExistingClaim, <1>RemoteEvidenceRead, <1>RemoteCallEnds
-----------------------------------------------------------------------------
(* Devin's sessions *)

(* What _require_running leaves as the attempt of a session *)
LEMMA RunningDevin ==
  ASSUME RInv, NEW w \in Workflows, NEW i \in Positions(w), RequireRunning(tasks[w][i])
  PROVE  LET task == tasks[w][i]
             n == DevinAttempt(task)
         IN /\ task \in Task /\ task.kind = "IMPLEMENT" /\ task.status = "RUNNING"
            /\ n = Len(task.attempts) /\ n # 0 /\ n \in 1 .. Len(task.attempts) /\ n \in Nat
            /\ task.attempts[n] \in Attempt /\ task.attempts[n].status = "RUNNING"
            /\ task.attempts[n].provider = "devin" /\ task.attempts[n].output \in DevinOutput
<1> DEFINE task == tasks[w][i]
           n == DevinAttempt(task)
<1>1. task.status = "RUNNING" /\ task.lease_owner = DEVIN_PRINCIPAL
  BY DEF RequireRunning
<1>2. task.kind = "IMPLEMENT" /\ task.status \notin {"SUCCEEDED", "RECONCILED"}
  BY <1>1, HeldIsImplement
<1>3. task \in Task /\ ImplementFits(task)
  BY <1>2, OpenTask
<1>4. HandedOver(task, "devin") /\ LastAttempt(task).output \in DevinOutput
  BY <1>1, <1>3 DEF ImplementFits, LeaseFits
<1>5. Len(task.attempts) # 0 /\ LastAttempt(task).status = "RUNNING" /\ LastAttempt(task).provider = "devin"
  BY <1>4 DEF HandedOver
<1> USE <1>5
<1>6. n = Len(task.attempts) /\ n \in 1 .. Len(task.attempts) /\ n \in Nat /\ task.attempts[n] \in Attempt
  <2> DEFINE last == Len(task.attempts)
             by_devin == {m \in DOMAIN task.attempts : task.attempts[m].provider = "devin"}
             newest == CHOOSE k \in by_devin : \A m \in by_devin : m <= k
  <2>1. task.attempts \in Seq(Attempt) /\ last \in Nat /\ DOMAIN task.attempts = 1 .. last
    BY SMT, <1>3 DEF Task
  <2> USE <2>1
  <2>2. last \in 1 .. last /\ task.attempts[last] \in Attempt
    BY SMT
  <2>3. last \in by_devin
    BY <2>2 DEF LastAttempt
  <2> USE <2>3
  <2>4. by_devin # {}
    OBVIOUS
  <2>5. DevinAttempt(task) = newest
    BY <2>4 DEF DevinAttempt
  <2>6. \A m \in by_devin : m <= last
    BY SMT
  <2>7. by_devin \subseteq Nat
    BY SMT
  <2> HIDE DEF by_devin
  <2>8. newest \in by_devin /\ \A m \in by_devin : m <= newest
    BY <2>6
  <2> HIDE DEF newest
  <2>9. newest = last
    BY SMT, <2>6, <2>7, <2>8
  <2> QED
    BY <2>2, <2>5, <2>9
<1> HIDE DEF n
<1>7. task.attempts[n] = LastAttempt(task) /\ n # 0
  BY <1>6 DEF LastAttempt
<1> QED
  BY <1>1, <1>2, <1>3, <1>4, <1>6, <1>7 DEF n

(* What a call knows that has observed session <<w, i, n>> *)
Observed(k, w, i, n, seen) ==
  k.pc = "observed" /\ k.wf = w /\ k.pos = i /\ k.attempt = n /\ k.seen = seen

(* A call polls or ends a session *)
LEMMA PollSteps ==
  RInv => \A c \in Calls : \A w \in Workflows : \A i \in Positions(w) :
    SyncDevinTask(c, w, i) \/ CancelDevinTask(c, w, i) => RInv' /\ Kept
<1>ObservingIs.
  ASSUME NEW w \in Workflows, NEW i \in Nat, NEW n \in Nat, NEW seen \in {"IN_FLIGHT", "SUCCEEDED", "ENDED"}
  PROVE  LET k == ObservingCall(w, i, n, seen)
         IN /\ k \in CallState /\ k.pc = "observed" /\ k.wf = w /\ k.pos = i /\ k.attempt = n
            /\ k.seen = seen
  BY <1>ObservingIs DEF NoCall, CallState, ObservingCall
<1>ObserveIs.
  ASSUME NEW status \in {"running", "finished", "ended"}
  PROVE  /\ Observe(status) \in {"IN_FLIGHT", "SUCCEEDED", "ENDED"}
         /\ Observe(status) \in {"SUCCEEDED", "ENDED"} => status # "running"
  BY SMT, <1>ObserveIs DEF Observe
<1>CallObserves.
  ASSUME RInv, NEW c \in Calls, NEW k, CallBecomes(c, k), NEW w \in Workflows, NEW i \in Positions(w), NEW n, NEW seen,
         Observed(k, w, i, n, seen), tasks' = tasks, tasks[w][i].kind = "IMPLEMENT",
         n \in 1 .. Len(tasks[w][i].attempts), tasks[w][i].attempts[n].output = "SESSION",
         <<w, i, n>> \in DOMAIN session', seen \in {"SUCCEEDED", "ENDED"} => session'[<<w, i, n>>] # "running"
  PROVE  CallFits(c)' /\ ~Pending(c)'
  <2> USE <1>CallObserves
  <2>1. /\ call'[c].pc = "observed" /\ call'[c].wf = w /\ call'[c].pos = i /\ call'[c].attempt = n
        /\ call'[c].seen = seen
    BY CallTable DEF Observed
  <2> USE <2>1
  <2>2. CallTask(c)' = tasks[w][i] /\ SessionOf(c)' = <<w, i, n>>
    BY DEF CallTask, SessionOf
  <2>3. ~Pending(c)'
    BY DEF Pending
  <2>4. ObservedFits(c)'
    BY <2>2 DEF ObservedFits
  <2>5. Positions(w)' = Positions(w)
    BY DEF Positions
  <2>6. CallFits(c)'
    BY <2>2, <2>3, <2>4, <2>5 DEF CallFits
  <2> QED
    BY <2>3, <2>6
(* A session that a call may poll or terminate *)
<1>SessionIsKnown.
  ASSUME RInv, NEW w \in Workflows, NEW i \in Positions(w), HasSession(w, i)
  PROVE  LET n == DevinAttempt(tasks[w][i])
         IN /\ tasks[w][i].kind = "IMPLEMENT" /\ n \in 1 .. Len(tasks[w][i].attempts) /\ n \in Nat
            /\ tasks[w][i].attempts[n].output = "SESSION" /\ <<w, i, n>> \in DOMAIN session
            /\ session[<<w, i, n>>] \in {"running", "finished", "ended"}
  <2> USE <1>SessionIsKnown
  <2> DEFINE n == DevinAttempt(tasks[w][i])
  <2>1. RequireRunning(tasks[w][i]) /\ tasks[w][i].attempts[n].output = "SESSION"
    BY DEF HasSession
  <2> USE <2>1
  <2>2. tasks[w][i].kind = "IMPLEMENT" /\ n \in 1 .. Len(tasks[w][i].attempts) /\ n \in Nat
    BY RunningDevin
  <2> HIDE DEF n
  <2>3. <<w, i, n>> \in DOMAIN session
    BY <2>2, RemoteTask DEF Known
  <2>4. session[<<w, i, n>>] \in {"running", "finished", "ended"}
    BY <2>3 DEF RInv, RemoteTypeOK
  <2> QED
    BY <2>2, <2>3, <2>4 DEF n
(* sync_devin_task up to the poll *)
<1>RemoteSync.
  ASSUME RInv, NEW c \in Calls, NEW w \in Workflows, NEW i \in Positions(w), SyncDevinTask(c, w, i)
  PROVE  RInv' /\ Kept
  <2> USE <1>RemoteSync
  <2> DEFINE n == DevinAttempt(tasks[w][i])
             status == session[<<w, i, n>>]
             seen == Observe(status)
             k == ObservingCall(w, i, n, seen)
  <2>1. HasSession(w, i) /\ UNCHANGED <<workflow, tasks, worker, session>> /\ call' = [call EXCEPT ![c] = k]
    BY DEF SyncDevinTask, Observing, ObservingCall
  <2> USE <2>1
  <2>2. /\ tasks[w][i].kind = "IMPLEMENT" /\ n \in 1 .. Len(tasks[w][i].attempts) /\ n \in Nat
        /\ tasks[w][i].attempts[n].output = "SESSION" /\ <<w, i, n>> \in DOMAIN session
        /\ status \in {"running", "finished", "ended"}
    BY <1>SessionIsKnown
  <2> HIDE DEF n
  <2> USE <2>2
  <2>3. /\ seen \in {"IN_FLIGHT", "SUCCEEDED", "ENDED"}
        /\ seen \in {"SUCCEEDED", "ENDED"} => status # "running"
    BY <1>ObserveIs
  <2> HIDE DEF seen
  <2>4. i \in Nat
    BY SMT DEF Positions
  <2>5. /\ k \in CallState /\ k.pc = "observed" /\ k.wf = w /\ k.pos = i /\ k.attempt = n
        /\ k.seen = seen
    BY SMT, <2>3, <2>4, <1>ObservingIs
  <2> HIDE DEF k
  <2>6. CallBecomes(c, k) /\ Observed(k, w, i, n, seen)
    BY <2>5 DEF CallBecomes, Observed
  <2>7. tasks' = tasks /\ <<w, i, n>> \in DOMAIN session' /\ (seen \in {"SUCCEEDED", "ENDED"} => session'[<<w, i, n>>] # "running")
    BY <2>3
  <2>8. CallFits(c)' /\ ~Pending(c)'
    BY <2>6, <2>7, <1>CallObserves
  <2> QED
    BY <2>6, <2>8, CallReadsOnly
(* cancel_devin_task up to Devin's confirmation *)
<1>RemoteCancelDevin.
  ASSUME RInv, NEW c \in Calls, NEW w \in Workflows, NEW i \in Positions(w), CancelDevinTask(c, w, i)
  PROVE  RInv' /\ Kept
  <2> USE <1>RemoteCancelDevin
  <2> DEFINE n == DevinAttempt(tasks[w][i])
             k == ObservingCall(w, i, n, "ENDED")
             s == <<w, i, n>>
  <2>1. HasSession(w, i) /\ UNCHANGED <<workflow, tasks, worker>> /\ call' = [call EXCEPT ![c] = k]
    BY DEF CancelDevinTask, Observing, ObservingCall
  <2>2. session' = [session EXCEPT ![s] = "ended"]
    BY DEF CancelDevinTask
  <2> USE <2>1
  <2>3. /\ tasks[w][i].kind = "IMPLEMENT" /\ n \in 1 .. Len(tasks[w][i].attempts) /\ n \in Nat
        /\ tasks[w][i].attempts[n].output = "SESSION" /\ s \in DOMAIN session
    BY <1>SessionIsKnown
  <2> HIDE DEF n
  <2>4. i \in Nat /\ "ENDED" \in {"IN_FLIGHT", "SUCCEEDED", "ENDED"}
    BY SMT DEF Positions
  <2> USE <2>3
  <2>5. /\ k \in CallState /\ k.pc = "observed" /\ k.wf = w /\ k.pos = i /\ k.attempt = n
        /\ k.seen = "ENDED"
    BY SMT, <2>4, <1>ObservingIs
  <2> HIDE DEF k
  <2>6. CallBecomes(c, k) /\ Observed(k, w, i, n, "ENDED")
    BY <2>5 DEF CallBecomes, Observed
  <2>7. DOMAIN session' = DOMAIN session /\ session'[s] = "ended"
        /\ \A r \in DOMAIN session : session'[r] = session[r] \/ session'[r] = "ended"
    BY <2>2
  <2> USE <2>7
  <2>8. tasks' = tasks /\ s \in DOMAIN session' /\ ("ENDED" \in {"SUCCEEDED", "ENDED"} => session'[s] # "running")
    OBVIOUS
  <2>9. CallFits(c)' /\ ~Pending(c)'
    BY <2>6, <2>8, <1>CallObserves
  <2>10. /\ DOMAIN session' \subseteq Workflows \X Nat \X Nat
         /\ \A r \in DOMAIN session' : session'[r] \in {"running", "finished", "ended"}
    BY DEF RInv, RemoteTypeOK
  <2>11. /\ \A r \in DOMAIN session : r \in DOMAIN session' /\ (session'[r] = "running" => session[r] = "running")
         /\ \A r \in DOMAIN session' : r \notin DOMAIN session => SessionFits(r)'
         /\ \A d \in Calls : d # c /\ call[d].pc = "submitting" /\ SessionOf(d) \notin DOMAIN session =>
              SessionOf(d) \notin DOMAIN session'
    OBVIOUS
  <2> QED
    BY <2>6, <2>9, <2>10, <2>11, CallReads
<1> QED
  BY <1>RemoteSync, <1>RemoteCancelDevin

(* The call goes on at pc with what it has *)
Stepped(k, pc) == [k EXCEPT !.pc = pc]

LEMMA SteppedIs ==
  ASSUME NEW k \in CallState, NEW pc \in {"submitting", "submitted", "unclear"}
  PROVE  LET l == Stepped(k, pc)
         IN l \in CallState /\ l.pc = pc /\ l.wf = k.wf /\ l.pos = k.pos /\ l.attempt = k.attempt
BY DEF CallState, Stepped

(* The request of a dispatch reaches Devin or is lost *)
LEMMA SubmitSteps ==
  RInv => \A c \in Calls :
    /\ SubmitLost(c) => RInv' /\ Kept
    /\ \A answered \in BOOLEAN : SubmitReaches(c, answered) => RInv' /\ Kept
(* A session is created *)
<1>NewSession.
  ASSUME NEW s, NEW status, session' = [r \in DOMAIN session \cup {s} |-> IF r = s THEN status ELSE session[r]]
  PROVE  /\ DOMAIN session' = DOMAIN session \cup {s} /\ session'[s] = status
         /\ \A r \in DOMAIN session : r # s => session'[r] = session[r]
  BY SMT, <1>NewSession
(* A dispatch goes on: its attempt is as it was *)
<1>DispatchGoesOn.
  ASSUME RInv, NEW c \in Calls, Pending(c), NEW pc \in {"submitted", "unclear"},
         call' = [call EXCEPT ![c] = Stepped(call[c], pc)], UNCHANGED tasks,
         pc = "submitted" => SessionOf(c) \in DOMAIN session'
  PROVE  /\ CallBecomes(c, Stepped(call[c], pc)) /\ CallFits(c)' /\ SessionOf(c)' = SessionOf(c)
         /\ \A d \in Calls : d # c /\ Pending(d) => SessionOf(d) # SessionOf(c)'
  <2> USE <1>DispatchGoesOn
  <2> DEFINE l == Stepped(call[c], pc)
  <2>1. call[c] \in CallState /\ CallFits(c) /\ call[c].pc # "idle"
    BY DEF RInv, RemoteTypeOK, Pending
  <2>2. l \in CallState /\ l.pc = pc /\ l.wf = call[c].wf /\ l.pos = call[c].pos /\ l.attempt = call[c].attempt
    <3>1. pc \in {"submitting", "submitted", "unclear"}
      OBVIOUS
    <3> QED
      BY <2>1, <3>1, SteppedIs
  <2> USE <2>2
  <2>3. CallBecomes(c, l)
    BY DEF CallBecomes
  <2>4. call'[c] = l
    BY <2>3, CallTable
  <2> HIDE DEF l
  <2>5. SessionOf(c)' = SessionOf(c) /\ CallTask(c)' = CallTask(c)
    BY <2>4 DEF SessionOf, CallTask
  <2>6. CallFits(c)'
    BY <2>1, <2>4, <2>5 DEF CallFits, Pending, Positions
  <2>7. \A d \in Calls : d # c /\ Pending(d) => SessionOf(d) # SessionOf(c)'
    BY <2>5 DEF RInv, OneDispatch
  <2> QED
    BY <2>3, <2>5, <2>6, <2>7 DEF l
(* The request fails on its way or is refused *)
<1>RemoteSubmitLost.
  ASSUME RInv, NEW c \in Calls, SubmitLost(c)
  PROVE  RInv' /\ Kept
  <2> USE <1>RemoteSubmitLost
  <2>1. Pending(c) /\ UNCHANGED <<workflow, tasks, worker, session>>
    BY DEF SubmitLost, Pending
  <2>2. call' = [call EXCEPT ![c] = Stepped(call[c], "unclear")]
    BY DEF SubmitLost, Stepped, RInv, RemoteTypeOK
  <2>3. /\ CallBecomes(c, Stepped(call[c], "unclear")) /\ CallFits(c)' /\ SessionOf(c)' = SessionOf(c)
        /\ \A d \in Calls : d # c /\ Pending(d) => SessionOf(d) # SessionOf(c)'
    BY <2>1, <2>2, <1>DispatchGoesOn
  <2> QED
    BY <2>1, <2>3, CallReadsOnly
(* The request reaches Devin *)
<1>RemoteSubmitReaches.
  ASSUME RInv, NEW c \in Calls, NEW answered \in BOOLEAN, SubmitReaches(c, answered)
  PROVE  RInv' /\ Kept
  <2> USE <1>RemoteSubmitReaches
  <2> DEFINE pc == IF answered THEN "submitted" ELSE "unclear"
             s == SessionOf(c)
             w == call[c].wf
             i == call[c].pos
             n == call[c].attempt
  <2>1. call[c].pc = "submitting" /\ Pending(c) /\ UNCHANGED <<workflow, tasks, worker>>
    BY DEF SubmitReaches, Pending
  <2>2. call' = [call EXCEPT ![c] = Stepped(call[c], pc)] /\ pc \in {"submitted", "unclear"}
    BY DEF SubmitReaches, Stepped, RInv, RemoteTypeOK
  <2> HIDE DEF pc
  <2>3. /\ DOMAIN session' = DOMAIN session \cup {s} /\ session'[s] = "running"
        /\ \A r \in DOMAIN session : r # s => session'[r] = session[r]
    <3>1. session' = [r \in DOMAIN session \cup {s} |-> IF r = s THEN "running" ELSE session[r]]
      BY DEF SubmitReaches
    <3> QED
      BY <3>1, <1>NewSession
  <2> USE <2>3
  <2>4. /\ CallBecomes(c, Stepped(call[c], pc)) /\ CallFits(c)' /\ SessionOf(c)' = s
        /\ \A d \in Calls : d # c /\ Pending(d) => SessionOf(d) # SessionOf(c)'
    BY <2>1, <2>2, <1>DispatchGoesOn
  <2>5. /\ w \in Workflows /\ i \in Positions(w) /\ CallTask(c) = tasks[w][i] /\ tasks[w][i] \in Task
        /\ tasks[w][i].kind = "IMPLEMENT" /\ call[c] \in CallState
        /\ Dispatching(tasks[w][i], n) /\ s \notin DOMAIN session
    <3>1. call[c].pc # "idle"
      BY <2>1
    <3>2. /\ w \in Workflows /\ i \in Positions(w) /\ CallTask(c) = tasks[w][i] /\ tasks[w][i] \in Task
          /\ tasks[w][i].kind = "IMPLEMENT" /\ ImplementFits(tasks[w][i]) /\ call[c] \in CallState /\ CallFits(c)
      BY <3>1, CallFacts
    <3> QED
      BY <2>1, <3>1, <3>2 DEF CallFits
  <2>6. s \in Workflows \X Nat \X Nat /\ s[1] = w /\ s[2] = i /\ s[3] = n
    BY SMT, <2>5 DEF SessionOf, CallState
  <2>7. ASSUME NEW r, r = s PROVE SessionFits(r)'
    <3>1. Len(tasks[w][i].attempts) \in Nat /\ n = Len(tasks[w][i].attempts) /\ n # 0
      BY <2>5, RemoteTask DEF Dispatching
    <3>2. n \in 1 .. Len(tasks[w][i].attempts)
      BY SMT, <3>1
    <3>3. WithDevin(tasks[w][i], n)
      BY <2>5 DEF WithDevin, Dispatching, DevinOutput
    <3>4. tasks' = tasks
      BY <2>1
    <3>5. r[1] = w /\ r[2] = i /\ r[3] = n
      BY <2>6, <2>7
    <3> HIDE DEF w, i, n
    <3> QED
      BY <2>5, <3>2, <3>3, <3>4, <3>5 DEF SessionFits, Positions
  <2> HIDE DEF s
  <2>8. /\ DOMAIN session' \subseteq Workflows \X Nat \X Nat
        /\ \A r \in DOMAIN session' : session'[r] \in {"running", "finished", "ended"}
    BY <2>6 DEF RInv, RemoteTypeOK
  <2>9. \A r \in DOMAIN session : r \in DOMAIN session' /\ (session'[r] = "running" => session[r] = "running")
    BY <2>5
  <2>10. \A r \in DOMAIN session' : r \notin DOMAIN session => SessionFits(r)'
    BY <2>7
  <2>11. \A d \in Calls : d # c /\ call[d].pc = "submitting" /\ SessionOf(d) \notin DOMAIN session =>
           SessionOf(d) \notin DOMAIN session'
    BY <2>4 DEF Pending
  <2> QED
    BY <2>1, <2>4, <2>8, <2>9, <2>10, <2>11, CallReads
<1> QED
  BY <1>RemoteSubmitLost, <1>RemoteSubmitReaches

(* Devin's session finishes, fails or is terminated *)
LEMMA RemoteSessionStops ==
  ASSUME RInv, NEW s \in DOMAIN session, NEW status \in {"finished", "ended"}, SessionStops(s, status)
  PROVE  RInv' /\ Kept
<1>1. UNCHANGED <<workflow, tasks, worker, call>> /\ session' = [session EXCEPT ![s] = status]
  BY DEF SessionStops
<1>2. status # "running" /\ status \in {"running", "finished", "ended"}
  OBVIOUS
<1> USE <1>1
<1>3. DOMAIN session' = DOMAIN session
      /\ \A r \in DOMAIN session : session'[r] = session[r] \/ session'[r] = status
  OBVIOUS
<1> USE <1>3
<1>4. RemoteTypeOK'
  BY <1>2 DEF RInv, RemoteTypeOK, TypeOK
<1>5. Kept
  <2>1. ASSUME NEW w \in Workflows PROVE Len(tasks[w]) <= Len(tasks'[w])
    <3>1. tasks[w] \in Seq(Task)
      BY DEF RInv, RemoteTypeOK, TypeOK
    <3> QED
      BY SMT, <3>1
  <2>2. ASSUME NEW w \in Workflows, NEW i \in Positions(w) PROVE Keeps(tasks[w][i], tasks'[w][i])
    BY RemoteTask, Untouched DEF Undisturbed
  <2> QED
    BY <2>1, <2>2 DEF Kept
<1>6. \A p \in Workers : WorkerFits(p)'
  BY DEF RInv, WorkerFits, HeldTask, Positions
<1>7. ASSUME NEW d \in Calls PROVE CallFits(d)'
  <2>1. call'[d] = call[d] /\ SessionOf(d)' = SessionOf(d) /\ CallTask(d)' = CallTask(d)
    BY DEF SessionOf, CallTask
  <2>2. ObservedFits(d) => ObservedFits(d)'
    BY <1>2, <2>1 DEF ObservedFits
  <2>3. CallFits(d)
    BY DEF RInv
  <2> QED
    BY <2>1, <2>2, <2>3 DEF CallFits, Pending, Positions
<1>8. OneDispatch'
  BY DEF RInv, OneDispatch, Pending, SessionOf
<1>9. \A r \in DOMAIN session' : SessionFits(r)'
  BY <1>2 DEF RInv, SessionFits, Positions
<1>10. \A w \in Workflows : \A i \in Positions(w)' : Known(w, i)'
  BY DEF RInv, Known, Positions
<1>11. \A w \in Workflows : WorkflowFits(workflow'[w], tasks'[w])
  BY DEF RInv
<1> QED
  BY <1>4, <1>5, <1>6, <1>7, <1>8, <1>9, <1>10, <1>11 DEF RInv
-----------------------------------------------------------------------------
(* What a call writes *)

(* The sessions that new records are Devin's *)
KnownIn(w, i, new) ==
  \A n \in 1 .. Len(new.attempts) : new.attempts[n].output = "SESSION" => <<w, i, n>> \in DOMAIN session

(* Neither the dispatches of other calls nor running sessions are disturbed *)
OthersUndisturbed(c, w, i, new) ==
  /\ \A d \in Calls : d # c /\ Pending(d) /\ call[d].wf = w /\ call[d].pos = i => StaysDispatching(tasks[w][i], new)
  /\ \A s \in DOMAIN session : session[s] = "running" /\ s[1] = w /\ s[2] = i => StaysWithDevin(tasks[w][i], new)

LEMMA EditStays ==
  ASSUME NEW old \in Task, NEW new, NEW a \in Attempt, NEW n, LastEdited(old, new, n, a)
  PROVE  /\ a.status \in OpenStatus /\ a.output = old.attempts[n].output => StaysDispatching(old, new)
         /\ a.status \in OpenStatus /\ (old.attempts[n].output \in DevinOutput => a.output \in DevinOutput) =>
              StaysWithDevin(old, new)
         /\ old.attempts[n].output # "DISPATCHING" => StaysDispatching(old, new)
         /\ old.attempts[n].output \notin DevinOutput => StaysWithDevin(old, new)
         /\ (a.output = "SESSION" => old.attempts[n].output = "SESSION") => NoNewSession(old, new)
<1>0. EditsOnly(old, new, n, a)
  BY EditedAttempts
<1>1. /\ n \in Nat /\ n \in 1 .. Len(old.attempts) /\ Len(new.attempts) = Len(old.attempts) /\ new.attempts[n] = a
      /\ \A m \in 1 .. Len(old.attempts) : m # n => new.attempts[m] = old.attempts[m]
      /\ \A m \in 1 .. Len(old.attempts) : m < n => new.attempts[m] = old.attempts[m]
  BY <1>0 DEF EditsOnly
<1>2. new.kind = old.kind /\ n = Len(old.attempts)
  BY DEF LastEdited
<1> USE <1>1, <1>2
<1>3. a.status \in OpenStatus /\ a.output = old.attempts[n].output => StaysDispatching(old, new)
  BY DEF StaysDispatching, Dispatching
<1>4. a.status \in OpenStatus /\ (old.attempts[n].output \in DevinOutput => a.output \in DevinOutput) =>
        StaysWithDevin(old, new)
  BY DEF StaysWithDevin, WithDevin
<1>5. old.attempts[n].output # "DISPATCHING" => StaysDispatching(old, new)
  BY DEF StaysDispatching, Dispatching
<1>6. old.attempts[n].output \notin DevinOutput => StaysWithDevin(old, new)
  BY DEF StaysWithDevin, WithDevin
<1>7. (a.output = "SESSION" => old.attempts[n].output = "SESSION") => NoNewSession(old, new)
  BY DEF NoNewSession
<1> QED
  BY <1>3, <1>4, <1>5, <1>6, <1>7

LEMMA NothingNew ==
  ASSUME RInv, NEW w \in Workflows, NEW i \in Positions(w), NEW new, NoNewSession(tasks[w][i], new)
  PROVE  KnownIn(w, i, new)
BY RemoteTask DEF KnownIn, NoNewSession, Known

(* A call writes one task and ends *)
LEMMA CallWritten ==
  ASSUME RInv, NEW w \in Workflows, NEW i \in Positions(w), NEW new \in Task, NEW ts, NEW row,
         Writes(w, i, new, ts, row), Keeps(tasks[w][i], new), KnownIn(w, i, new),
         NEW c \in Calls, OthersUndisturbed(c, w, i, new),
         call' = [call EXCEPT ![c] = NoCall], UNCHANGED <<worker, session>>
  PROVE  RInv' /\ Kept
<1>1. /\ workflow' \in [Workflows -> WorkflowRow \cup {None}] /\ tasks' \in [Workflows -> Seq(Task)]
      /\ \A v \in Workflows : WorkflowFits(workflow'[v], tasks'[v])
      /\ \A v \in Workflows : Len(tasks[v]) <= Len(tasks'[v])
      /\ tasks'[w] = ts /\ tasks'[w][i] = new
      /\ \A v \in Workflows : \A j \in Positions(v) : v # w \/ j # i => tasks'[v][j] = tasks[v][j]
      /\ \A v \in Workflows : \A j \in Positions(v)' : j \notin Positions(v) => Len(tasks'[v][j].attempts) = 0
      /\ Keeps(tasks[w][i], new) => Kept
  BY WritesKept
<1>2. Known(w, i)'
  BY <1>1 DEF Known, KnownIn
<1>3. CallBecomes(c, NoCall)
  BY NoCallFits DEF CallBecomes
<1>4. CallFits(c)' /\ ~Pending(c)'
  <2>1. call'[c] = NoCall
    BY <1>3, CallTable
  <2> QED
    BY <2>1, NoCallRelies
<1> QED
  BY <1>2, <1>3, <1>4, CallWrites DEF OthersUndisturbed

(* new is old with what became of the dispatch of its last attempt *)
Recorded(old, new, n, a) ==
  /\ new \in Task /\ LastEdited(old, new, n, a)
  /\ new.status = old.status /\ new.lease_owner = old.lease_owner /\ new.grant = old.grant
  /\ old.attempts[n].output = "DISPATCHING" /\ a.output \in DevinOutput /\ a.output # "DISPATCHING"
  /\ a.status \in OpenStatus /\ a.status = old.attempts[n].status /\ a.error_code = old.attempts[n].error_code
  /\ a.artifact = old.attempts[n].artifact /\ a.provider = old.attempts[n].provider
  /\ a.reconciliation = old.attempts[n].reconciliation

(* An attempt with what became of its dispatch *)
Outcome == {"SESSION", "DISPATCH_OUTCOME_UNKNOWN"}

Recording(b, output) == [b EXCEPT !.output = output]

(* An attempt that never left the process *)
Unsent(b, error) == [b EXCEPT !.status = "FAILED", !.error_code = error, !.output = "NOT_DISPATCHED"]

(* What a dispatch records once it has heard from Devin, or has not *)
LEMMA DispatchSteps ==
  RInv => \A c \in Calls :
    /\ RecordSession(c) \/ MarkDispatchUnknown(c) => RInv' /\ Kept
    /\ \A error \in ErrorCodes : ReleaseUndispatched(c, error) => RInv' /\ Kept
(* The attempt a call is dispatching, and that no other call is *)
<1>DispatchIs.
  ASSUME RInv, NEW c \in Calls, Pending(c)
  PROVE  LET w == call[c].wf
             i == call[c].pos
             n == call[c].attempt
             task == tasks[w][i]
         IN /\ w \in Workflows /\ i \in Positions(w) /\ CallTask(c) = task
            /\ task \in Task /\ task.kind = "IMPLEMENT" /\ ImplementFits(task)
            /\ n = Len(task.attempts) /\ n # 0 /\ n \in 1 .. Len(task.attempts) /\ task.attempts[n] \in Attempt
            /\ task.attempts[n].status \in OpenStatus /\ task.attempts[n].output = "DISPATCHING"
            /\ \A d \in Calls : d # c /\ Pending(d) => ~(call[d].wf = w /\ call[d].pos = i)
  <2> USE <1>DispatchIs
  <2> DEFINE w == call[c].wf
             i == call[c].pos
             n == call[c].attempt
             task == tasks[w][i]
  <2>1. \A d \in Calls : Pending(d) => call[d].pc # "idle" /\ Dispatching(CallTask(d), call[d].attempt)
    BY DEF RInv, CallFits, Pending
  <2> USE <2>1
  <2>2. /\ w \in Workflows /\ i \in Positions(w) /\ CallTask(c) = task /\ task \in Task /\ task.kind = "IMPLEMENT"
        /\ ImplementFits(task)
    BY CallFacts
  <2> USE <2>2
  <2>3. /\ n = Len(task.attempts) /\ n # 0 /\ task.attempts[n].status \in OpenStatus
        /\ task.attempts[n].output = "DISPATCHING"
    BY DEF Dispatching
  <2> USE <2>3
  <2>4. n \in 1 .. Len(task.attempts)
    <3>1. Len(task.attempts) \in Nat
      BY LenIsNat DEF Task
    <3> HIDE DEF n, task
    <3> QED
      BY SMT, <3>1
  <2>5. task.attempts[n] \in Attempt
    BY <2>4, AttemptTyped
  <2>6. ASSUME NEW d \in Calls, d # c, Pending(d), call[d].wf = w, call[d].pos = i PROVE FALSE
    <3> USE <2>6
    <3>1. CallTask(d) = task
      BY DEF CallTask
    <3>2. call[d].attempt = n
      BY <3>1 DEF Dispatching
    <3>3. SessionOf(d) = SessionOf(c)
      BY <3>2 DEF SessionOf
    <3> QED
      BY <3>3 DEF RInv, OneDispatch
  <2> QED
    BY <2>4, <2>5, <2>6
<1>RecordedFits.
  ASSUME NEW old \in Task, ImplementFits(old), NEW new, NEW n, NEW a \in Attempt, Recorded(old, new, n, a)
  PROVE  /\ ImplementFits(new) /\ (Superseded(old) => Superseded(new)) /\ ~Accepted(old)
         /\ Keeps(old, new) /\ StaysWithDevin(old, new)
  <2> USE <1>RecordedFits
  <2>1. LastEdited(old, new, n, a) /\ new.kind = old.kind
    BY DEF Recorded, LastEdited
  <2> USE <2>1
  <2>2. /\ EarlierFailed(new) /\ Len(new.attempts) = Len(old.attempts) /\ Len(new.attempts) # 0
        /\ LastAttempt(new) = a /\ LastAttempt(old) = old.attempts[n]
    BY Rewritten
  <2> USE <2>2
  <2>3. /\ new.status = old.status /\ new.lease_owner = old.lease_owner /\ new.grant = old.grant
        /\ LastAttempt(old).output = "DISPATCHING" /\ a.output \in DevinOutput /\ a.status \in OpenStatus
        /\ a.status = LastAttempt(old).status /\ a.provider = LastAttempt(old).provider
        /\ a.reconciliation = LastAttempt(old).reconciliation
    BY DEF Recorded
  <2> USE <2>3
  <2>4. AttemptsFit(new)
    BY DEF ImplementFits, AttemptsFit
  <2>5. LeaseFits(new)
    <3>1. LeaseFits(old)
      BY DEF ImplementFits
    <3>2. ~(new.lease_owner = WINDSURF_PRINCIPAL) /\ ~(new.lease_owner = "orchestrator" /\ new.status = "RUNNING")
      BY <3>1 DEF LeaseFits
    <3> QED
      BY <3>1, <3>2 DEF LeaseFits, HandedOver
  <2>6. GrantHeld(new)
    BY DEF ImplementFits, GrantHeld
  <2>7. Superseded(old) => Superseded(new)
    BY DEF Superseded
  <2>8. ~Accepted(old)
    BY DEF Accepted, ImplementFits, AttemptsFit, EndsIn, OpenStatus
  <2>9. /\ a.output = "DISPATCHING" => old.attempts[n].output = "DISPATCHING"
        /\ old.attempts[n].status # "RUNNING" =>
             /\ a.status = old.attempts[n].status /\ a.error_code = old.attempts[n].error_code
             /\ a.artifact = old.attempts[n].artifact
    BY DEF Recorded
  <2>10. Keeps(old, new)
    BY <2>9, EditKeeps
  <2>11. StaysWithDevin(old, new)
    BY EditStays
  <2> QED
    BY <2>4, <2>5, <2>6, <2>7, <2>8, <2>10, <2>11 DEF ImplementFits
(* The record may reach a task after which others have been scheduled *)
<1>RecordedStays.
  ASSUME NEW row, NEW ts \in Seq(Task), WorkflowFits(row, ts), NEW i \in 1 .. Len(ts), ts[i].kind = "IMPLEMENT",
         NEW new, NEW n, NEW a \in Attempt, Recorded(ts[i], new, n, a)
  PROVE  WorkflowFits(row, [ts EXCEPT ![i] = new])
  <2> USE <1>RecordedStays
  <2> DEFINE us == [ts EXCEPT ![i] = new]
  <2>1. /\ new \in Task /\ new.kind = "IMPLEMENT" /\ new.status = ts[i].status /\ new.grant = ts[i].grant
    BY DEF Recorded, LastEdited
  <2>2. Len(us) = Len(ts) /\ \A j \in 1 .. Len(ts) : us[j] = IF j = i THEN new ELSE ts[j]
    BY SMT, <2>1, PutInSeq
  <2> HIDE DEF us
  <2>3. us[i] = new /\ \A j \in 1 .. Len(ts) : j # i => us[j] = ts[j]
    BY <2>2
  <2>4. ts[i] \in Task /\ ImplementFits(ts[i]) /\ Len(ts) \in Nat
    <3>1. ts[i] \in Task /\ Len(ts) \in Nat
      BY SMT
    <3> QED
      BY <3>1 DEF WorkflowFits, TaskFits
  <2>5. /\ ImplementFits(new) /\ (Superseded(ts[i]) => Superseded(new)) /\ ~Accepted(ts[i])
        /\ Keeps(ts[i], new) /\ StaysWithDevin(ts[i], new)
    BY <2>4, <1>RecordedFits
  <2> USE <2>3
  <2>6. \A j \in 1 .. Len(ts) : TaskFits(us[j])
    BY <2>1, <2>5 DEF WorkflowFits, TaskFits
  <2>7. ASSUME NEW j \in 1 .. Len(ts), j < Len(ts) PROVE Past(us, j)
    <3>1. Past(ts, j)
      BY <2>7 DEF WorkflowFits
    <3>2. j + 1 \in 1 .. Len(ts)
      BY SMT, <2>4, <2>7
    <3>3. CASE j = i
      <4>1. ts[i].kind \notin {"PLAN", "ARCHITECTURE_REVIEW"}
        OBVIOUS
      <4> QED
        BY <2>5, <3>1, <3>3, <4>1 DEF Past
    <3>4. CASE j # i
      <4>1. us[j] = ts[j]
        BY <3>4
      <4>2. us[j + 1].kind = ts[j + 1].kind
        BY <2>1, <3>2
      <4> QED
        BY <2>2, <3>1, <4>1, <4>2 DEF Past
    <3> QED
      BY <3>3, <3>4
  <2>8. Len(ts) \in 1 .. Len(ts)
    BY SMT, <2>4
  <2>9. /\ us[Len(ts)].kind = ts[Len(ts)].kind /\ us[Len(ts)].status = ts[Len(ts)].status
        /\ us[Len(ts)].grant = ts[Len(ts)].grant
    BY <2>1, <2>8
  <2>10. Drives(row.state, us[Len(us)])
    BY <2>2, <2>9 DEF WorkflowFits, Drives
  <2>11. ResultFits(row, us)
    <3>1. Len(ts) > 1 => Len(ts) - 1 \in 1 .. Len(ts)
      BY SMT, <2>4
    <3>2. Len(ts) > 1 /\ Accepted(ts[Len(ts) - 1]) => us[Len(ts) - 1] = ts[Len(ts) - 1]
      BY <2>5, <3>1
    <3> QED
      BY <2>2, <2>9, <3>2 DEF WorkflowFits, ResultFits
  <2>12. WorkflowFits(row, us)
    BY <2>2, <2>6, <2>7, <2>10, <2>11 DEF WorkflowFits
  <2> QED
    BY <2>12 DEF us
<1>RemoteRecords.
  ASSUME RInv, NEW c \in Calls, Pending(c), NEW w, w = call[c].wf, NEW i, i = call[c].pos,
         NEW new, NEW a \in Attempt, Recorded(tasks[w][i], new, call[c].attempt, a),
         a.output = "SESSION" => SessionOf(c) \in DOMAIN session,
         tasks' = [tasks EXCEPT ![w] = PutTask(w, i, new)],
         call' = [call EXCEPT ![c] = NoCall], UNCHANGED <<workflow, worker, session>>
  PROVE  RInv' /\ Kept
  <2> USE <1>RemoteRecords
  <2> DEFINE task == tasks[w][i]
             n == call[c].attempt
  <2>1. /\ w \in Workflows /\ i \in Positions(w) /\ CallTask(c) = task
        /\ task \in Task /\ task.kind = "IMPLEMENT" /\ ImplementFits(task)
        /\ n = Len(task.attempts) /\ n # 0 /\ n \in 1 .. Len(task.attempts) /\ task.attempts[n] \in Attempt
        /\ task.attempts[n].status \in OpenStatus /\ task.attempts[n].output = "DISPATCHING"
        /\ \A d \in Calls : d # c /\ Pending(d) => ~(call[d].wf = w /\ call[d].pos = i)
    BY <1>DispatchIs
  <2> USE <2>1
  <2>2. /\ ImplementFits(new) /\ (Superseded(task) => Superseded(new)) /\ ~Accepted(task)
        /\ Keeps(task, new) /\ StaysWithDevin(task, new)
    BY <1>RecordedFits
  <2>3. tasks[w] \in Seq(Task) /\ i \in 1 .. Len(tasks[w]) /\ WorkflowFits(workflow[w], tasks[w]) /\ Known(w, i)
    BY RemoteTask
  <2>4. WorkflowFits(workflow[w], [tasks[w] EXCEPT ![i] = new])
    BY <2>3, <1>RecordedStays
  <2>5. new \in Task /\ LastEdited(task, new, n, a)
    BY DEF Recorded
  <2>6. Wrote(w, i, new, PutTask(w, i, new))
    BY <2>5, PutWrites
  <2>7. workflow' = [workflow EXCEPT ![w] = workflow[w]]
    BY SameRow
  <2>8. Writes(w, i, new, PutTask(w, i, new), workflow[w])
    BY <2>4, <2>6, <2>7 DEF Writes, PutTask
  <2>9. KnownIn(w, i, new)
    <3>1. EditsOnly(task, new, n, a)
      BY <2>5, EditedAttempts
    <3>2. SessionOf(c) = <<w, i, n>>
      BY DEF SessionOf
    <3>3. ASSUME NEW m \in 1 .. Len(new.attempts), new.attempts[m].output = "SESSION" PROVE <<w, i, m>> \in DOMAIN session
      <4>1. CASE m = n
        BY <3>1, <3>2, <3>3, <4>1 DEF EditsOnly
      <4>2. CASE m # n
        <5>1. m \in 1 .. Len(task.attempts) /\ task.attempts[m].output = "SESSION"
          BY <3>1, <3>3, <4>2 DEF EditsOnly
        <5> QED
          BY <2>3, <5>1 DEF Known
      <4> QED
        BY <4>1, <4>2
    <3> QED
      BY <3>3 DEF KnownIn
  <2>10. OthersUndisturbed(c, w, i, new)
    BY <2>2 DEF OthersUndisturbed
  <2> QED
    BY <2>2, <2>5, <2>8, <2>9, <2>10, CallWritten
<1>RecordingIs.
  ASSUME NEW b \in Attempt, NEW output \in Outcome
  PROVE  LET a == Recording(b, output)
         IN /\ a \in Attempt /\ a.output = output /\ a.status = b.status /\ a.error_code = b.error_code
            /\ a.artifact = b.artifact /\ a.provider = b.provider /\ a.reconciliation = b.reconciliation
  BY SMT, <1>RecordingIs DEF Attempt, Recording, Outcome, HandoffState
<1>RecordingFits.
  ASSUME NEW old \in Task, NEW n, n = Len(old.attempts), n # 0, old.attempts[n] \in Attempt,
         old.attempts[n].status \in OpenStatus, old.attempts[n].output = "DISPATCHING", NEW output \in Outcome,
         NEW new, TaskIs(new, old.kind, old.status, old.lease_owner, old.grant,
                         [old.attempts EXCEPT ![n] = Recording(old.attempts[n], output)])
  PROVE  LET a == Recording(old.attempts[n], output)
         IN a \in Attempt /\ a.output = output /\ Recorded(old, new, n, a)
  <2> USE <1>RecordingFits
  <2> DEFINE a == Recording(old.attempts[n], output)
  <2>1. /\ a \in Attempt /\ a.output = output /\ a.status = old.attempts[n].status
        /\ a.error_code = old.attempts[n].error_code
        /\ a.artifact = old.attempts[n].artifact /\ a.provider = old.attempts[n].provider
        /\ a.reconciliation = old.attempts[n].reconciliation
    BY <1>RecordingIs
  <2> HIDE DEF a
  <2>2. /\ new \in Task /\ new.kind = old.kind /\ new.status = old.status /\ new.lease_owner = old.lease_owner
        /\ new.grant = old.grant /\ new.attempts = [old.attempts EXCEPT ![n] = a]
    BY DEF TaskIs, a
  <2>3. output \in DevinOutput /\ output # "DISPATCHING"
    BY DEF DevinOutput, Outcome
  <2>4. LastEdited(old, new, n, a)
    BY <2>2 DEF LastEdited
  <2> USE <2>1
  <2>5. a.status \in OpenStatus /\ a.output \in DevinOutput /\ a.output # "DISPATCHING"
    BY <2>3
  <2>6. Recorded(old, new, n, a)
    BY <2>2, <2>4, <2>5 DEF Recorded
  <2> QED
    BY <2>6 DEF a
(* dispatch_devin_task, its last transaction *)
<1>RemoteRecordSession.
  ASSUME RInv, NEW c \in Calls, RecordSession(c)
  PROVE  RInv' /\ Kept
  <2> USE <1>RemoteRecordSession
  <2> DEFINE w == call[c].wf
             i == call[c].pos
             n == call[c].attempt
             task == tasks[w][i]
             a == Recording(task.attempts[n], "SESSION")
             attempts == [task.attempts EXCEPT ![n] = a]
             new == [task EXCEPT !.attempts = attempts]
  <2>1. Pending(c) /\ call[c].pc = "submitted" /\ call' = [call EXCEPT ![c] = NoCall] /\ UNCHANGED <<workflow, worker, session>>
    BY DEF RecordSession, Pending
  <2> USE <2>1
  <2>2. /\ w \in Workflows /\ i \in Positions(w) /\ CallTask(c) = task
        /\ task \in Task /\ task.kind = "IMPLEMENT" /\ ImplementFits(task)
        /\ n = Len(task.attempts) /\ n # 0 /\ n \in 1 .. Len(task.attempts) /\ task.attempts[n] \in Attempt
        /\ task.attempts[n].status \in OpenStatus /\ task.attempts[n].output = "DISPATCHING"
        /\ \A d \in Calls : d # c /\ Pending(d) => ~(call[d].wf = w /\ call[d].pos = i)
    BY <1>DispatchIs
  <2> USE <2>2
  <2>3. tasks' = [tasks EXCEPT ![w] = PutTask(w, i, new)]
    <3>1. new = [CallTask(c) EXCEPT !.attempts[n].output = "SESSION"]
      BY DEF Task, Recording
    <3> HIDE DEF new
    <3> QED
      BY <3>1 DEF RecordSession, PutCallTask
  <2>4. "SESSION" \in Outcome
    BY DEF Outcome
  <2>5. /\ a \in Attempt /\ a.output = "SESSION" /\ a.status = task.attempts[n].status
        /\ a.error_code = task.attempts[n].error_code
        /\ a.artifact = task.attempts[n].artifact /\ a.provider = task.attempts[n].provider
        /\ a.reconciliation = task.attempts[n].reconciliation
    BY <2>4, <1>RecordingIs
  <2>6. TaskIs(new, task.kind, task.status, task.lease_owner, task.grant, attempts)
    <3> HIDE DEF a
    <3> QED
      BY <2>5, CloseIs
  <2> HIDE DEF new
  <2>7. a \in Attempt /\ a.output = "SESSION" /\ Recorded(task, new, n, a)
    BY <2>4, <2>6, <1>RecordingFits
  <2>8. SessionOf(c) \in DOMAIN session
    BY DEF RInv, CallFits
  <2> HIDE DEF a
  <2> QED
    BY <2>3, <2>7, <2>8, <1>RemoteRecords
(* _mark_dispatch_unknown *)
<1>RemoteMarkUnknown.
  ASSUME RInv, NEW c \in Calls, MarkDispatchUnknown(c)
  PROVE  RInv' /\ Kept
  <2> USE <1>RemoteMarkUnknown
  <2> DEFINE w == call[c].wf
             i == call[c].pos
             n == call[c].attempt
             task == tasks[w][i]
             a == Recording(task.attempts[n], "DISPATCH_OUTCOME_UNKNOWN")
             attempts == [task.attempts EXCEPT ![n] = a]
             t == [task EXCEPT !.lease_left = 0]
             new == [t EXCEPT !.attempts = attempts]
  <2>1. Pending(c) /\ call[c].pc = "unclear" /\ call' = [call EXCEPT ![c] = NoCall] /\ UNCHANGED <<workflow, worker, session>>
    BY DEF MarkDispatchUnknown, Pending
  <2>2. /\ w \in Workflows /\ i \in Positions(w) /\ CallTask(c) = task
        /\ task \in Task /\ task.kind = "IMPLEMENT" /\ ImplementFits(task)
        /\ n = Len(task.attempts) /\ n # 0 /\ n \in 1 .. Len(task.attempts) /\ task.attempts[n] \in Attempt
        /\ task.attempts[n].status \in OpenStatus /\ task.attempts[n].output = "DISPATCHING"
        /\ \A d \in Calls : d # c /\ Pending(d) => ~(call[d].wf = w /\ call[d].pos = i)
    BY <2>1, <1>DispatchIs
  <2>3. CASE tasks' = tasks
    <3>1. CallEnds(c)
      BY <2>1, <2>3 DEF CallEnds
    <3> QED
      BY <3>1, ReadSteps
  <2> USE <2>2
  <2>4. CASE tasks' # tasks
    <3>1. tasks' = [tasks EXCEPT ![w] = PutTask(w, i, new)]
      <4>1. new = [CallTask(c) EXCEPT !.lease_left = 0, !.attempts[n].output = "DISPATCH_OUTCOME_UNKNOWN"]
        BY DEF Task, Recording
      <4> HIDE DEF new
      <4> QED
        BY <2>4, <4>1 DEF MarkDispatchUnknown, PutCallTask
    <3>2. "DISPATCH_OUTCOME_UNKNOWN" \in Outcome
      BY DEF Outcome
    <3>3. /\ a \in Attempt /\ a.output = "DISPATCH_OUTCOME_UNKNOWN" /\ a.status = task.attempts[n].status
          /\ a.error_code = task.attempts[n].error_code
          /\ a.artifact = task.attempts[n].artifact /\ a.provider = task.attempts[n].provider
          /\ a.reconciliation = task.attempts[n].reconciliation
      BY <3>2, <1>RecordingIs
    <3>4. TaskIs(t, task.kind, task.status, task.lease_owner, task.grant, task.attempts)
      BY LeftIs, LeaseRange
    <3>5. TaskIs(new, task.kind, task.status, task.lease_owner, task.grant, attempts)
      <4>1. attempts \in Seq(Attempt)
        <5> HIDE DEF a
        <5> QED
          BY <3>3, CloseIs
      <4> HIDE DEF t, attempts
      <4>2. TaskIs(new, t.kind, t.status, t.lease_owner, t.grant, attempts)
        BY <3>4, <4>1, AttemptsIs DEF TaskIs
      <4> HIDE DEF new
      <4> QED
        BY <3>4, <4>2 DEF TaskIs
    <3> HIDE DEF new, t
    <3>6. a \in Attempt /\ a.output = "DISPATCH_OUTCOME_UNKNOWN" /\ Recorded(task, new, n, a)
      BY <3>2, <3>5, <1>RecordingFits
    <3>7. a.output = "SESSION" => SessionOf(c) \in DOMAIN session
      BY <3>6
    <3> HIDE DEF a
    <3> QED
      BY <2>1, <3>1, <3>6, <3>7, <1>RemoteRecords
  <2> QED
    BY <2>3, <2>4
(* Before the request leaves there is no session of the attempt *)
<1>NoSessionYet.
  ASSUME RInv, NEW c \in Calls, call[c].pc = "submitting", NEW s \in DOMAIN session, session[s] = "running",
         s[1] = call[c].wf, s[2] = call[c].pos
  PROVE  FALSE
  <2> USE <1>NoSessionYet
  <2>1. Pending(c) /\ SessionOf(c) \notin DOMAIN session
    BY DEF RInv, CallFits, Pending
  <2>2. call[c].attempt = Len(tasks[call[c].wf][call[c].pos].attempts)
    BY <2>1, <1>DispatchIs
  <2>3. WithDevin(tasks[s[1]][s[2]], s[3]) /\ s \in Workflows \X Nat \X Nat
    BY DEF RInv, SessionFits, RemoteTypeOK
  <2>4. s[3] = call[c].attempt
    BY <2>2, <2>3 DEF WithDevin
  <2>5. s = <<s[1], s[2], s[3]>>
    BY SMT, <2>3
  <2>6. s = SessionOf(c)
    BY <2>4, <2>5 DEF SessionOf
  <2> QED
    BY <2>1, <2>6
<1>UnsentIs.
  ASSUME NEW b \in Attempt, NEW error \in ErrorCodes
  PROVE  LET a == Unsent(b, error)
         IN a \in Attempt /\ a.status = "FAILED" /\ a.output = "NOT_DISPATCHED" /\ a.provider = b.provider
  <2> USE <1>UnsentIs
  <2> DEFINE a1 == [b EXCEPT !.status = "FAILED"]
             a2 == [a1 EXCEPT !.error_code = error]
             a3 == [a2 EXCEPT !.output = "NOT_DISPATCHED"]
  <2>1. Unsent(b, error) = a3
    BY DEF Unsent
  <2>2. a1 \in Attempt /\ a1.status = "FAILED" /\ a1.provider = b.provider
    BY DEF Attempt
  <2> HIDE DEF a1
  <2>3. a2 \in Attempt /\ a2.status = "FAILED" /\ a2.provider = a1.provider
    BY SMT, <2>2 DEF Attempt
  <2> HIDE DEF a2
  <2>4. a3 \in Attempt /\ a3.status = "FAILED" /\ a3.output = "NOT_DISPATCHED" /\ a3.provider = a2.provider
    BY SMT, <2>3 DEF Attempt, HandoffState
  <2> HIDE DEF a3
  <2>5. a3 \in Attempt /\ a3.status = "FAILED" /\ a3.output = "NOT_DISPATCHED" /\ a3.provider = b.provider
    BY <2>2, <2>3, <2>4
  <2> QED
    BY <2>1, <2>5
(* A hand-off that Devin never heard of is queued again *)
<1>ReleaseMoves.
  ASSUME RInv, NEW w \in Workflows, NEW i \in Positions(w), tasks[w][i].kind = "IMPLEMENT",
         tasks[w][i].lease_owner = DEVIN_PRINCIPAL, NEW n, NEW a \in Attempt, a.status = "FAILED", a.provider = "devin",
         NEW new, LastEdited(tasks[w][i], new, n, a), new \in Task, new.status = "READY", new.lease_owner = "NULL",
         new.grant = tasks[w][i].grant
  PROVE  Moves(w, i, new, workflow[w])
  <2> USE <1>ReleaseMoves
  <2> DEFINE task == tasks[w][i]
  <2>1. task \in Task /\ ImplementFits(task)
    BY RemoteTask
  <2>2. task.status \in {"RUNNING", "CANCELLED"}
    BY <2>1 DEF ImplementFits, LeaseFits, HandedOver
  <2>3. task.status \notin {"SUCCEEDED", "RECONCILED"}
    BY <2>2
  <2>4. Drives(workflow[w].state, task) /\ RowFits(workflow[w])
    BY <2>3, OpenTask
  <2>5. /\ EarlierFailed(new) /\ Len(new.attempts) = Len(task.attempts) /\ Len(new.attempts) # 0
        /\ LastAttempt(new) = a /\ LastAttempt(task) = task.attempts[n]
    BY <2>1, Rewritten
  <2>6. AttemptsFit(new)
    BY <2>5 DEF AttemptsFit, EndsIn
  <2>7. LeaseFits(new)
    BY DEF LeaseFits, DEVIN_PRINCIPAL, WINDSURF_PRINCIPAL
  <2>8. GrantHeld(new)
    BY <2>5 DEF GrantHeld, LiveStatus
  <2>9. task.status = "CANCELLED" => task.grant = "INACTIVE"
    BY <2>1 DEF ImplementFits, GrantHeld, LiveStatus
  <2>10. Drives(workflow[w].state, new)
    <3>1. workflow[w].state = "IMPLEMENTING" \/ (workflow[w].state = "CANCELLED" /\ new.grant = "INACTIVE")
      BY <2>2, <2>4, <2>9 DEF Drives
    <3>2. new.status \notin {"RUNNING", "FAILED", "RECONCILED", "BLOCKED", "CANCELLED"} /\ new.kind # "TEST"
      BY DEF LastEdited
    <3> QED
      BY <3>1, <3>2 DEF Drives
  <2>11. new.kind = "IMPLEMENT"
    BY DEF LastEdited
  <2> QED
    BY <2>3, <2>4, <2>6, <2>7, <2>8, <2>10, <2>11 DEF Moves, ImplementFits
(* _release_undispatched *)
<1>RemoteRelease.
  ASSUME RInv, NEW c \in Calls, NEW error \in ErrorCodes, ReleaseUndispatched(c, error)
  PROVE  RInv' /\ Kept
  <2> USE <1>RemoteRelease
  <2> DEFINE w == call[c].wf
             i == call[c].pos
             n == call[c].attempt
             task == tasks[w][i]
             a == Unsent(task.attempts[n], error)
             attempts == [task.attempts EXCEPT ![n] = a]
             t == [task EXCEPT !.attempts = attempts]
             u == [t EXCEPT !.status = "READY"]
             new == ClearLease(u)
  <2>1. /\ Pending(c) /\ call[c].pc = "submitting" /\ call' = [call EXCEPT ![c] = NoCall]
        /\ UNCHANGED <<workflow, worker, session>>
    BY DEF ReleaseUndispatched, Pending
  <2>2. /\ w \in Workflows /\ i \in Positions(w) /\ CallTask(c) = task
        /\ task \in Task /\ task.kind = "IMPLEMENT" /\ ImplementFits(task)
        /\ n = Len(task.attempts) /\ n # 0 /\ n \in 1 .. Len(task.attempts) /\ task.attempts[n] \in Attempt
        /\ task.attempts[n].status \in OpenStatus /\ task.attempts[n].output = "DISPATCHING"
        /\ \A d \in Calls : d # c /\ Pending(d) => ~(call[d].wf = w /\ call[d].pos = i)
    BY <2>1, <1>DispatchIs
  <2> USE <2>2
  <2>3. CASE task.lease_owner # DEVIN_PRINCIPAL
    <3>1. tasks' = tasks
      BY <2>3 DEF ReleaseUndispatched
    <3>2. CallEnds(c)
      BY <2>1, <3>1 DEF CallEnds
    <3> QED
      BY <3>2, ReadSteps
  <2>4. CASE task.lease_owner = DEVIN_PRINCIPAL
    <3>1. tasks' = [tasks EXCEPT ![w] = PutTask(w, i, new)]
      <4>1. t = [CallTask(c) EXCEPT !.attempts[n] = [@ EXCEPT !.status = "FAILED", !.error_code = error,
                                                              !.output = "NOT_DISPATCHED"]]
        BY DEF Task, Unsent
      <4> HIDE DEF t
      <4> QED
        BY <2>4, <4>1 DEF ReleaseUndispatched, PutCallTask
    <3>2. HandedOver(task, "devin")
      BY <2>4 DEF ImplementFits, LeaseFits
    <3>3. task.attempts[n].status = "RUNNING" /\ task.attempts[n].provider = "devin"
      BY <3>2 DEF HandedOver, LastAttempt
    <3>4. a \in Attempt /\ a.status = "FAILED" /\ a.output = "NOT_DISPATCHED" /\ a.provider = task.attempts[n].provider
      BY <1>UnsentIs
    <3> HIDE DEF a
    <3> USE <3>4
    <3>5. TaskIs(t, task.kind, task.status, task.lease_owner, task.grant, attempts)
      BY CloseIs
    <3> HIDE DEF t
    <3>6. TaskIs(u, t.kind, "READY", t.lease_owner, t.grant, t.attempts)
      BY <3>5, StatusIs DEF TaskIs, TaskStatus
    <3> HIDE DEF u
    <3>7. TaskIs(new, u.kind, u.status, "NULL", u.grant, u.attempts)
      BY <3>6, ClearLeaseIs DEF TaskIs
    <3> HIDE DEF new, attempts
    <3>8. /\ new \in Task /\ new.kind = task.kind /\ new.status = "READY" /\ new.lease_owner = "NULL"
          /\ new.grant = task.grant /\ new.attempts = attempts
      BY <3>5, <3>6, <3>7 DEF TaskIs
    <3>9. LastEdited(task, new, n, a)
      BY <3>8 DEF LastEdited, attempts
    <3>10. a.provider = "devin"
      BY <3>3
    <3> USE <3>9
    <3>11. Moves(w, i, new, workflow[w])
      BY <2>4, <3>8, <3>10, <1>ReleaseMoves
    <3>12. Puts(w, i, new, workflow[w])
      BY <2>1, <3>1, SameRow DEF Puts
    <3>13. new \in Task /\ Writes(w, i, new, PutTask(w, i, new), workflow[w])
      BY <3>11, <3>12, MoveWrites
    <3>14. Keeps(task, new)
      BY <3>3, EditKeeps
    <3>15. NoNewSession(task, new)
      BY EditStays
    <3>16. KnownIn(w, i, new)
      BY <3>15, NothingNew
    <3>17. OthersUndisturbed(c, w, i, new)
      BY <2>1, <1>NoSessionYet DEF OthersUndisturbed
    <3> QED
      BY <2>1, <3>13, <3>14, <3>16, <3>17, CallWritten
  <2> QED
    BY <2>3, <2>4
<1> QED
  BY <1>RemoteRecordSession, <1>RemoteMarkUnknown, <1>RemoteRelease

(* No call is dispatching the task at i of w, and no session runs for it *)
Unattended(w, i) ==
  /\ \A d \in Calls : Pending(d) => ~(call[d].wf = w /\ call[d].pos = i)
  /\ \A s \in DOMAIN session : session[s] = "running" => ~(s[1] = w /\ s[2] = i)

LEMMA NobodyDisturbed ==
  ASSUME NEW c, NEW w, NEW i, NEW new, Unattended(w, i)
  PROVE  OthersUndisturbed(c, w, i, new)
BY DEF Unattended, OthersUndisturbed

LEMMA IsUnattended ==
  ASSUME RInv, NEW w \in Workflows, NEW i \in Positions(w), LastAttempt(tasks[w][i]).output # "DISPATCHING",
         \/ LastAttempt(tasks[w][i]).output \notin DevinOutput
         \/ \A s \in DOMAIN session : s = <<w, i, Len(tasks[w][i].attempts)>> => session[s] # "running"
  PROVE  Unattended(w, i)
<1>1. ASSUME NEW d \in Calls, Pending(d), call[d].wf = w, call[d].pos = i PROVE FALSE
  <2>1. Dispatching(CallTask(d), call[d].attempt) /\ CallTask(d) = tasks[w][i]
    BY <1>1 DEF RInv, CallFits, Pending, CallTask
  <2> QED
    BY <2>1 DEF Dispatching, LastAttempt
<1>2. ASSUME NEW s \in DOMAIN session, session[s] = "running", s[1] = w, s[2] = i PROVE FALSE
  <2> USE <1>2
  <2>1. WithDevin(tasks[w][i], s[3]) /\ s \in Workflows \X Nat \X Nat
    BY DEF RInv, SessionFits, RemoteTypeOK
  <2>2. s[3] = Len(tasks[w][i].attempts) /\ LastAttempt(tasks[w][i]).output \in DevinOutput
    BY <2>1 DEF WithDevin, LastAttempt
  <2>3. s = <<s[1], s[2], s[3]>>
    BY SMT, <2>1
  <2>4. s = <<w, i, Len(tasks[w][i].attempts)>>
    BY <2>2, <2>3
  <2> QED
    BY <2>2, <2>4
<1> QED
  BY <1>1, <1>2 DEF Unattended

(* What holds when a transaction after a poll goes through *)
LEMMA ObservedIs ==
  ASSUME RInv, NEW c \in Calls, StillObserved(c)
  PROVE  LET w == call[c].wf
             i == call[c].pos
             n == call[c].attempt
             task == tasks[w][i]
         IN /\ w \in Workflows /\ i \in Positions(w) /\ CallTask(c) = task /\ call[c].pc # "idle"
            /\ task \in Task /\ task.kind = "IMPLEMENT" /\ task.status = "RUNNING"
            /\ n = Len(task.attempts) /\ n # 0 /\ n \in 1 .. Len(task.attempts)
            /\ task.attempts[n] \in Attempt /\ task.attempts[n].status = "RUNNING"
            /\ task.attempts[n].provider = "devin" /\ task.attempts[n].output # "DISPATCHING"
            /\ call[c].seen \in {"SUCCEEDED", "ENDED"} => Unattended(w, i)
<1> DEFINE w == call[c].wf
           i == call[c].pos
           n == call[c].attempt
           task == tasks[w][i]
<1>1. call[c].pc = "observed" /\ DevinAttempt(CallTask(c)) = n /\ RequireRunning(CallTask(c)) /\ call[c].pc # "idle"
  BY DEF StillObserved
<1> USE <1>1
<1>2. w \in Workflows /\ i \in Positions(w) /\ CallTask(c) = task /\ CallFits(c)
  BY CallFacts
<1> USE <1>2
<1>3. /\ task \in Task /\ task.kind = "IMPLEMENT" /\ task.status = "RUNNING"
      /\ n = Len(task.attempts) /\ n # 0 /\ n \in 1 .. Len(task.attempts)
      /\ task.attempts[n] \in Attempt /\ task.attempts[n].status = "RUNNING"
      /\ task.attempts[n].provider = "devin"
  <2>1. RequireRunning(task) /\ DevinAttempt(task) = n
    OBVIOUS
  <2>2. /\ task \in Task /\ task.kind = "IMPLEMENT" /\ task.status = "RUNNING"
        /\ DevinAttempt(task) = Len(task.attempts) /\ DevinAttempt(task) # 0
        /\ DevinAttempt(task) \in 1 .. Len(task.attempts) /\ DevinAttempt(task) \in Nat
        /\ task.attempts[DevinAttempt(task)] \in Attempt /\ task.attempts[DevinAttempt(task)].status = "RUNNING"
        /\ task.attempts[DevinAttempt(task)].provider = "devin"
        /\ task.attempts[DevinAttempt(task)].output \in DevinOutput
    BY <2>1, RunningDevin
  <2> HIDE DEF n, task
  <2> QED
    BY <2>1, <2>2
<1>4. ObservedFits(c)
  BY DEF CallFits
<1> USE <1>3
<1>5. task.attempts[n].output # "DISPATCHING" /\ LastAttempt(task) = task.attempts[n]
  BY <1>4 DEF ObservedFits, LastAttempt
<1>6. ASSUME call[c].seen \in {"SUCCEEDED", "ENDED"} PROVE Unattended(w, i)
  <2>1. SessionOf(c) = <<w, i, Len(task.attempts)>>
    BY DEF SessionOf
  <2>2. \A s \in DOMAIN session : s = <<w, i, Len(task.attempts)>> => session[s] # "running"
    BY <1>4, <1>6, <2>1 DEF ObservedFits
  <2> QED
    BY <1>5, <2>2, IsUnattended
<1> QED
  BY <1>5, <1>6

(* A worker that may finalize holds the last attempt, and no hand-off *)
LEMMA RunIsLast ==
  ASSUME RInv, NEW p \in Workers, worker[p].pc = "executing", RunStillLeased(p)
  PROVE  LET w == worker[p].wf
             i == worker[p].pos
             task == tasks[w][i]
             n == worker[p].attempt
         IN /\ w \in Workflows /\ i \in Positions(w) /\ HeldTask(p) = task
            /\ task \in Task /\ task.kind = "IMPLEMENT" /\ task.status = "RUNNING" /\ task.grant # "INACTIVE"
            /\ n = Len(task.attempts) /\ n # 0 /\ task.attempts[n] \in Attempt
            /\ task.attempts[n].status = "RUNNING" /\ task.attempts[n].output = "NULL"
<1> DEFINE w == worker[p].wf
           i == worker[p].pos
           task == tasks[w][i]
           n == worker[p].attempt
<1>1. worker[p].pc # "idle"
  OBVIOUS
<1>2. /\ w \in Workflows /\ i \in Positions(w) /\ HeldTask(p) = task
      /\ task \in Task /\ task.kind = "IMPLEMENT" /\ n \in 1 .. Len(task.attempts)
  BY <1>1, HeldRemote
<1>3. task.status = "RUNNING" /\ task.lease_owner = "orchestrator" /\ task.attempts[n].status = "RUNNING"
  BY <1>2 DEF RunStillLeased, HoldsLease
<1>4. ImplementFits(task)
  BY <1>2, <1>3, OpenTask
<1>5. ~(n < Len(task.attempts))
  BY <1>2, <1>3, <1>4 DEF ImplementFits, AttemptsFit, EarlierFailed
<1>6. Len(task.attempts) \in Nat
  BY <1>2, LenIsNat DEF Task
<1>7. n = Len(task.attempts) /\ n # 0
  BY SMT, <1>2, <1>5, <1>6
<1>8. task.attempts[n] \in Attempt
  BY <1>2, AttemptTyped
<1>9. task.attempts[n].output = "NULL" /\ task.grant # "INACTIVE"
  BY <1>3, <1>4, <1>7 DEF ImplementFits, LeaseFits, LastAttempt
<1> QED
  BY <1>2, <1>3, <1>7, <1>8, <1>9

(* Closing an attempt that a worker ran disturbs nobody *)
LEMMA WorkerEdits ==
  ASSUME NEW old \in Task, NEW new, NEW a \in Attempt, NEW n, LastEdited(old, new, n, a),
         old.attempts[n].status = "RUNNING", old.attempts[n].output = "NULL", a.output \in {"NULL", "FITS", "OVERSIZED"}
  PROVE  Undisturbed(old, new)
<1>1. a.output # "DISPATCHING" /\ a.output # "SESSION" /\ old.attempts[n].output \notin DevinOutput
      /\ old.attempts[n].output # "DISPATCHING"
  BY DEF DevinOutput
<1>2. Keeps(old, new)
  BY <1>1, EditKeeps
<1>3. StaysDispatching(old, new) /\ StaysWithDevin(old, new) /\ NoNewSession(old, new)
  BY <1>1, EditStays
<1> QED
  BY <1>2, <1>3 DEF Undisturbed

(* A call moves a task without disturbing the others *)
LEMMA CallMoves ==
  ASSUME RInv, NEW w \in Workflows, NEW i \in Positions(w), NEW new, NEW row,
         Moves(w, i, new, row), Puts(w, i, new, row), Keeps(tasks[w][i], new), NoNewSession(tasks[w][i], new),
         NEW c \in Calls, OthersUndisturbed(c, w, i, new), call' = [call EXCEPT ![c] = NoCall],
         UNCHANGED <<worker, session>>
  PROVE  RInv' /\ Kept
<1>1. new \in Task /\ Writes(w, i, new, PutTask(w, i, new), row)
  BY MoveWrites
<1>2. KnownIn(w, i, new)
  BY NothingNew
<1> QED
  BY <1>1, <1>2, CallWritten

(* An attempt fails: a worker's or Devin's *)
LEMMA FailureSteps ==
  RInv =>
    /\ UNCHANGED <<call, session>> =>
         \A p \in Workers : \A error \in RunErrors : FinalizeExecutionFailure(p, error) => RInv' /\ Kept
    /\ \A c \in Calls : \A error \in ErrorCodes : FailAttempt(c, error) => RInv' /\ Kept
<1>Closes.
  ASSUME NEW task \in Task, NEW n \in 1 .. Len(task.attempts), NEW a \in Attempt, n = Len(task.attempts), n # 0
  PROVE  Closed(task, ClearLease([task EXCEPT !.attempts = [task.attempts EXCEPT ![n] = a]]), n, a)
  <2> USE <1>Closes
  <2> DEFINE attempts == [task.attempts EXCEPT ![n] = a]
             t == ClearLease([task EXCEPT !.attempts = attempts])
  <2>1. TaskIs(t, task.kind, task.status, "NULL", task.grant, attempts)
    BY CloseIs
  <2> HIDE DEF t
  <2>2. /\ t \in Task /\ t.kind = task.kind /\ t.lease_owner = "NULL" /\ t.grant = task.grant
        /\ t.attempts = [task.attempts EXCEPT ![n] = a]
    BY <2>1 DEF TaskIs
  <2>3. Closed(task, t, n, a)
    BY <2>2 DEF Closed, LastEdited
  <2> QED
    BY <2>3 DEF t
(* _record_attempt_failure queues the task again *)
<1>RetryMoves.
  ASSUME RInv, NEW w \in Workflows, NEW i \in Positions(w), tasks[w][i].status = "RUNNING",
         NEW n, NEW a \in Attempt, a.status = "FAILED", NEW t, Closed(tasks[w][i], t, n, a),
         tasks[w][i].grant # "INACTIVE" \/ a.provider = "devin"
  PROVE  LET new == [t EXCEPT !.status = "READY"]
         IN Moves(w, i, new, workflow[w]) /\ LastEdited(tasks[w][i], new, n, a)
  <2> USE <1>RetryMoves
  <2> DEFINE task == tasks[w][i]
             new == [t EXCEPT !.status = "READY"]
  <2>1. task.kind = "IMPLEMENT" /\ task.status \notin {"SUCCEEDED", "RECONCILED"}
    BY HeldIsImplement
  <2> USE <2>1
  <2>2. Drives(workflow[w].state, task) /\ RowFits(workflow[w]) /\ task \in Task /\ ImplementFits(task)
    BY OpenTask
  <2>3. t \in Task /\ t.lease_owner = "NULL" /\ t.grant = task.grant /\ LastEdited(task, t, n, a)
    BY DEF Closed
  <2> USE <2>3
  <2>4. TaskIs(new, t.kind, "READY", t.lease_owner, t.grant, t.attempts)
    BY StatusIs DEF TaskStatus
  <2> HIDE DEF new
  <2>5. LastEdited(task, new, n, a)
    BY <2>4 DEF TaskIs, LastEdited
  <2>6. /\ new \in Task /\ new.kind = "IMPLEMENT" /\ new.status = "READY" /\ new.lease_owner = "NULL"
        /\ new.grant = task.grant
    BY <2>4 DEF TaskIs, LastEdited
  <2>7. /\ EarlierFailed(new) /\ Len(new.attempts) = Len(task.attempts) /\ Len(new.attempts) # 0
        /\ LastAttempt(new) = a /\ LastAttempt(task) = task.attempts[n]
    BY <2>2, <2>5, Rewritten
  <2> USE <2>6
  <2>8. AttemptsFit(new)
    BY <2>7 DEF AttemptsFit, EndsIn
  <2>9. LeaseFits(new)
    BY DEF LeaseFits, DEVIN_PRINCIPAL, WINDSURF_PRINCIPAL
  <2>10. GrantHeld(new)
    BY <2>7 DEF GrantHeld, LiveStatus
  <2>11. Drives(workflow[w].state, new)
    BY <2>2 DEF Drives
  <2>12. Moves(w, i, new, workflow[w])
    BY <2>2, <2>8, <2>9, <2>10, <2>11 DEF Moves, ImplementFits
  <2> QED
    BY <2>5, <2>12 DEF new
(* _record_attempt_failure fails the task and its workflow *)
<1>FailMoves.
  ASSUME RInv, NEW w \in Workflows, NEW i \in Positions(w), tasks[w][i].status = "RUNNING",
         NEW n, NEW a \in Attempt, a.status = "FAILED", NEW t, Closed(tasks[w][i], t, n, a)
  PROVE  LET new == DeactivateGrant([t EXCEPT !.status = "FAILED"])
         IN Moves(w, i, new, Transition(workflow[w], "FAILED")) /\ LastEdited(tasks[w][i], new, n, a)
  <2> USE <1>FailMoves
  <2> DEFINE task == tasks[w][i]
             ended == [t EXCEPT !.status = "FAILED"]
             new == DeactivateGrant(ended)
             row == Transition(workflow[w], "FAILED")
  <2>1. task.kind = "IMPLEMENT" /\ task.status \notin {"SUCCEEDED", "RECONCILED"}
    BY HeldIsImplement
  <2>2. RowFits(workflow[w]) /\ task \in Task /\ ImplementFits(task)
    BY <2>1, OpenTask
  <2>3. t \in Task /\ t.lease_owner = "NULL" /\ LastEdited(task, t, n, a)
    BY DEF Closed
  <2>4. TaskIs(ended, t.kind, "FAILED", t.lease_owner, t.grant, t.attempts)
    BY <2>3, StatusIs DEF TaskStatus
  <2> HIDE DEF ended
  <2>5. TaskIs(new, ended.kind, ended.status, ended.lease_owner, "INACTIVE", ended.attempts)
    BY <2>4, DeactivateGrantIs DEF TaskIs
  <2> HIDE DEF new
  <2>6. /\ new \in Task /\ new.kind = t.kind /\ new.status = "FAILED" /\ new.lease_owner = t.lease_owner
        /\ new.grant = "INACTIVE" /\ new.attempts = t.attempts
    BY <2>4, <2>5 DEF TaskIs
  <2> USE <2>6
  <2>7. LastEdited(task, new, n, a)
    BY <2>3 DEF LastEdited
  <2> USE <2>7
  <2>8. new.kind = "IMPLEMENT" /\ new.lease_owner = "NULL"
    BY <2>1, <2>3 DEF LastEdited
  <2>9. /\ EarlierFailed(new) /\ Len(new.attempts) = Len(task.attempts) /\ Len(new.attempts) # 0
        /\ LastAttempt(new) = a /\ LastAttempt(task) = task.attempts[n]
    BY <2>2, Rewritten
  <2>10. EndsIn(new.status, LastAttempt(new).status)
    BY <2>9 DEF EndsIn
  <2> USE <2>8
  <2>11. ImplementFits(new)
    <3>1. new.grant = "INACTIVE" /\ new.status \notin {"READY", "LEASED"}
      OBVIOUS
    <3> QED
      BY <2>9, <2>10, <3>1, EndedFits
  <2>12. RowFits(row) /\ row.state = "FAILED" /\ row.candidate_revision = workflow[w].candidate_revision
    BY <2>2, TransitionRowFits
  <2> HIDE DEF row
  <2>13. Drives(row.state, new) /\ new.status # "SUCCEEDED" /\ new \in Task
    BY <2>12 DEF Drives
  <2>14. Moves(w, i, new, row)
    BY <2>1, <2>11, <2>12, <2>13 DEF Moves
  <2> QED
    BY <2>14 DEF new, ended, row
(* A failed attempt *)
<1>FailedAttempt.
  ASSUME NEW b \in Attempt, NEW error \in RunErrors
  PROVE  LET a == [b EXCEPT !.status = "FAILED", !.error_code = error]
         IN a \in Attempt /\ a.status = "FAILED" /\ a.output = b.output /\ a.provider = b.provider
  <2> USE <1>FailedAttempt
  <2> DEFINE a1 == [b EXCEPT !.status = "FAILED"]
             a == [a1 EXCEPT !.error_code = error]
  <2>1. a1 \in Attempt /\ a1.status = "FAILED" /\ a1.output = b.output /\ a1.provider = b.provider
    BY DEF Attempt
  <2> HIDE DEF a1
  <2>2. error \in ErrorCodes \cup {"ReviewRejected", "LeaseExpired", "RoutingBlocked", None}
    BY DEF RunErrors
  <2>3. a \in Attempt /\ a.status = a1.status /\ a.output = a1.output /\ a.provider = a1.provider
    BY SMT, <2>1, <2>2 DEF Attempt
  <2> HIDE DEF a
  <2>4. a \in Attempt /\ a.status = "FAILED" /\ a.output = b.output /\ a.provider = b.provider
    BY <2>1, <2>3
  <2>5. a = [b EXCEPT !.status = "FAILED", !.error_code = error]
    BY DEF a, a1
  <2> QED
    BY <2>4, <2>5
(* _finalize_execution_failure *)
<1>RemoteFailure.
  ASSUME RInv, NEW p \in Workers, NEW error \in RunErrors, FinalizeExecutionFailure(p, error),
         UNCHANGED <<call, session>>
  PROVE  RInv' /\ Kept
  <2> USE <1>RemoteFailure
  <2> DEFINE w == worker[p].wf
             i == worker[p].pos
             task == tasks[w][i]
             n == worker[p].attempt
             a == [task.attempts[n] EXCEPT !.status = "FAILED", !.error_code = error]
             t == ClearLease([task EXCEPT !.attempts = [task.attempts EXCEPT ![n] = a]])
             ready == [t EXCEPT !.status = "READY"]
             failed == DeactivateGrant([t EXCEPT !.status = "FAILED"])
  <2>1. worker[p].pc = "executing" /\ RunStillLeased(p) /\ worker' = [worker EXCEPT ![p] = Idle]
    BY DEF FinalizeExecutionFailure
  <2>2. /\ w \in Workflows /\ i \in Positions(w) /\ HeldTask(p) = task
        /\ task \in Task /\ task.kind = "IMPLEMENT" /\ task.status = "RUNNING" /\ task.grant # "INACTIVE"
        /\ n = Len(task.attempts) /\ n # 0 /\ task.attempts[n] \in Attempt
        /\ task.attempts[n].status = "RUNNING" /\ task.attempts[n].output = "NULL"
    BY <2>1, RunIsLast
  <2> USE <2>2
  <2>3. \/ tasks' = [tasks EXCEPT ![w] = PutTask(w, i, ready)] /\ UNCHANGED workflow
        \/ /\ tasks' = [tasks EXCEPT ![w] = PutTask(w, i, failed)]
           /\ workflow' = [workflow EXCEPT ![w] = Transition(workflow[w], "FAILED")]
    <3>1. t = ClearLease([HeldTask(p) EXCEPT !.attempts[n].status = "FAILED", !.attempts[n].error_code = error])
      BY DEF Task
    <3> HIDE DEF t
    <3> QED
      BY <3>1 DEF FinalizeExecutionFailure
  <2>4. a \in Attempt /\ a.status = "FAILED" /\ a.output \in {"NULL", "FITS", "OVERSIZED"}
    BY <1>FailedAttempt
  <2> HIDE DEF a
  <2>5. n \in 1 .. Len(task.attempts)
    BY <2>1, HeldRemote
  <2> USE <2>4
  <2>6. Closed(task, t, n, a)
    BY <2>5, <1>Closes
  <2> HIDE DEF t
  <2>7. Moves(w, i, ready, workflow[w]) /\ LastEdited(task, ready, n, a)
    BY <2>6, <1>RetryMoves
  <2>8. Moves(w, i, failed, Transition(workflow[w], "FAILED")) /\ LastEdited(task, failed, n, a)
    BY <2>6, <1>FailMoves
  <2> HIDE DEF ready, failed
  <2>9. Undisturbed(task, ready) /\ Undisturbed(task, failed)
    BY <2>7, <2>8, WorkerEdits
  <2>10. WorkersStep
    BY <2>1, WorkerDrops
  <2>11. CASE tasks' = [tasks EXCEPT ![w] = PutTask(w, i, ready)] /\ UNCHANGED workflow
    <3>1. Puts(w, i, ready, workflow[w])
      BY <2>11, SameRow DEF Puts
    <3> QED
      BY <2>7, <2>9, <2>10, <3>1, EngineMoves
  <2>12. CASE /\ tasks' = [tasks EXCEPT ![w] = PutTask(w, i, failed)]
              /\ workflow' = [workflow EXCEPT ![w] = Transition(workflow[w], "FAILED")]
    <3>1. Puts(w, i, failed, Transition(workflow[w], "FAILED"))
      BY <2>12 DEF Puts
    <3> QED
      BY <2>8, <2>9, <2>10, <3>1, EngineMoves
  <2> QED
    BY <2>3, <2>11, <2>12
(* No session id is recorded by closing an attempt *)
<1>CloseRecordsNone.
  ASSUME NEW old \in Task, NEW new, NEW a \in Attempt, NEW n, LastEdited(old, new, n, a), SameOutput(old, n, a)
  PROVE  NoNewSession(old, new)
  <2> USE <1>CloseRecordsNone
  <2>1. EditsOnly(old, new, n, a)
    BY EditedAttempts
  <2> QED
    BY <2>1 DEF EditsOnly, NoNewSession, SameOutput
(* _fail_attempt with _record_attempt_failure *)
<1>RemoteFailAttempt.
  ASSUME RInv, NEW c \in Calls, NEW error \in ErrorCodes, FailAttempt(c, error)
  PROVE  RInv' /\ Kept
  <2> USE <1>RemoteFailAttempt
  <2> DEFINE w == call[c].wf
             i == call[c].pos
             n == call[c].attempt
             task == tasks[w][i]
             a == [task.attempts[n] EXCEPT !.status = "FAILED", !.error_code = error]
             t == ClearLease([task EXCEPT !.attempts = [task.attempts EXCEPT ![n] = a]])
             ready == [t EXCEPT !.status = "READY"]
             failed == DeactivateGrant([t EXCEPT !.status = "FAILED"])
  <2>1. /\ StillObserved(c) /\ call[c].seen \in {"SUCCEEDED", "ENDED"} /\ call' = [call EXCEPT ![c] = NoCall]
        /\ UNCHANGED <<worker, session>>
    BY DEF FailAttempt
  <2>2. /\ w \in Workflows /\ i \in Positions(w) /\ CallTask(c) = task /\ call[c].pc # "idle"
        /\ task \in Task /\ task.kind = "IMPLEMENT" /\ task.status = "RUNNING"
        /\ n = Len(task.attempts) /\ n # 0 /\ n \in 1 .. Len(task.attempts)
        /\ task.attempts[n] \in Attempt /\ task.attempts[n].status = "RUNNING"
        /\ task.attempts[n].provider = "devin" /\ task.attempts[n].output # "DISPATCHING"
        /\ Unattended(w, i)
    BY <2>1, ObservedIs
  <2> USE <2>2
  <2>3. \/ tasks' = [tasks EXCEPT ![w] = PutTask(w, i, ready)] /\ UNCHANGED workflow
        \/ /\ tasks' = [tasks EXCEPT ![w] = PutTask(w, i, failed)]
           /\ workflow' = [workflow EXCEPT ![w] = Transition(workflow[w], "FAILED")]
    <3>1. t = ClearLease([CallTask(c) EXCEPT !.attempts[n] = [@ EXCEPT !.status = "FAILED", !.error_code = error]])
      BY DEF Task
    <3> HIDE DEF t
    <3> QED
      BY <3>1 DEF FailAttempt, PutCallTask
  <2>4. /\ a \in Attempt /\ a.status = "FAILED" /\ a.output = task.attempts[n].output
        /\ a.provider = task.attempts[n].provider
    <3>1. error \in RunErrors
      BY DEF RunErrors
    <3> QED
      BY <3>1, <1>FailedAttempt
  <2> HIDE DEF a
  <2> USE <2>4
  <2>5. a.provider = "devin"
    OBVIOUS
  <2>6. Closed(task, t, n, a)
    BY <1>Closes
  <2> HIDE DEF t
  <2>7. Moves(w, i, ready, workflow[w]) /\ LastEdited(task, ready, n, a)
    BY <2>5, <2>6, <1>RetryMoves
  <2>8. Moves(w, i, failed, Transition(workflow[w], "FAILED")) /\ LastEdited(task, failed, n, a)
    BY <2>6, <1>FailMoves
  <2> HIDE DEF ready, failed
  <2>9. ASSUME NEW new, LastEdited(task, new, n, a)
        PROVE  Keeps(task, new) /\ NoNewSession(task, new) /\ OthersUndisturbed(c, w, i, new)
    <3>1. Keeps(task, new)
      BY <2>9, EditKeeps
    <3>2. SameOutput(task, n, a)
      BY DEF SameOutput
    <3>3. NoNewSession(task, new)
      BY <2>9, <3>2, <1>CloseRecordsNone
    <3> QED
      BY <3>1, <3>3, NobodyDisturbed
  <2>10. CASE tasks' = [tasks EXCEPT ![w] = PutTask(w, i, ready)] /\ UNCHANGED workflow
    <3>1. Puts(w, i, ready, workflow[w])
      BY <2>10, SameRow DEF Puts
    <3>2. Keeps(task, ready) /\ NoNewSession(task, ready) /\ OthersUndisturbed(c, w, i, ready)
      BY <2>7, <2>9
    <3> QED
      BY <2>1, <2>7, <3>1, <3>2, CallMoves
  <2>11. CASE /\ tasks' = [tasks EXCEPT ![w] = PutTask(w, i, failed)]
              /\ workflow' = [workflow EXCEPT ![w] = Transition(workflow[w], "FAILED")]
    <3>1. Puts(w, i, failed, Transition(workflow[w], "FAILED"))
      BY <2>11 DEF Puts
    <3>2. Keeps(task, failed) /\ NoNewSession(task, failed) /\ OthersUndisturbed(c, w, i, failed)
      BY <2>8, <2>9
    <3> QED
      BY <2>1, <2>8, <3>1, <3>2, CallMoves
  <2> QED
    BY <2>3, <2>10, <2>11
<1> QED
  BY <1>RemoteFailure, <1>RemoteFailAttempt

(* The task of c is running, and n is its last attempt *)
RunsLast(c, n) ==
  LET task == tasks[call[c].wf][call[c].pos]
  IN /\ task.status = "RUNNING" /\ n = Len(task.attempts) /\ n # 0 /\ n \in 1 .. Len(task.attempts)
     /\ task.attempts[n] \in Attempt /\ task.attempts[n].status = "RUNNING"
-----------------------------------------------------------------------------
(* Windsurf *)

(* What holds when a claim is accepted *)
LEMMA ClaimIs ==
  ASSUME RInv, NEW c \in Calls, call[c].pc # "idle", HoldsClaim(c)
  PROVE  LET w == call[c].wf
             i == call[c].pos
             task == tasks[w][i]
         IN /\ w \in Workflows /\ i \in Positions(w) /\ CallTask(c) = task
            /\ task \in Task /\ task.kind = "IMPLEMENT" /\ task.status = "RUNNING"
            /\ Len(task.attempts) # 0 /\ Len(task.attempts) \in 1 .. Len(task.attempts)
            /\ LastAttempt(task) \in Attempt /\ LastAttempt(task).status = "RUNNING"
            /\ LastAttempt(task).provider = "windsurf" /\ Unattended(w, i)
<1> DEFINE w == call[c].wf
           i == call[c].pos
           task == tasks[w][i]
<1>1. /\ w \in Workflows /\ i \in Positions(w) /\ CallTask(c) = task
      /\ task \in Task /\ task.kind = "IMPLEMENT" /\ ImplementFits(task)
  BY CallFacts
<1> USE <1>1
<1>2. task.status = "RUNNING" /\ task.lease_owner = WINDSURF_PRINCIPAL
  BY DEF HoldsClaim
<1>3. HandedOver(task, "windsurf") /\ LastAttempt(task).output = "CLAIMED"
  BY <1>2 DEF ImplementFits, LeaseFits
<1>4. Len(task.attempts) # 0 /\ LastAttempt(task).status = "RUNNING" /\ LastAttempt(task).provider = "windsurf"
  BY <1>3 DEF HandedOver
<1>5. Len(task.attempts) \in 1 .. Len(task.attempts)
  <2>1. Len(task.attempts) \in Nat
    BY LenIsNat DEF Task
  <2> QED
    BY SMT, <1>4, <2>1
<1>6. LastAttempt(task) \in Attempt
  BY <1>5, AttemptTyped DEF LastAttempt
<1>7. LastAttempt(task).output # "DISPATCHING" /\ LastAttempt(task).output \notin DevinOutput
  BY <1>3 DEF DevinOutput
<1>8. Unattended(w, i)
  BY <1>7, IsUnattended
<1> QED
  BY <1>2, <1>4, <1>5, <1>6, <1>8

(* Leases run down and are renewed, by workers, by a poll and by Windsurf *)
LEMMA LeaseSteps ==
  RInv =>
    /\ UNCHANGED <<call, session>> => \A p \in Workers : HeartbeatTask(p) => RInv' /\ Kept
    /\ UNCHANGED <<call, session>> =>
         \A w \in Workflows : \A i \in Positions(w) : LeaseTick(w, i) => RInv' /\ Kept
    /\ \A c \in Calls : RecordObservation(c) => RInv' /\ Kept
    /\ \A c \in Calls : HeartbeatWindsurf(c) => RInv' /\ Kept
(* A lease gets another length *)
<1>LeaseMoves.
  ASSUME RInv, NEW w \in Workflows, NEW i \in Positions(w), tasks[w][i].status \in {"LEASED", "RUNNING"},
         NEW left \in 0 .. LeaseTicks
  PROVE  LET new == [tasks[w][i] EXCEPT !.lease_left = left]
         IN /\ Moves(w, i, new, workflow[w]) /\ Undisturbed(tasks[w][i], new) /\ new.attempts = tasks[w][i].attempts
            /\ new \in Task
  <2> USE <1>LeaseMoves
  <2> DEFINE task == tasks[w][i]
             new == [task EXCEPT !.lease_left = left]
  <2>1. task.kind = "IMPLEMENT" /\ task.status \notin {"SUCCEEDED", "RECONCILED"}
    BY HeldIsImplement
  <2>2. Drives(workflow[w].state, task) /\ RowFits(workflow[w]) /\ task \in Task /\ ImplementFits(task)
    BY <2>1, OpenTask
  <2> USE <2>2
  <2>3. TaskIs(new, task.kind, task.status, task.lease_owner, task.grant, task.attempts)
    BY LeftIs
  <2> HIDE DEF new
  <2>4. /\ new \in Task /\ new.kind = task.kind /\ new.status = task.status /\ new.lease_owner = task.lease_owner
        /\ new.grant = task.grant /\ new.attempts = task.attempts
    BY <2>3 DEF TaskIs
  <2> USE <2>4
  <2>5. ImplementFits(new)
    BY
       DEF ImplementFits, AttemptsFit, EarlierFailed, LastAttempt, LeaseFits, HandedOver, GrantHeld
  <2>6. Moves(w, i, new, workflow[w])
    BY <2>1, <2>5 DEF Moves, Drives
  <2>7. Undisturbed(task, new)
    BY SameAttempts
  <2> QED
    BY <2>6, <2>7 DEF new
(* heartbeat_task *)
<1>RemoteHeartbeat.
  ASSUME RInv, NEW p \in Workers, HeartbeatTask(p), UNCHANGED <<call, session>>
  PROVE  RInv' /\ Kept
  <2> USE <1>RemoteHeartbeat
  <2> DEFINE w == worker[p].wf
             i == worker[p].pos
             new == [tasks[w][i] EXCEPT !.lease_left = LeaseTicks]
  <2>1. worker[p].pc # "idle" /\ UNCHANGED <<workflow, worker>>
    BY DEF HeartbeatTask
  <2> USE <2>1
  <2>2. w \in Workflows /\ i \in Positions(w) /\ HeldTask(p) = tasks[w][i]
    BY HeldRemote
  <2> USE <2>2
  <2>3. tasks[w][i].status \in {"LEASED", "RUNNING"} /\ tasks' = [tasks EXCEPT ![w] = PutTask(w, i, new)]
    BY DEF HeartbeatTask, HoldsLease
  <2>4. Moves(w, i, new, workflow[w]) /\ Undisturbed(tasks[w][i], new)
    BY <2>3, <1>LeaseMoves, LeaseRange
  <2> HIDE DEF new
  <2>5. Puts(w, i, new, workflow[w])
    BY <2>3, SameRow DEF Puts
  <2>6. WorkersStep
    BY WorkersStay
  <2> QED
    BY <2>4, <2>5, <2>6, EngineMoves
(* Time passes for a lease *)
<1>RemoteLeaseTick.
  ASSUME RInv, NEW w \in Workflows, NEW i \in Positions(w), LeaseTick(w, i), UNCHANGED <<call, session>>
  PROVE  RInv' /\ Kept
  <2> USE <1>RemoteLeaseTick
  <2> DEFINE left == tasks[w][i].lease_left - 1
             new == [tasks[w][i] EXCEPT !.lease_left = left]
  <2>1. /\ tasks[w][i].status \in {"LEASED", "RUNNING"} /\ tasks[w][i].lease_left > 0
        /\ UNCHANGED <<workflow, worker>>
    BY DEF LeaseTick
  <2>2. tasks[w][i] \in Task
    BY RemoteTask
  <2>3. tasks' = [tasks EXCEPT ![w] = PutTask(w, i, new)]
    BY <2>2 DEF LeaseTick, Task
  <2> USE <2>1
  <2>4. left \in 0 .. LeaseTicks
    <3>1. tasks[w][i].lease_left \in 0 .. LeaseTicks
      BY <2>2 DEF Task
    <3> QED
      BY SMT, <3>1, LeaseAssumption
  <2> HIDE DEF left
  <2>5. Moves(w, i, new, workflow[w]) /\ Undisturbed(tasks[w][i], new)
    BY <2>4, <1>LeaseMoves
  <2> HIDE DEF new
  <2>6. Puts(w, i, new, workflow[w])
    BY <2>3, SameRow DEF Puts
  <2>7. WorkersStep
    BY WorkersStay
  <2> QED
    BY <2>5, <2>6, <2>7, EngineMoves
(* _record_observation *)
<1>RemoteObservation.
  ASSUME RInv, NEW c \in Calls, RecordObservation(c)
  PROVE  RInv' /\ Kept
  <2> USE <1>RemoteObservation
  <2> DEFINE w == call[c].wf
             i == call[c].pos
             new == [tasks[w][i] EXCEPT !.lease_left = LeaseTicks]
  <2>1. StillObserved(c) /\ call' = [call EXCEPT ![c] = NoCall] /\ UNCHANGED <<workflow, worker, session>>
    BY DEF RecordObservation
  <2> USE <2>1
  <2>2. /\ w \in Workflows /\ i \in Positions(w) /\ CallTask(c) = tasks[w][i] /\ tasks[w][i].status \in {"LEASED", "RUNNING"}
    BY ObservedIs
  <2> USE <2>2
  <2>3. tasks' = [tasks EXCEPT ![w] = PutTask(w, i, new)]
    BY DEF RecordObservation, PutCallTask
  <2>4. Moves(w, i, new, workflow[w]) /\ Undisturbed(tasks[w][i], new)
    BY <1>LeaseMoves, LeaseRange
  <2> HIDE DEF new
  <2>5. Puts(w, i, new, workflow[w])
    BY <2>3, SameRow DEF Puts
  <2>6. Keeps(tasks[w][i], new) /\ NoNewSession(tasks[w][i], new) /\ OthersUndisturbed(c, w, i, new)
    BY <2>4 DEF Undisturbed, OthersUndisturbed
  <2> QED
    BY <2>4, <2>5, <2>6, CallMoves
(* heartbeat_windsurf_task *)
<1>RemoteHeartbeatWindsurf.
  ASSUME RInv, NEW c \in Calls, HeartbeatWindsurf(c)
  PROVE  RInv' /\ Kept
  <2> USE <1>RemoteHeartbeatWindsurf
  <2> DEFINE w == call[c].wf
             i == call[c].pos
             new == [tasks[w][i] EXCEPT !.lease_left = LeaseTicks]
  <2>1. call[c].pc # "idle" /\ HoldsClaim(c) /\ UNCHANGED <<workflow, worker>> /\ UNCHANGED <<call, session>>
    BY DEF HeartbeatWindsurf
  <2> USE <2>1
  <2>2. w \in Workflows /\ i \in Positions(w) /\ CallTask(c) = tasks[w][i] /\ tasks[w][i].status \in {"LEASED", "RUNNING"}
    BY ClaimIs
  <2> USE <2>2
  <2>3. tasks' = [tasks EXCEPT ![w] = PutTask(w, i, new)]
    BY DEF HeartbeatWindsurf, PutCallTask
  <2>4. Moves(w, i, new, workflow[w]) /\ Undisturbed(tasks[w][i], new)
    BY <1>LeaseMoves, LeaseRange
  <2> HIDE DEF new
  <2>5. Puts(w, i, new, workflow[w])
    BY <2>3, SameRow DEF Puts
  <2>6. WorkersStep
    BY WorkersStay
  <2> QED
    BY <2>4, <2>5, <2>6, EngineMoves
<1> QED
  BY <1>RemoteHeartbeat, <1>RemoteLeaseTick, <1>RemoteObservation, <1>RemoteHeartbeatWindsurf

(* A result is accepted: a worker's, Devin's or Windsurf's *)
LEMMA ResultSteps ==
  RInv =>
    /\ UNCHANGED <<call, session>> => \A p \in Workers : \A revision \in Revisions : \A size \in OutputSizes :
         FinalizeExecutionSuccess(p, revision, size) => RInv' /\ Kept
    /\ \A c \in Calls : \A revision \in Revisions : AcceptEvidence(c, revision) => RInv' /\ Kept
    /\ \A c \in Calls : EvidenceFinalize(c) => RInv' /\ Kept
<1>ConcatOne.
  ASSUME NEW S, NEW s \in Seq(S), NEW e \in S
  PROVE  s \o <<e>> = Append(s, e)
  <2> USE <1>ConcatOne
  <2>1. /\ s \o <<e>> \in Seq(S) /\ Len(s \o <<e>>) = Len(s) + 1 /\ Len(s) \in Nat
        /\ \A j \in 1 .. Len(s) + 1 : (s \o <<e>>)[j] = IF j <= Len(s) THEN s[j] ELSE e
    BY SMT
  <2>2. \A j \in 1 .. Len(s) + 1 : Append(s, e)[j] = IF j <= Len(s) THEN s[j] ELSE e
    BY SMT
  <2> QED
    BY SMT, <2>1, <2>2, AppendToSeq, SeqIsFunction
<1>Finishes.
  ASSUME NEW task \in Task, NEW n \in 1 .. Len(task.attempts), NEW a \in Attempt, n = Len(task.attempts), n # 0
  PROVE  Done(task, DeactivateGrant(ClearLease([task EXCEPT !.status = "SUCCEEDED", !.attempts[n] = a])), n, a)
  <2> USE <1>Finishes
  <2> DEFINE attempts == [task.attempts EXCEPT ![n] = a]
             t == [task EXCEPT !.status = "SUCCEEDED", !.attempts = attempts]
             new == DeactivateGrant(ClearLease(t))
  <2>1. [task EXCEPT !.status = "SUCCEEDED", !.attempts[n] = a] = t
    BY DEF Task
  <2>2. attempts \in Seq(Attempt)
    BY CloseIs
  <2> HIDE DEF attempts
  <2>3. TaskIs(t, task.kind, "SUCCEEDED", task.lease_owner, task.grant, attempts)
    BY <2>2, StatusAttemptsIs DEF TaskStatus
  <2> HIDE DEF t
  <2>4. TaskIs(new, t.kind, t.status, "NULL", "INACTIVE", t.attempts)
    BY <2>3, EndedIs DEF TaskIs
  <2> HIDE DEF new
  <2>5. /\ new \in Task /\ new.kind = task.kind /\ new.status = "SUCCEEDED" /\ new.lease_owner = "NULL"
        /\ new.grant = "INACTIVE" /\ new.attempts = attempts
    BY <2>3, <2>4 DEF TaskIs
  <2>6. LastEdited(task, new, n, a)
    BY <2>5 DEF LastEdited, attempts
  <2>7. Done(task, new, n, a)
    BY <2>5, <2>6 DEF Done
  <2> QED
    BY <2>1, <2>7 DEF new
<1>AcceptedRow.
  ASSUME NEW row, RowFits(row), NEW revision \in Revisions
  PROVE  LET new == AdvanceRow([row EXCEPT !.candidate_revision = revision], "IMPLEMENT")
         IN RowFits(new) /\ new.state = "TESTING" /\ new.candidate_revision = revision
  <2> USE <1>AcceptedRow
  <2> DEFINE r == [row EXCEPT !.candidate_revision = revision]
             new == Transition(r, "TESTING")
  <2>1. NextState["IMPLEMENT"] = "TESTING"
    BY SMT DEF NextState, TaskKind
  <2>2. AdvanceRow(r, "IMPLEMENT") = new
    BY <2>1 DEF AdvanceRow
  <2>3. /\ r \in WorkflowRow /\ r.state = row.state /\ r.block_reason = row.block_reason
        /\ r.candidate_revision = revision
    BY SMT DEF RowFits, WorkflowRow
  <2> HIDE DEF r
  <2>4. RowFits(r)
    BY <2>3 DEF RowFits
  <2>5. RowFits(new) /\ new.state = "TESTING" /\ new.candidate_revision = r.candidate_revision
    BY <2>4, TransitionRowFits
  <2> HIDE DEF new
  <2>6. RowFits(new) /\ new.state = "TESTING" /\ new.candidate_revision = revision
    BY <2>3, <2>5
  <2> QED
    BY <2>2, <2>6 DEF r
<1>AcceptWrites.
  ASSUME RInv, NEW w \in Workflows, NEW i \in Positions(w), tasks[w][i].status = "RUNNING",
         NEW n, NEW a \in Attempt, NEW revision \in Revisions, a.status = "SUCCEEDED", a.artifact = revision,
         NEW new, Done(tasks[w][i], new, n, a), Accepts(w, i, new, revision)
  PROVE  Writes(w, i, new, Append(PutTask(w, i, new), NewTask("TEST")), workflow'[w])
  <2> USE <1>AcceptWrites
  <2> DEFINE task == tasks[w][i]
             row == AdvanceRow([workflow[w] EXCEPT !.candidate_revision = revision], "IMPLEMENT")
             ts == Append(PutTask(w, i, new), NewTask("TEST"))
  <2>1. task.kind = "IMPLEMENT" /\ task.status \notin {"SUCCEEDED", "RECONCILED"}
    BY HeldIsImplement
  <2>2. RowFits(workflow[w]) /\ task \in Task /\ ImplementFits(task)
    BY <2>1, OpenTask
  <2>3. tasks[w] \in Seq(Task) /\ i \in 1 .. Len(tasks[w]) /\ WorkflowFits(workflow[w], tasks[w])
    BY RemoteTask
  <2>4. /\ new \in Task /\ LastEdited(task, new, n, a) /\ new.status = "SUCCEEDED"
        /\ new.lease_owner = "NULL" /\ new.grant = "INACTIVE" /\ new.kind = "IMPLEMENT"
    BY <2>1 DEF Done, LastEdited
  <2> USE <2>4
  <2>5. /\ EarlierFailed(new) /\ Len(new.attempts) = Len(task.attempts) /\ Len(new.attempts) # 0
        /\ LastAttempt(new) = a /\ LastAttempt(task) = task.attempts[n]
    BY <2>2, Rewritten
  <2>6. ImplementFits(new)
    <3>1. EndsIn(new.status, LastAttempt(new).status) /\ new.status \notin {"READY", "LEASED"}
      BY <2>5 DEF EndsIn
    <3> QED
      BY <2>5, <3>1, EndedFits
  <2>7. RowFits(row) /\ row.state = "TESTING" /\ row.candidate_revision = revision
    BY <2>2, <1>AcceptedRow
  <2>8. PutTask(w, i, new) \in Seq(Task)
    BY SMT, <2>3, PutInSeq DEF PutTask
  <2>9. PutTask(w, i, new) \o FollowingTasks("IMPLEMENT") = ts
    <3>1. FollowingTasks("IMPLEMENT") = <<NewTask("TEST")>>
      BY SMT DEF FollowingTasks
    <3>2. NewTask("TEST") \in Task
      BY NewTaskIs DEF TaskKind
    <3> QED
      BY <2>8, <3>1, <3>2, <1>ConcatOne
  <2>10. tasks' = [tasks EXCEPT ![w] = ts] /\ workflow' = [workflow EXCEPT ![w] = row]
    BY <2>9 DEF Accepts
  <2>11. Wrote(w, i, new, ts)
    BY AppendWrites DEF TaskKind
  <2> HIDE DEF row
  <2>12. WorkflowFits(row, ts)
    <3>1. /\ Accepted(new) /\ row.candidate_revision = LastAttempt(new).artifact
          /\ row.candidate_revision # None
      BY <2>5, <2>7, NoneAssumption DEF Accepted
    <3>2. WorkflowFits(row, Append([tasks[w] EXCEPT ![i] = new], NewTask("TEST")))
      BY <2>1, <2>3, <2>6, <2>7, <3>1, LastFollowed
    <3> QED
      BY <3>2 DEF PutTask
  <2>13. workflow'[w] = row
    BY <2>10 DEF RInv, RemoteTypeOK, TypeOK
  <2> HIDE DEF ts
  <2>14. Writes(w, i, new, ts, row)
    BY <2>10, <2>11, <2>12 DEF Writes
  <2> QED
    BY <2>13, <2>14 DEF ts
<1>SucceededAttempt.
  ASSUME NEW b \in Attempt, NEW revision \in Revisions, NEW size \in ResultSize
  PROVE  LET a == SuccessOf(b, revision, size)
         IN a \in Attempt /\ a.status = "SUCCEEDED" /\ a.artifact = revision /\ a.output = size
  <2> USE <1>SucceededAttempt
  <2> DEFINE a1 == [b EXCEPT !.status = "SUCCEEDED"]
             a2 == [a1 EXCEPT !.artifact = revision]
             a3 == [a2 EXCEPT !.output = size]
  <2>1. SuccessOf(b, revision, size) = a3
    BY DEF SuccessOf
  <2>2. a1 \in Attempt /\ a1.status = "SUCCEEDED"
    BY DEF Attempt
  <2> HIDE DEF a1
  <2>3. a2 \in Attempt /\ a2.status = "SUCCEEDED" /\ a2.artifact = revision
    BY SMT, <2>2 DEF Attempt
  <2> HIDE DEF a2
  <2>4. a3 \in Attempt /\ a3.status = "SUCCEEDED" /\ a3.artifact = revision /\ a3.output = size
    BY SMT, <2>3 DEF Attempt, ResultSize
  <2> QED
    BY <2>1, <2>4
(* _finalize_execution_success *)
<1>RemoteSuccess.
  ASSUME RInv, NEW p \in Workers, NEW revision \in Revisions, NEW size \in OutputSizes,
         FinalizeExecutionSuccess(p, revision, size), UNCHANGED <<call, session>>
  PROVE  RInv' /\ Kept
  <2> USE <1>RemoteSuccess
  <2> DEFINE w == worker[p].wf
             i == worker[p].pos
             task == tasks[w][i]
             n == worker[p].attempt
             a == SuccessOf(task.attempts[n], revision, size)
             new == DeactivateGrant(ClearLease([task EXCEPT !.status = "SUCCEEDED", !.attempts[n] = a]))
             row == [workflow[w] EXCEPT !.candidate_revision = revision]
  <2>1. worker[p].pc = "executing" /\ RunStillLeased(p) /\ worker' = [worker EXCEPT ![p] = Idle]
    BY DEF FinalizeExecutionSuccess
  <2>2. /\ w \in Workflows /\ i \in Positions(w) /\ HeldTask(p) = task
        /\ task \in Task /\ task.kind = "IMPLEMENT" /\ task.status = "RUNNING" /\ task.grant # "INACTIVE"
        /\ n = Len(task.attempts) /\ n # 0 /\ task.attempts[n] \in Attempt
        /\ task.attempts[n].status = "RUNNING" /\ task.attempts[n].output = "NULL"
    BY <2>1, RunIsLast
  <2>3. n \in 1 .. Len(task.attempts) /\ size \in ResultSize
    BY <2>1, HeldRemote, SizeAssumption DEF ResultSize
  <2> USE <2>2
  <2>4. Accepts(w, i, new, revision)
    <3>1. row.candidate_revision = revision
      BY OpenTask DEF WorkflowRow
    <3>2. new = DeactivateGrant(ClearLease([task EXCEPT !.status = "SUCCEEDED",
                  !.attempts[n] = [@ EXCEPT !.status = "SUCCEEDED", !.artifact = row.candidate_revision, !.output = size]]))
      BY <3>1 DEF Task, SuccessOf
    <3>3. /\ workflow' = [workflow EXCEPT ![w] = AdvanceRow(row, "IMPLEMENT")]
          /\ tasks' = [tasks EXCEPT ![w] = PutTask(w, i, DeactivateGrant(ClearLease([task EXCEPT !.status = "SUCCEEDED",
                  !.attempts[n] = [@ EXCEPT !.status = "SUCCEEDED", !.artifact = row.candidate_revision, !.output = size]])))
                    \o FollowingTasks("IMPLEMENT")]
      BY DEF FinalizeExecutionSuccess
    <3> HIDE DEF new
    <3> QED
      BY <3>2, <3>3 DEF Accepts
  <2>5. a \in Attempt /\ a.status = "SUCCEEDED" /\ a.artifact = revision /\ a.output = size
    BY <2>3, <1>SucceededAttempt
  <2> HIDE DEF a
  <2> USE <2>5
  <2>6. Done(task, new, n, a)
    BY <2>3, <1>Finishes
  <2> HIDE DEF new
  <2>7. Writes(w, i, new, Append(PutTask(w, i, new), NewTask("TEST")), workflow'[w])
    BY <2>4, <2>6, <1>AcceptWrites
  <2>8. LastEdited(task, new, n, a) /\ new \in Task
    BY <2>6 DEF Done
  <2>9. a.output \in {"NULL", "FITS", "OVERSIZED"}
    BY <2>3 DEF ResultSize
  <2>10. Undisturbed(task, new)
    BY <2>8, <2>9, WorkerEdits
  <2>11. WorkersStep
    BY <2>1, WorkerDrops
  <2>12. worker' \in [Workers -> WorkerState] /\ \A q \in Workers : worker'[q] = worker[q] \/ WorkerFits(q)'
    BY <2>11 DEF WorkersStep
  <2> QED
    BY <2>7, <2>8, <2>10, <2>12, EngineWrites
(* Both integrations' acceptance of a result *)
<1>AcceptedAttempt.
  ASSUME NEW b \in Attempt, NEW revision \in Revisions
  PROVE  LET a == SuccessOf(b, revision, "FITS")
         IN a \in Attempt /\ a.status = "SUCCEEDED" /\ a.artifact = revision /\ a.output = "FITS"
  <2> USE <1>AcceptedAttempt
  <2>1. "FITS" \in ResultSize
    BY DEF ResultSize
  <2>2. \A size \in ResultSize : LET a == SuccessOf(b, revision, size)
          IN a \in Attempt /\ a.status = "SUCCEEDED" /\ a.artifact = revision /\ a.output = size
    BY <1>SucceededAttempt
  <2> QED
    BY <2>1, <2>2
<1>RemoteAccept.
  ASSUME RInv, NEW c \in Calls, call[c].wf \in Workflows, call[c].pos \in Positions(call[c].wf),
         NEW n, RunsLast(c, n), Unattended(call[c].wf, call[c].pos),
         NEW revision \in Revisions, AcceptResult(c, tasks[call[c].wf][call[c].pos], n, revision)
  PROVE  RInv' /\ Kept
  <2> USE <1>RemoteAccept
  <2> DEFINE w == call[c].wf
             i == call[c].pos
             task == tasks[w][i]
             a == SuccessOf(task.attempts[n], revision, "FITS")
             new == DeactivateGrant(ClearLease([task EXCEPT !.status = "SUCCEEDED", !.attempts[n] = a]))
  <2>1. /\ task \in Task /\ task.status = "RUNNING" /\ task.attempts[n] \in Attempt
        /\ task.attempts[n].status = "RUNNING"
    BY RemoteTask DEF RunsLast
  <2>2. call' = [call EXCEPT ![c] = NoCall] /\ UNCHANGED <<worker, session>>
    BY DEF AcceptResult
  <2> USE <2>1
  <2>3. Accepts(w, i, new, revision)
    <3>1. new = DeactivateGrant(ClearLease([task EXCEPT !.status = "SUCCEEDED",
                  !.attempts[n] = [@ EXCEPT !.status = "SUCCEEDED", !.artifact = revision, !.output = "FITS"]]))
      BY DEF Task, SuccessOf
    <3> HIDE DEF new
    <3> QED
      BY <3>1 DEF Accepts, AcceptResult
  <2>4. a \in Attempt /\ a.status = "SUCCEEDED" /\ a.artifact = revision /\ a.output = "FITS"
    BY <1>AcceptedAttempt
  <2> HIDE DEF a
  <2> USE <2>4
  <2>5. Done(task, new, n, a)
    <3>1. n \in 1 .. Len(task.attempts) /\ n = Len(task.attempts) /\ n # 0
      BY DEF RunsLast
    <3> QED
      BY <3>1, <1>Finishes
  <2> HIDE DEF new
  <2>6. Writes(w, i, new, Append(PutTask(w, i, new), NewTask("TEST")), workflow'[w])
    BY <2>3, <2>5, <1>AcceptWrites
  <2>7. LastEdited(task, new, n, a) /\ new \in Task
    BY <2>5 DEF Done
  <2> USE <2>7
  <2>8. Keeps(task, new)
    BY EditKeeps
  <2>9. NoNewSession(task, new)
    BY EditStays
  <2>10. KnownIn(w, i, new)
    BY <2>9, NothingNew
  <2>11. OthersUndisturbed(c, w, i, new)
    BY NobodyDisturbed
  <2> QED
    BY <2>2, <2>6, <2>8, <2>10, <2>11, CallWritten
(* _accept_evidence *)
<1>RemoteAcceptEvidence.
  ASSUME RInv, NEW c \in Calls, NEW revision \in Revisions, AcceptEvidence(c, revision)
  PROVE  RInv' /\ Kept
  <2> USE <1>RemoteAcceptEvidence
  <2> DEFINE w == call[c].wf
             i == call[c].pos
             n == call[c].attempt
             task == tasks[w][i]
  <2>1. StillObserved(c) /\ call[c].seen \in {"SUCCEEDED", "ENDED"} /\ AcceptResult(c, CallTask(c), n, revision)
    BY DEF AcceptEvidence
  <2>2. /\ w \in Workflows /\ i \in Positions(w) /\ CallTask(c) = task /\ call[c].pc # "idle"
        /\ task \in Task /\ task.kind = "IMPLEMENT" /\ task.status = "RUNNING"
        /\ n = Len(task.attempts) /\ n # 0 /\ n \in 1 .. Len(task.attempts)
        /\ task.attempts[n] \in Attempt /\ task.attempts[n].status = "RUNNING"
        /\ task.attempts[n].provider = "devin" /\ task.attempts[n].output # "DISPATCHING"
        /\ Unattended(w, i)
    BY <2>1, ObservedIs
  <2>3. AcceptResult(c, task, n, revision) /\ RunsLast(c, n)
    BY <2>1, <2>2 DEF RunsLast
  <2> QED
    BY <2>2, <2>3, <1>RemoteAccept
(* The newest Windsurf attempt is the last, if that is one *)
<1>WindsurfIsLast.
  ASSUME NEW task \in Task, Len(task.attempts) \in 1 .. Len(task.attempts), LastAttempt(task).provider = "windsurf",
         NEW n \in {m \in DOMAIN task.attempts : task.attempts[m].provider = "windsurf"},
         \A m \in {k \in DOMAIN task.attempts : task.attempts[k].provider = "windsurf"} : m <= n
  PROVE  n = Len(task.attempts)
  <2> USE <1>WindsurfIsLast
  <2>1. DOMAIN task.attempts = 1 .. Len(task.attempts) /\ Len(task.attempts) \in Nat
    BY SMT DEF Task
  <2> USE <2>1
  <2>2. Len(task.attempts) \in {m \in DOMAIN task.attempts : task.attempts[m].provider = "windsurf"}
    BY DEF LastAttempt
  <2>3. Len(task.attempts) <= n /\ n \in 1 .. Len(task.attempts)
    BY <2>2
  <2> QED
    BY SMT, <2>3
(* submit_windsurf_evidence, its finalizing transaction *)
<1>RemoteFinalizeEvidence.
  ASSUME RInv, NEW c \in Calls, EvidenceFinalize(c)
  PROVE  RInv' /\ Kept
  <2> USE <1>RemoteFinalizeEvidence
  <2> DEFINE w == call[c].wf
             i == call[c].pos
             task == tasks[w][i]
             by_windsurf == {m \in DOMAIN task.attempts : task.attempts[m].provider = "windsurf"}
             revision == call[c].base
  <2>1. call[c].pc = "evidence" /\ call[c].pc # "idle" /\ HoldsClaim(c)
    BY DEF EvidenceFinalize
  <2> USE <2>1
  <2>2. /\ w \in Workflows /\ i \in Positions(w) /\ CallTask(c) = task
        /\ task \in Task /\ task.kind = "IMPLEMENT" /\ task.status = "RUNNING"
        /\ Len(task.attempts) # 0 /\ Len(task.attempts) \in 1 .. Len(task.attempts)
        /\ LastAttempt(task) \in Attempt /\ LastAttempt(task).status = "RUNNING"
        /\ LastAttempt(task).provider = "windsurf" /\ Unattended(w, i)
    BY ClaimIs
  <2> USE <2>2
  <2>3. PICK n \in by_windsurf : (\A m \in by_windsurf : m <= n) /\ AcceptResult(c, task, n, revision)
    BY DEF EvidenceFinalize
  <2>4. n = Len(task.attempts)
    BY <2>3, <1>WindsurfIsLast
  <2>5. revision \in Revisions
    <3>1. call[c] \in CallState /\ CallFits(c)
      BY CallFacts
    <3>2. revision # None
      BY <3>1 DEF CallFits
    <3> QED
      BY <3>1, <3>2 DEF CallState
  <2>6. RunsLast(c, n)
    BY <2>4 DEF LastAttempt, RunsLast
  <2> HIDE DEF by_windsurf, revision
  <2> QED
    BY <2>3, <2>5, <2>6, <1>RemoteAccept
<1> QED
  BY <1>RemoteSuccess, <1>RemoteAcceptEvidence, <1>RemoteFinalizeEvidence
-----------------------------------------------------------------------------
(* Handing a task over *)

(* The attempts with which a principal begins *)
HandedTo(principal, a) ==
  /\ a \in Attempt /\ a.status = "RUNNING"
  /\ \/ principal = DEVIN_PRINCIPAL /\ a.provider = "devin" /\ a.output = "DISPATCHING"
     \/ principal = WINDSURF_PRINCIPAL /\ a.provider = "windsurf" /\ a.output = "CLAIMED"

(* A queued implementation *)
Queued(w, i) ==
  tasks[w][i].kind = "IMPLEMENT" /\ tasks[w][i].status = "READY" /\ workflow[w].state = "IMPLEMENTING"

(* new is the task as a principal takes it over *)
TakenOver(old, new, principal, a) ==
  /\ new \in Task /\ new.kind = old.kind /\ new.status = "RUNNING" /\ new.lease_owner = principal
  /\ new.attempts = Append(old.attempts, a)

(* new has one attempt more than old, and it is a *)
OneMore(old, new, a) ==
  LastAttempt(new) = a /\ Len(new.attempts) = Len(old.attempts) + 1 /\ Len(new.attempts) # 0

(* What the call keeps that handed the task at i of w to a principal *)
Continues(k, w, i, principal) ==
  /\ k.wf = w /\ k.pos = i
  /\ \/ k.pc = "claimed"
     \/ k.pc = "submitting" /\ k.attempt = Len(tasks[w][i].attempts) + 1 /\ principal = DEVIN_PRINCIPAL

(* A task is handed to Devin or to Windsurf *)
LEMMA HandoffSteps ==
  RInv => \A c \in Calls : DispatchCommit(c) \/ ClaimCommit(c) => RInv' /\ Kept
(* A task is handed to a remote principal *)
<1>HandOverIs.
  ASSUME NEW task \in Task, NEW principal \in RemotePrincipal, NEW token \in Tokens, NEW attempt \in Attempt
  PROVE  TaskIs(HandOver(task, principal, token, attempt), task.kind, "RUNNING", principal, task.grant,
                Append(task.attempts, attempt))
  <2> USE <1>HandOverIs
  <2> DEFINE t1 == [task EXCEPT !.status = "RUNNING"]
             t2 == [t1 EXCEPT !.lease_owner = principal]
             t3 == [t2 EXCEPT !.lease_token = token]
             t4 == [t3 EXCEPT !.lease_left = LeaseTicks]
             attempts == Append(task.attempts, attempt)
  <2>1. HandOver(task, principal, token, attempt) = [t4 EXCEPT !.attempts = attempts]
    BY DEF HandOver, Task
  <2>2. TaskIs(t1, task.kind, "RUNNING", task.lease_owner, task.grant, task.attempts)
    BY StatusIs DEF TaskStatus
  <2> HIDE DEF t1
  <2>3. TaskIs(t2, task.kind, "RUNNING", principal, task.grant, task.attempts)
    BY <2>2, OwnerIs DEF TaskIs
  <2> HIDE DEF t2
  <2>4. TaskIs(t3, task.kind, "RUNNING", principal, task.grant, task.attempts)
    BY <2>3, TokenIs DEF TaskIs
  <2> HIDE DEF t3
  <2>5. TaskIs(t4, task.kind, "RUNNING", principal, task.grant, task.attempts)
    BY <2>4, LeftIs, LeaseRange DEF TaskIs
  <2> HIDE DEF t4
  <2>6. attempts \in Seq(Attempt)
    BY AppendToSeq DEF Task
  <2> HIDE DEF attempts
  <2>7. TaskIs([t4 EXCEPT !.attempts = attempts], t4.kind, t4.status, t4.lease_owner, t4.grant, attempts)
    BY <2>5, <2>6, AttemptsIs DEF TaskIs
  <2>8. TaskIs([t4 EXCEPT !.attempts = attempts], task.kind, "RUNNING", principal, task.grant, attempts)
    BY <2>5, <2>7 DEF TaskIs
  <2> QED
    BY <2>1, <2>8 DEF attempts
(* Nobody is at work on a queued task *)
<1>QueuedIsUnattended.
  ASSUME RInv, NEW w \in Workflows, NEW i \in Positions(w), tasks[w][i].kind = "IMPLEMENT", tasks[w][i].status = "READY"
  PROVE  Unattended(w, i)
  <2> USE <1>QueuedIsUnattended
  <2>1. ImplementFits(tasks[w][i])
    BY RemoteTask
  <2>2. Len(tasks[w][i].attempts) # 0 => tasks[w][i].attempts[Len(tasks[w][i].attempts)].status \notin OpenStatus
    BY <2>1 DEF ImplementFits, AttemptsFit, EndsIn, LastAttempt, OpenStatus
  <2>3. \A n : ~Dispatching(tasks[w][i], n) /\ ~WithDevin(tasks[w][i], n)
    BY <2>2 DEF Dispatching, WithDevin
  <2>4. ASSUME NEW d \in Calls, Pending(d), call[d].wf = w, call[d].pos = i PROVE FALSE
    BY <2>3, <2>4 DEF RInv, CallFits, Pending, CallTask
  <2>5. ASSUME NEW s \in DOMAIN session, session[s] = "running", s[1] = w, s[2] = i PROVE FALSE
    BY <2>3, <2>5 DEF RInv, SessionFits
  <2> QED
    BY <2>4, <2>5 DEF Unattended
<1>TakeOverMoves.
  ASSUME RInv, NEW w \in Workflows, NEW i \in Positions(w), Queued(w, i), NEW principal, NEW a, HandedTo(principal, a),
         NEW new, TakenOver(tasks[w][i], new, principal, a)
  PROVE  Moves(w, i, new, workflow[w]) /\ Undisturbed(tasks[w][i], new) /\ OneMore(tasks[w][i], new, a)
  <2> USE <1>TakeOverMoves
  <2> DEFINE task == tasks[w][i]
  <2>1. task.kind = "IMPLEMENT" /\ task.status \in {"READY", "LEASED"} /\ task.status \notin {"SUCCEEDED", "RECONCILED"}
    BY DEF Queued
  <2> USE <2>1
  <2>2. RowFits(workflow[w]) /\ task \in Task /\ ImplementFits(task)
    BY OpenTask
  <2>3. a \in Attempt /\ a.status = "RUNNING" /\ a.output # "SESSION"
    BY DEF HandedTo
  <2>4. /\ new \in Task /\ new.kind = task.kind /\ new.status = "RUNNING" /\ new.lease_owner = principal
        /\ new.attempts = Append(task.attempts, a)
    BY DEF TakenOver
  <2> USE <2>3, <2>4
  <2>5. /\ EarlierFailed(new) /\ Len(new.attempts) = Len(task.attempts) + 1 /\ Len(new.attempts) # 0
        /\ LastAttempt(new) = a /\ Undisturbed(task, new)
    BY <2>2, Appended
  <2> USE <2>5
  <2>6. AttemptsFit(new)
    BY DEF AttemptsFit, EndsIn
  <2>7. LeaseFits(new)
    BY
       DEF LeaseFits, HandedOver, HandedTo, DevinOutput, DEVIN_PRINCIPAL, WINDSURF_PRINCIPAL
  <2>8. GrantHeld(new)
    BY DEF GrantHeld, LiveStatus
  <2>9. Drives(workflow[w].state, new)
    <3>1. new.status \notin {"READY", "LEASED", "FAILED", "RECONCILED", "BLOCKED", "CANCELLED"}
      OBVIOUS
    <3> QED
      BY <3>1 DEF Drives, Queued
  <2>10. new.kind = "IMPLEMENT" /\ new.status # "SUCCEEDED"
    OBVIOUS
  <2>11. Moves(w, i, new, workflow[w])
    BY <2>2, <2>6, <2>7, <2>8, <2>9, <2>10 DEF Moves, ImplementFits
  <2> QED
    BY <2>11 DEF OneMore
<1>HandoffAttemptIs.
  ASSUME RInv, NEW w \in Workflows, NEW i \in Positions(w)
  PROVE  /\ HandedTo(DEVIN_PRINCIPAL, HandoffAttempt(w, "devin", "DISPATCHING"))
         /\ HandedTo(WINDSURF_PRINCIPAL, HandoffAttempt(w, "windsurf", "CLAIMED"))
  <2> USE <1>HandoffAttemptIs
  <2>1. workflow[w].candidate_revision \in Revisions \cup {None}
    BY RemoteTask DEF WorkflowRow
  <2>2. ASSUME NEW provider \in {"devin", "windsurf"}, NEW output \in {"DISPATCHING", "CLAIMED"}
        PROVE  LET a == HandoffAttempt(w, provider, output)
               IN a \in Attempt /\ a.status = "RUNNING" /\ a.provider = provider /\ a.output = output
    BY SMT, <2>1 DEF HandoffAttempt, Attempt, RemoteProvider, HandoffState
  <2> QED
    BY SMT, <2>2 DEF HandedTo
<1>HandoffTokenIs.
  ASSUME TokensLeft # {}
  PROVE  HandoffToken \in Tokens
  BY <1>HandoffTokenIs DEF HandoffToken, TokensLeft
(* A call hands the task over and goes on with k *)
<1>CallHandsOver.
  ASSUME RInv, NEW w \in Workflows, NEW i \in Positions(w), Queued(w, i), NEW principal, NEW a, HandedTo(principal, a),
         NEW new, TakenOver(tasks[w][i], new, principal, a), Puts(w, i, new, workflow[w]),
         NEW c \in Calls, NEW k, CallBecomes(c, k), Continues(k, w, i, principal), UNCHANGED <<worker, session>>
  PROVE  RInv' /\ Kept
  <2> USE <1>CallHandsOver
  <2> DEFINE task == tasks[w][i]
  <2>1. Moves(w, i, new, workflow[w]) /\ Undisturbed(task, new) /\ OneMore(task, new, a)
    BY <1>TakeOverMoves
  <2>2. Keeps(task, new) /\ NoNewSession(task, new)
    BY <2>1 DEF Undisturbed
  <2>3. new \in Task /\ Writes(w, i, new, PutTask(w, i, new), workflow[w])
    BY <2>1, MoveWrites
  <2>4. /\ workflow' \in [Workflows -> WorkflowRow \cup {None}] /\ tasks' \in [Workflows -> Seq(Task)]
        /\ \A v \in Workflows : WorkflowFits(workflow'[v], tasks'[v])
        /\ \A v \in Workflows : Len(tasks[v]) <= Len(tasks'[v])
        /\ tasks'[w] = PutTask(w, i, new) /\ tasks'[w][i] = new
        /\ \A v \in Workflows : \A j \in Positions(v) : v # w \/ j # i => tasks'[v][j] = tasks[v][j]
        /\ \A v \in Workflows : \A j \in Positions(v)' : j \notin Positions(v) => Len(tasks'[v][j].attempts) = 0
        /\ Keeps(task, new) => Kept
    BY <2>3, WritesKept
  <2>5. KnownIn(w, i, new)
    BY <2>2, NothingNew
  <2>6. Known(w, i)'
    BY <2>4, <2>5 DEF Known, KnownIn
  <2>7. Unattended(w, i)
    BY <1>QueuedIsUnattended DEF Queued
  <2>8. OthersUndisturbed(c, w, i, new)
    BY <2>7, NobodyDisturbed
  <2>9. call'[c] = k
    BY CallTable
  <2>10. i \in Positions(w)'
    <3>1. tasks'[w] \in Seq(Task) /\ Len(tasks[w]) <= Len(tasks'[w]) /\ i \in 1 .. Len(tasks[w]) /\ Len(tasks[w]) \in Nat
      BY <2>4, RemoteTask
    <3> QED
      BY SMT, <3>1 DEF Positions
  <2>11. CallTask(c)' = new /\ SessionOf(c)' = <<w, i, k.attempt>>
    BY <2>4, <2>9 DEF CallTask, SessionOf, Continues
  <2>12. new.kind = "IMPLEMENT"
    BY <2>1 DEF Moves
  <2>13. ASSUME k.pc = "submitting"
         PROVE  Dispatching(new, k.attempt) /\ <<w, i, k.attempt>> \notin DOMAIN session
    <3>1. k.attempt = Len(new.attempts) /\ k.attempt = Len(task.attempts) + 1 /\ principal = DEVIN_PRINCIPAL
      BY <2>1, <2>13 DEF Continues, OneMore
    <3> USE <3>1
    <3>2. a.status \in OpenStatus /\ a.output = "DISPATCHING"
      BY DEF HandedTo, OpenStatus, DEVIN_PRINCIPAL, WINDSURF_PRINCIPAL
    <3>3. Dispatching(new, k.attempt)
      BY <2>1, <3>2 DEF Dispatching, LastAttempt, OneMore
    <3>4. ASSUME NEW s \in DOMAIN session, s = <<w, i, k.attempt>> PROVE FALSE
      <4>1. s[1] = w /\ s[2] = i /\ s[3] = k.attempt
        BY SMT, <3>4
      <4>2. k.attempt \in 1 .. Len(task.attempts)
        BY <4>1 DEF RInv, SessionFits
      <4>3. Len(task.attempts) \in Nat
        BY RemoteTask
      <4> QED
        BY SMT, <4>2, <4>3
    <3> QED
      BY <3>3, <3>4
  <2>14. CallFits(c)'
    <3>1. k.pc = "claimed" \/ k.pc = "submitting"
      BY DEF Continues
    <3>2. k.wf = w /\ k.pos = i
      BY DEF Continues
    <3>3. CASE k.pc = "claimed"
      BY <2>9, <2>10, <2>11, <2>12, <3>2, <3>3 DEF CallFits, Pending
    <3>4. CASE k.pc = "submitting"
      BY <2>9, <2>10, <2>11, <2>12, <2>13, <3>2, <3>4 DEF CallFits, Pending
    <3> QED
      BY <3>1, <3>3, <3>4
  <2>15. \A d \in Calls : d # c /\ Pending(d) => SessionOf(d) # SessionOf(c)'
    <3>1. ASSUME NEW d \in Calls, Pending(d), SessionOf(d) = <<w, i, k.attempt>> PROVE FALSE
      <4>1. call[d].wf = w /\ call[d].pos = i
        BY SMT, <3>1 DEF SessionOf
      <4> QED
        BY <2>7, <3>1, <4>1 DEF Unattended
    <3> QED
      BY <2>11, <3>1
  <2> QED
    BY <2>2, <2>3, <2>6, <2>8, <2>14, <2>15, CallWrites DEF OthersUndisturbed
(* dispatch_devin_task, its second transaction *)
<1>RemoteDispatchCommit.
  ASSUME RInv, NEW c \in Calls, DispatchCommit(c)
  PROVE  RInv' /\ Kept
  <2> USE <1>RemoteDispatchCommit
  <2> DEFINE w == call[c].wf
             i == call[c].pos
             task == tasks[w][i]
             a == HandoffAttempt(w, "devin", "DISPATCHING")
             t == HandOver(task, DEVIN_PRINCIPAL, HandoffToken, a)
             new == DeactivateGrant(t)
             k == Stepped(call[c], "submitting")
  <2>1. /\ call[c].pc # "idle" /\ Queued(w, i) /\ Len(task.attempts) + 1 = call[c].attempt /\ TokensLeft # {}
        /\ UNCHANGED workflow /\ UNCHANGED <<worker, session>>
    BY DEF DispatchCommit, Dispatchable, Queued
  <2> USE <2>1
  <2>2. w \in Workflows /\ i \in Positions(w) /\ task \in Task /\ call[c] \in CallState
    BY CallFacts
  <2>3. tasks' = [tasks EXCEPT ![w] = PutTask(w, i, new)]
    BY DEF DispatchCommit, PutCallTask
  <2>4. call' = [call EXCEPT ![c] = k]
    BY DEF DispatchCommit, Stepped, RInv, RemoteTypeOK
  <2> USE <2>2
  <2>5. k \in CallState /\ k.pc = "submitting" /\ k.wf = w /\ k.pos = i /\ k.attempt = call[c].attempt
    BY SteppedIs
  <2> HIDE DEF k
  <2>6. CallBecomes(c, k) /\ Continues(k, w, i, DEVIN_PRINCIPAL)
    BY <2>4, <2>5 DEF CallBecomes, Continues
  <2>7. HandedTo(DEVIN_PRINCIPAL, a)
    BY <1>HandoffAttemptIs
  <2> HIDE DEF a
  <2>8. HandoffToken \in Tokens /\ DEVIN_PRINCIPAL \in RemotePrincipal /\ a \in Attempt
    BY <2>7, <1>HandoffTokenIs DEF DEVIN_PRINCIPAL, RemotePrincipal, HandedTo
  <2>9. TaskIs(t, task.kind, "RUNNING", DEVIN_PRINCIPAL, task.grant, Append(task.attempts, a))
    BY <2>8, <1>HandOverIs
  <2> HIDE DEF t
  <2>10. TaskIs(new, t.kind, t.status, t.lease_owner, "INACTIVE", t.attempts)
    BY <2>9, DeactivateGrantIs DEF TaskIs
  <2> HIDE DEF new
  <2>11. TakenOver(task, new, DEVIN_PRINCIPAL, a)
    BY <2>9, <2>10 DEF TaskIs, TakenOver
  <2>12. Puts(w, i, new, workflow[w])
    BY <2>3, SameRow DEF Puts
  <2> QED
    BY <2>6, <2>7, <2>11, <2>12, <1>CallHandsOver
(* claim_windsurf_task, its second transaction *)
<1>RemoteClaimCommit.
  ASSUME RInv, NEW c \in Calls, ClaimCommit(c)
  PROVE  RInv' /\ Kept
  <2> USE <1>RemoteClaimCommit
  <2> DEFINE w == call[c].wf
             i == call[c].pos
             task == tasks[w][i]
             a == HandoffAttempt(w, "windsurf", "CLAIMED")
             t == HandOver(task, WINDSURF_PRINCIPAL, HandoffToken, a)
             new == [t EXCEPT !.grant = "ACTIVE"]
             k1 == [call[c] EXCEPT !.pc = "claimed"]
             k == [k1 EXCEPT !.token = HandoffToken]
  <2>1. call[c].pc # "idle" /\ Queued(w, i) /\ TokensLeft # {} /\ UNCHANGED workflow /\ UNCHANGED <<worker, session>>
    BY DEF ClaimCommit, Claimable, Queued
  <2>2. w \in Workflows /\ i \in Positions(w) /\ task \in Task /\ call[c] \in CallState
    BY <2>1, CallFacts
  <2>3. tasks' = [tasks EXCEPT ![w] = PutTask(w, i, new)]
    BY DEF ClaimCommit, PutCallTask
  <2>4. call' = [call EXCEPT ![c] = k]
    BY DEF ClaimCommit, RInv, RemoteTypeOK
  <2> USE <2>2
  <2>5. HandedTo(WINDSURF_PRINCIPAL, a)
    BY <1>HandoffAttemptIs
  <2> HIDE DEF a
  <2>6. HandoffToken \in Tokens /\ WINDSURF_PRINCIPAL \in RemotePrincipal /\ a \in Attempt
    BY <2>1, <2>5, <1>HandoffTokenIs DEF WINDSURF_PRINCIPAL, RemotePrincipal, HandedTo
  <2>7. k1 \in CallState /\ k1.pc = "claimed" /\ k1.wf = w /\ k1.pos = i
    BY DEF CallState
  <2>8. k = [k1 EXCEPT !.token = HandoffToken]
    BY SMT
  <2> HIDE DEF k1
  <2>9. k \in CallState /\ k.pc = k1.pc /\ k.wf = k1.wf /\ k.pos = k1.pos
    BY SMT, <2>6, <2>7 DEF CallState
  <2> HIDE DEF k
  <2>10. CallBecomes(c, k) /\ Continues(k, w, i, WINDSURF_PRINCIPAL)
    BY <2>4, <2>7, <2>9 DEF CallBecomes, Continues
  <2>11. TaskIs(t, task.kind, "RUNNING", WINDSURF_PRINCIPAL, task.grant, Append(task.attempts, a))
    BY <2>6, <1>HandOverIs
  <2> HIDE DEF t
  <2>12. TaskIs(new, t.kind, t.status, t.lease_owner, "ACTIVE", t.attempts)
    BY <2>11, GrantIs DEF TaskIs
  <2> HIDE DEF new
  <2>13. TakenOver(task, new, WINDSURF_PRINCIPAL, a)
    BY <2>11, <2>12 DEF TaskIs, TakenOver
  <2>14. Puts(w, i, new, workflow[w])
    BY <2>1, <2>3, SameRow DEF Puts
  <2> QED
    BY <2>1, <2>5, <2>10, <2>13, <2>14, <1>CallHandsOver
<1> QED
  BY <1>RemoteDispatchCommit, <1>RemoteClaimCommit
-----------------------------------------------------------------------------
(* Every step *)

LEMMA RemoteWorkerStep ==
  ASSUME RInv, NEW p \in Workers, WorkerStep(p), UNCHANGED <<call, session>>,
         worker'[p].pc # "idle" => tasks[worker'[p].wf][worker'[p].pos].kind = "IMPLEMENT"
  PROVE  RInv' /\ Kept
<1>1. ASSUME NEW swept \in SUBSET ExpiredTasks, ReclaimExpiredTasks(p, swept) PROVE RInv' /\ Kept
  BY <1>1, SweepSteps
<1>2. ASSUME NEW w \in Workflows, NEW i \in Positions(w), LeaseNextTask(p, w, i) PROVE RInv' /\ Kept
  <2> DEFINE k == [pc |-> "leased", wf |-> w, pos |-> i, token |-> FreshToken, attempt |-> 0]
  <2>1. worker' = [worker EXCEPT ![p] = k]
    BY <1>2 DEF LeaseNextTask
  <2>2. k.pc = "leased" /\ k.wf = w /\ k.pos = i
    OBVIOUS
  <2> HIDE DEF k
  <2>3. p \in DOMAIN worker
    BY DEF RInv, RemoteTypeOK, TypeOK
  <2>4. worker'[p] = k
    BY <2>1, <2>3
  <2>5. tasks[w][i].kind = "IMPLEMENT"
    BY <2>2, <2>4
  <2> QED
    BY <1>2, <2>5, TakeUpSteps
<1>3. ASSUME NEW provider \in Providers, PrepareExecution(p, provider) PROVE RInv' /\ Kept
  BY <1>3, TakeUpSteps
<1>4. CASE RoutingBlocked(p)
  BY <1>4, RemoteRoutingBlocked
<1>5. CASE PrepareRefused(p)
  BY <1>5, RemoteForget DEF PrepareRefused
<1>6. CASE HeartbeatTask(p)
  BY <1>6, LeaseSteps
<1>7. ASSUME NEW revision \in Revisions, NEW size \in OutputSizes, FinalizeExecutionSuccess(p, revision, size)
      PROVE  RInv' /\ Kept
  BY <1>7, ResultSteps
<1>8. ASSUME NEW error \in RunErrors, FinalizeExecutionFailure(p, error) PROVE RInv' /\ Kept
  BY <1>8, FailureSteps
<1>9. CASE FinalizeRefused(p)
  BY <1>9, RemoteForget DEF FinalizeRefused
<1> QED
  BY <1>1, <1>2, <1>3, <1>4, <1>5, <1>6, <1>7, <1>8, <1>9 DEF WorkerStep

LEMMA RemoteHumanStep ==
  ASSUME RInv, NEW w \in Workflows, HumanStep(w), UNCHANGED <<call, session>>
  PROVE  RInv' /\ Kept
<1>1. ASSUME NEW i \in Positions(w), NEW decision \in {"RETRY", "FAIL"}, ReconcileExecution(w, i, decision)
      PROVE  RInv' /\ Kept
  BY <1>1, ReconcileSteps
<1>2. CASE CancelWorkflow(w)
  BY <1>2, SweepSteps
<1> QED
  BY <1>1, <1>2, RemoteHumans DEF HumanStep

LEMMA RemoteEngineStep ==
  ASSUME RInv, EngineStep
  PROVE  RInv' /\ Kept
<1>0. UNCHANGED <<call, session>>
  BY DEF EngineStep
<1> USE <1>0
<1>1. ASSUME NEW p \in Workers, WorkerStep(p) PROVE RInv' /\ Kept
  <2>1. worker'[p].pc # "idle" => tasks[worker'[p].wf][worker'[p].pos].kind = "IMPLEMENT"
    BY DEF EngineStep
  <2> QED
    BY <1>1, <2>1, RemoteWorkerStep
<1>2. ASSUME NEW p \in Workers, Crash(p) PROVE RInv' /\ Kept
  BY <1>2, RemoteForget DEF Crash
<1>3. ASSUME NEW w \in Workflows, HumanStep(w) PROVE RInv' /\ Kept
  BY <1>3, RemoteHumanStep
<1>4. ASSUME NEW w \in Workflows, NEW i \in Positions(w), LeaseTick(w, i) PROVE RInv' /\ Kept
  BY <1>4, LeaseSteps
<1>5. ASSUME NEW w \in Workflows, NEW i \in Positions(w),
             tasks[w][i].lease_owner # WINDSURF_PRINCIPAL, GrantExpires(w, i)
      PROVE  RInv' /\ Kept
  BY <1>5, SweepSteps
<1> QED
  BY <1>1, <1>2, <1>3, <1>4, <1>5 DEF EngineStep

LEMMA RemoteDevinStep ==
  ASSUME RInv, NEW c \in Calls, DevinStep(c)
  PROVE  RInv' /\ Kept
<1>1. ASSUME NEW w \in Workflows, NEW i \in Positions(w),
             DispatchRead(c, w, i) \/ SyncDevinTask(c, w, i) \/ CancelDevinTask(c, w, i)
      PROVE  RInv' /\ Kept
  BY <1>1, ReadSteps, PollSteps
<1>2. CASE DispatchCommit(c)
  BY <1>2, HandoffSteps
<1>3. ASSUME NEW answered \in BOOLEAN, SubmitReaches(c, answered) PROVE RInv' /\ Kept
  BY <1>3, SubmitSteps
<1>4. CASE SubmitLost(c)
  BY <1>4, SubmitSteps
<1>5. CASE RecordSession(c)
  BY <1>5, DispatchSteps
<1>6. CASE MarkDispatchUnknown(c)
  BY <1>6, DispatchSteps
<1>7. CASE RecordObservation(c)
  BY <1>7, LeaseSteps
<1>8. ASSUME NEW error \in ErrorCodes, ReleaseUndispatched(c, error) \/ FailAttempt(c, error)
      PROVE  RInv' /\ Kept
  BY <1>8, DispatchSteps, FailureSteps
<1>9. ASSUME NEW revision \in Revisions, AcceptEvidence(c, revision) PROVE RInv' /\ Kept
  BY <1>9, ResultSteps
<1> QED
  BY <1>1, <1>2, <1>3, <1>4, <1>5, <1>6, <1>7, <1>8, <1>9 DEF DevinStep

LEMMA RemoteWindsurfStep ==
  ASSUME RInv, NEW c \in Calls, WindsurfStep(c)
  PROVE  RInv' /\ Kept
<1>1. ASSUME NEW w \in Workflows, NEW i \in Positions(w), ClaimRead(c, w, i) \/ ExistingClaim(c, w, i)
      PROVE  RInv' /\ Kept
  BY <1>1, ReadSteps
<1>2. CASE ClaimCommit(c)
  BY <1>2, HandoffSteps
<1>3. CASE HeartbeatWindsurf(c)
  BY <1>3, LeaseSteps
<1>4. ASSUME NEW revision \in Revisions, EvidenceRead(c, revision) PROVE RInv' /\ Kept
  BY <1>4, ReadSteps
<1>5. CASE EvidenceFinalize(c)
  BY <1>5, ResultSteps
<1> QED
  BY <1>1, <1>2, <1>3, <1>4, <1>5 DEF WindsurfStep

LEMMA RemoteStutters ==
  ASSUME RInv, UNCHANGED remoteVars
  PROVE  RInv' /\ Kept
<1>0. UNCHANGED <<workflow, tasks, worker, call, session>>
  BY DEF remoteVars
<1> USE <1>0
<1>1. \A w \in Workflows : Len(tasks[w]) <= Len(tasks'[w])
  BY SMT DEF RInv, RemoteTypeOK, TypeOK
<1>2. \A w \in Workflows : \A i \in Positions(w) : Keeps(tasks[w][i], tasks'[w][i])
  BY RemoteTask, Untouched DEF Undisturbed
<1>3. Kept
  BY <1>1, <1>2 DEF Kept
<1>4. RInv'
  BY DEF RInv, RemoteTypeOK, TypeOK, WorkerFits, CallFits, OneDispatch, SessionFits, Known, Positions,
       HeldTask, CallTask, SessionOf, Pending, ObservedFits
<1> QED
  BY <1>3, <1>4

LEMMA NextRInv == RInv /\ [RemoteNext]_remoteVars => RInv' /\ Kept
<1> SUFFICES ASSUME RInv, [RemoteNext]_remoteVars PROVE RInv' /\ Kept
  OBVIOUS
<1>1. CASE EngineStep
  BY <1>1, RemoteEngineStep
<1>2. ASSUME NEW c \in Calls, DevinStep(c) \/ WindsurfStep(c) \/ CallEnds(c) PROVE RInv' /\ Kept
  BY <1>2, RemoteDevinStep, RemoteWindsurfStep, ReadSteps
<1>3. ASSUME NEW s \in DOMAIN session, NEW status \in {"finished", "ended"}, SessionStops(s, status)
      PROVE  RInv' /\ Kept
  BY <1>3, RemoteSessionStops
<1>4. CASE UNCHANGED remoteVars
  BY <1>4, RemoteStutters
<1> QED
  BY <1>1, <1>2, <1>3, <1>4 DEF RemoteNext
-----------------------------------------------------------------------------
(* The theorems *)

(* In every behaviour of the engine with both integrations, for any number   *)
(* of workflows, workers and calls, rows, tasks, calls and sessions stay     *)
(* consistent.                                                               *)
THEOREM RemoteInductive == RemoteSpec => []RInv
<1>1. RemoteInit => RInv
  BY InitRemote
<1>2. RInv /\ [RemoteNext]_remoteVars => RInv'
  BY NextRInv
<1>3. QED
  BY <1>1, <1>2, PTL DEF RemoteSpec

(* Every row, call and session keeps its type under both integrations, the   *)
(* leases that remote calls renew included.                                  *)
THEOREM RemoteTypeCorrect == RemoteSpec => []RemoteTypeOK
<1>1. RInv => RemoteTypeOK
  BY DEF RInv
<1>2. QED
  BY <1>1, RemoteInductive, PTL

(* A paid session is never repeated blindly: while a Devin session runs,     *)
(* nobody can begin another attempt of its workflow, unless a human has      *)
(* recorded RETRY for its attempt.                                           *)
THEOREM RunningSessionsAreExclusive == RemoteSpec => []RunningSessionIsExclusive
BY RemoteInductive, InvariantSays, PTL

(* Authority ends with the task, and only an implementation that Devin gave  *)
(* back is queued without a grant.                                           *)
THEOREM GrantsOnlyForLiveTasks == RemoteSpec => []GrantOnlyForLiveTask
BY RemoteInductive, InvariantSays, PTL

(* An outcome stands: what a late call commits changes neither the status    *)
(* nor the error nor the artifact of an attempt that has ended.              *)
THEOREM OutcomesStand == RemoteSpec => OutcomeStands
<1> DEFINE Stands ==
      \A w \in Workflows : \A i \in Positions(w) : \A n \in DOMAIN tasks[w][i].attempts :
        LET old == tasks[w][i].attempts[n]
            new == tasks'[w][i].attempts[n]
        IN old.status # "RUNNING" =>
             new.status = old.status /\ new.error_code = old.error_code /\ new.artifact = old.artifact
<1>1. ASSUME RInv, [RemoteNext]_remoteVars PROVE Stands
  <2>1. Kept
    BY <1>1, NextRInv
  <2>2. \A w \in Workflows : \A i \in Positions(w) : DOMAIN tasks[w][i].attempts = 1 .. Len(tasks[w][i].attempts)
    <3> TAKE w \in Workflows
    <3> TAKE i \in Positions(w)
    <3>1. tasks[w][i].attempts \in Seq(Attempt)
      BY <1>1, RemoteTask
    <3> QED
      BY SMT, <3>1
  <2> QED
    BY <2>1, <2>2 DEF Kept, Keeps
<1>2. RInv /\ [RemoteNext]_remoteVars => [Stands]_remoteVars
  BY <1>1
<1>3. QED
  BY <1>2, RemoteInductive, PTL DEF RemoteSpec, OutcomeStands

(* One result is accepted: at most one attempt at the implementation ever    *)
(* succeeds, it belongs to the task scheduled last, and the candidate is     *)
(* what it produced, however many workers, clients and sessions worked on it.*)
THEOREM OneResult == RemoteSpec => []OneResultAccepted
BY RemoteInductive, InvariantSays, PTL

=============================================================================
