---------------------------- MODULE RemoteAgents ----------------------------
(***************************************************************************)
(* DevinIntegrationService and WindsurfIntegrationService composed with    *)
(* the task engine: an implementation task that a human hands to a Devin   *)
(* session or a Windsurf client claims, instead of a worker.               *)
(*                                                                         *)
(* A call of either service is a process of its own: each of its           *)
(* transactions is one action, and between them it talks to Git or to the  *)
(* Devin API while workers sweep, humans cancel and other calls commit.    *)
(* A call that raises, like one whose process dies, simply ends; what its  *)
(* transactions have committed stays.                                      *)
(***************************************************************************)
EXTENDS WorkflowTasks, TLC

CONSTANTS
  Calls,              \* API and MCP requests being served
  MaxHandoffs         \* bound: attempts of a task that a dispatch may begin (a released one is not counted by max_attempts)

(* Plan and architecture review have been done by a provider *)
ASSUME ProvidersAssumption == Providers # {}

VARIABLES
  call,               \* what each request holds in memory between its transactions
  session             \* Devin's sessions: <<workflow, position, attempt number>> |-> status

remoteVars == <<workflow, tasks, worker, call, session>>

DEVIN_PRINCIPAL == "devin-remote"

WINDSURF_PRINCIPAL == "windsurf-cascade"

CallState ==
  [pc      : {"idle", "handoff", "submitting", "submitted", "unclear", "observed",
              "claiming", "claimed", "evidence"},
   wf      : Workflows \cup {None},
   pos     : Nat,
   attempt : Nat,
   base    : Revisions \cup {None},    \* the candidate the hand-off was prepared from, or the result
   token   : Tokens \cup {None},
   seen    : {"NULL", "IN_FLIGHT", "SUCCEEDED", "ENDED"}]

NoCall ==
  [pc |-> "idle", wf |-> None, pos |-> 0, attempt |-> 0, base |-> None, token |-> None, seen |-> "NULL"]

(* poll with _map_state: a session that still works or waits, one that has   *)
(* finished its work, one that failed or was terminated                      *)
Observe(status) ==
  CASE status = "running"  -> "IN_FLIGHT"
    [] status = "finished" -> "SUCCEEDED"
    [] status = "ended"    -> "ENDED"

CallTask(c) == tasks[call[c].wf][call[c].pos]

SessionOf(c) == <<call[c].wf, call[c].pos, call[c].attempt>>

(* uuid4(): a token that no row, worker or client holds *)
TokensLeft == Tokens \ (TokensInUse \cup {call[c].token : c \in Calls})

HandoffToken == CHOOSE token \in Tokens : token \in TokensLeft

(* Writing the task a call works on *)
PutCallTask(c, task) == [tasks EXCEPT ![call[c].wf] = PutTask(call[c].wf, call[c].pos, task)]

(* The attempt a hand-off begins with *)
HandoffAttempt(w, provider, output) ==
  [status |-> "RUNNING", error_code |-> None, provider |-> provider,
   examined |-> workflow[w].candidate_revision, artifact |-> None,
   output |-> output, reconciliation |-> "NULL"]

(* The task is handed to a remote principal: RUNNING under its lease *)
HandOver(task, principal, token, attempt) ==
  [task EXCEPT !.status = "RUNNING", !.lease_owner = principal, !.lease_token = token,
               !.lease_left = LeaseTicks, !.attempts = Append(@, attempt)]

(* Mutant: the principal's grant outlives the result *)
AcceptResultKeepsGrant(c, task, n, revision) ==
  LET w == call[c].wf
      row == [workflow[w] EXCEPT !.candidate_revision = revision]
      done == [task EXCEPT !.status = "SUCCEEDED",
                           !.attempts[n] = [@ EXCEPT !.status = "SUCCEEDED", !.artifact = revision,
                                                     !.output = "FITS"]]
  IN /\ workflow[w].state = "IMPLEMENTING"
     /\ workflow' = [workflow EXCEPT ![w] = AdvanceRow(row, "IMPLEMENT")]
     /\ tasks' = [tasks EXCEPT ![w] = PutTask(w, call[c].pos, ClearLease(done)) \o FollowingTasks("IMPLEMENT")]
     /\ call' = [call EXCEPT ![c] = NoCall]
     /\ UNCHANGED <<worker, session>>

(* The end of both integrations' evidence transactions: attempt and task      *)
(* succeed, the result becomes the candidate, and _advance_after_task         *)
AcceptResult(c, task, n, revision) ==
  LET w == call[c].wf
      row == [workflow[w] EXCEPT !.candidate_revision = revision]
      done == [task EXCEPT !.status = "SUCCEEDED",
                           !.attempts[n] = [@ EXCEPT !.status = "SUCCEEDED", !.artifact = revision,
                                                     !.output = "FITS"]]
  IN /\ workflow[w].state = "IMPLEMENTING"
     /\ AdvanceAllowed(row, "IMPLEMENT")
     /\ workflow' = [workflow EXCEPT ![w] = AdvanceRow(row, "IMPLEMENT")]
     /\ tasks' = [tasks EXCEPT ![w] = PutTask(w, call[c].pos, DeactivateGrant(ClearLease(done)))
                                        \o FollowingTasks("IMPLEMENT")]
     /\ call' = [call EXCEPT ![c] = NoCall]
     /\ UNCHANGED <<worker, session>>
-----------------------------------------------------------------------------
(* Devin *)

(* _validate_dispatchable *)
Dispatchable(w, i) ==
  /\ tasks[w][i].kind = "IMPLEMENT"
  /\ tasks[w][i].status = "READY"
  /\ workflow[w].state = "IMPLEMENTING"
  /\ ~workflow[w].containment_required

(* dispatch_devin_task, its first transaction: what the hand-off is built    *)
(* from.  The branch devin/task-<id>-a<n> of a new attempt number is free.   *)
DispatchRead(c, w, i) ==
  /\ call[c].pc = "idle"
  /\ Dispatchable(w, i)
  /\ Len(tasks[w][i].attempts) < MaxHandoffs
  /\ call' = [call EXCEPT ![c] = [NoCall EXCEPT !.pc = "handoff", !.wf = w, !.pos = i,
                !.attempt = Len(tasks[w][i].attempts) + 1, !.base = workflow[w].candidate_revision]]
  /\ UNCHANGED <<workflow, tasks, worker, session>>

(* dispatch_devin_task, its second: the intent is committed before contact *)
DispatchCommit(c) ==
  LET w == call[c].wf
      i == call[c].pos
  IN /\ call[c].pc = "handoff"
     /\ Dispatchable(w, i)
     /\ workflow[w].candidate_revision = call[c].base
     /\ Len(tasks[w][i].attempts) + 1 = call[c].attempt
     /\ TokensLeft # {}
     /\ tasks' = PutCallTask(c, DeactivateGrant(HandOver(tasks[w][i], DEVIN_PRINCIPAL, HandoffToken,
                                                         HandoffAttempt(w, "devin", "DISPATCHING"))))
     /\ call' = [call EXCEPT ![c].pc = "submitting"]
     /\ UNCHANGED <<workflow, worker, session>>

(* Mutant: the release does not ask who holds the lease *)
ReleaseUnguarded(c, error) ==
  LET task == CallTask(c)
      n == call[c].attempt
      closed == [task EXCEPT !.attempts[n] = [@ EXCEPT !.status = "FAILED", !.error_code = error,
                                                       !.output = "NOT_DISPATCHED"]]
  IN /\ call[c].pc = "submitting"
     /\ tasks' = PutCallTask(c, ClearLease([closed EXCEPT !.status = "READY"]))
     /\ call' = [call EXCEPT ![c] = NoCall]
     /\ UNCHANGED <<workflow, worker, session>>

(* submit refuses before any request leaves the process, and                 *)
(* _release_undispatched: the task is READY again, its grant is not restored *)
ReleaseUndispatched(c, error) ==
  LET task == CallTask(c)
      n == call[c].attempt
      closed == [task EXCEPT !.attempts[n] = [@ EXCEPT !.status = "FAILED", !.error_code = error,
                                                       !.output = "NOT_DISPATCHED"]]
  IN /\ call[c].pc = "submitting"
     /\ tasks' = IF task.lease_owner # DEVIN_PRINCIPAL THEN tasks
                 ELSE PutCallTask(c, ClearLease([closed EXCEPT !.status = "READY"]))
     /\ call' = [call EXCEPT ![c] = NoCall]
     /\ UNCHANGED <<workflow, worker, session>>

(* The request reaches Devin, which creates a session; the answer arrives, or *)
(* is lost, times out or cannot be read                                       *)
SubmitReaches(c, answered) ==
  /\ call[c].pc = "submitting"
  /\ session' = [s \in DOMAIN session \cup {SessionOf(c)} |->
                   IF s = SessionOf(c) THEN "running" ELSE session[s]]
  /\ call' = [call EXCEPT ![c].pc = IF answered THEN "submitted" ELSE "unclear"]
  /\ UNCHANGED <<workflow, tasks, worker>>

(* The request fails on its way or is refused by Devin: the caller cannot tell *)
SubmitLost(c) ==
  /\ call[c].pc = "submitting"
  /\ call' = [call EXCEPT ![c].pc = "unclear"]
  /\ UNCHANGED <<workflow, tasks, worker, session>>

(* The newest Devin attempt of a task; 0 if there is none *)
DevinAttempt(task) ==
  LET by_devin == {n \in DOMAIN task.attempts : task.attempts[n].provider = "devin"}
  IN IF by_devin = {} THEN 0 ELSE CHOOSE n \in by_devin : \A m \in by_devin : m <= n

(* dispatch_devin_task, its last transaction: the session id is recorded,     *)
(* whatever has become of the task since                                      *)
RecordSession(c) ==
  /\ call[c].pc = "submitted"
  /\ DevinAttempt(CallTask(c)) = call[c].attempt
  /\ tasks' = PutCallTask(c, [CallTask(c) EXCEPT !.attempts[call[c].attempt].output = "SESSION"])
  /\ call' = [call EXCEPT ![c] = NoCall]
  /\ UNCHANGED <<workflow, worker, session>>

(* Mutant: an unclear dispatch is released like a refused one *)
UnknownReleased(c) ==
  LET task == CallTask(c)
      closed == [task EXCEPT !.attempts[call[c].attempt] = [@ EXCEPT !.status = "FAILED"]]
  IN /\ call[c].pc = "unclear"
     /\ tasks' = IF task.lease_owner # DEVIN_PRINCIPAL THEN tasks
                 ELSE PutCallTask(c, ClearLease([closed EXCEPT !.status = "READY"]))
     /\ call' = [call EXCEPT ![c] = NoCall]
     /\ UNCHANGED <<workflow, worker, session>>

(* _mark_dispatch_unknown: the lease expires at once *)
MarkDispatchUnknown(c) ==
  LET task == CallTask(c)
  IN /\ call[c].pc = "unclear"
     /\ tasks' = IF task.lease_owner # DEVIN_PRINCIPAL THEN tasks
                 ELSE PutCallTask(c, [task EXCEPT !.lease_left = 0,
                        !.attempts[call[c].attempt].output = "DISPATCH_OUTCOME_UNKNOWN"])
     /\ call' = [call EXCEPT ![c] = NoCall]
     /\ UNCHANGED <<workflow, worker, session>>

(* _require_running *)
RequireRunning(task) ==
  task.status = "RUNNING" /\ task.lease_owner = DEVIN_PRINCIPAL /\ task.lease_left > 0

(* The reading transaction of sync_devin_task and cancel_devin_task: a        *)
(* running task whose session is confirmed (_handle)                          *)
HasSession(w, i) ==
  LET n == DevinAttempt(tasks[w][i])
  IN RequireRunning(tasks[w][i]) /\ n # 0 /\ tasks[w][i].attempts[n].output = "SESSION"

Observing(w, i, seen) ==
  [NoCall EXCEPT !.pc = "observed", !.wf = w, !.pos = i, !.attempt = DevinAttempt(tasks[w][i]), !.seen = seen]

(* sync_devin_task up to the poll *)
SyncDevinTask(c, w, i) ==
  /\ call[c].pc = "idle"
  /\ HasSession(w, i)
  /\ call' = [call EXCEPT ![c] = Observing(w, i, Observe(session[<<w, i, DevinAttempt(tasks[w][i])>>]))]
  /\ UNCHANGED <<workflow, tasks, worker, session>>

(* cancel_devin_task up to Devin's confirmation *)
CancelDevinTask(c, w, i) ==
  /\ call[c].pc = "idle"
  /\ HasSession(w, i)
  /\ session' = [session EXCEPT ![<<w, i, DevinAttempt(tasks[w][i])>>] = "ended"]
  /\ call' = [call EXCEPT ![c] = Observing(w, i, "ENDED")]
  /\ UNCHANGED <<workflow, tasks, worker>>

(* What every transaction after a poll checks *)
StillObserved(c) ==
  /\ call[c].pc = "observed"
  /\ DevinAttempt(CallTask(c)) = call[c].attempt
  /\ RequireRunning(CallTask(c))

(* Mutant: the renewal adds to what is left of the lease *)
RecordObservationAdds(c) ==
  /\ StillObserved(c)
  /\ call[c].seen = "IN_FLIGHT"
  /\ tasks' = PutCallTask(c, [CallTask(c) EXCEPT !.lease_left = @ + LeaseTicks])
  /\ call' = [call EXCEPT ![c] = NoCall]
  /\ UNCHANGED <<workflow, worker, session>>

(* _record_observation: the session is in flight and the lease renewed *)
RecordObservation(c) ==
  /\ StillObserved(c)
  /\ call[c].seen = "IN_FLIGHT"
  /\ tasks' = PutCallTask(c, [CallTask(c) EXCEPT !.lease_left = LeaseTicks])
  /\ call' = [call EXCEPT ![c] = NoCall]
  /\ UNCHANGED <<workflow, worker, session>>

(* _fail_attempt with _record_attempt_failure, for a session that ended or    *)
(* whose evidence is rejected.  A retry finds its grant deactivated.          *)
FailAttempt(c, error) ==
  LET w == call[c].wf
      task == CallTask(c)
      failed == ClearLease([task EXCEPT !.attempts[call[c].attempt] =
                              [@ EXCEPT !.status = "FAILED", !.error_code = error]])
  IN /\ StillObserved(c)
     /\ call[c].seen \in {"SUCCEEDED", "ENDED"}
     /\ \/ /\ Retrying(call[c].attempt, error)
           /\ tasks' = PutCallTask(c, [failed EXCEPT !.status = "READY"])
           /\ UNCHANGED workflow
        \/ /\ ~Retrying(call[c].attempt, error)
           /\ TransitionAllowed(workflow[w].state, "FAILED")
           /\ tasks' = PutCallTask(c, DeactivateGrant([failed EXCEPT !.status = "FAILED"]))
           /\ workflow' = [workflow EXCEPT ![w] = Transition(@, "FAILED")]
     /\ call' = [call EXCEPT ![c] = NoCall]
     /\ UNCHANGED <<worker, session>>

(* _accept_evidence, for a branch that _fetch and _verify found to be the     *)
(* claimed revision                                                           *)
AcceptEvidence(c, revision) ==
  /\ StillObserved(c)
  /\ call[c].seen = "SUCCEEDED"
  /\ AcceptResult(c, CallTask(c), call[c].attempt, revision)

(* Devin works on its own: a session finishes, fails or is terminated *)
SessionStops(s, status) ==
  /\ session[s] = "running"
  /\ session' = [session EXCEPT ![s] = status]
  /\ UNCHANGED <<workflow, tasks, worker, call>>
-----------------------------------------------------------------------------
(* Windsurf: one MCP principal, whose client may be served by several calls *)

(* _validate_windsurf_claimable *)
Claimable(w, i) ==
  /\ tasks[w][i].kind = "IMPLEMENT"
  /\ tasks[w][i].status = "READY"
  /\ workflow[w].state = "IMPLEMENTING"

(* claim_windsurf_task, its first transaction *)
ClaimRead(c, w, i) ==
  /\ call[c].pc = "idle"
  /\ Claimable(w, i)
  /\ call' = [call EXCEPT ![c] = [NoCall EXCEPT !.pc = "claiming", !.wf = w, !.pos = i,
                                                !.base = workflow[w].candidate_revision]]
  /\ UNCHANGED <<workflow, tasks, worker, session>>

(* _existing_windsurf_claim, in either transaction: the claim is returned as it is *)
ExistingClaim(c, w, i) ==
  LET task == tasks[w][i]
  IN /\ call[c].pc = "idle" \/ (call[c].pc = "claiming" /\ call[c].wf = w /\ call[c].pos = i)
     /\ task.status = "RUNNING" /\ task.lease_owner = WINDSURF_PRINCIPAL /\ task.lease_left > 0
     /\ call' = [call EXCEPT ![c] = [NoCall EXCEPT !.pc = "claimed", !.wf = w, !.pos = i,
                                                   !.token = task.lease_token]]
     /\ UNCHANGED <<workflow, tasks, worker, session>>

(* claim_windsurf_task, its second: the agent's grant is replaced by one that *)
(* expires with the lease of the Windsurf principal                           *)
ClaimCommit(c) ==
  LET w == call[c].wf
      i == call[c].pos
  IN /\ call[c].pc = "claiming"
     /\ Claimable(w, i)
     /\ workflow[w].candidate_revision = call[c].base
     /\ TokensLeft # {}
     /\ tasks' = PutCallTask(c, [HandOver(tasks[w][i], WINDSURF_PRINCIPAL, HandoffToken,
                                   HandoffAttempt(w, "windsurf", "CLAIMED")) EXCEPT !.grant = "ACTIVE"])
     /\ call' = [call EXCEPT ![c].pc = "claimed", ![c].token = HandoffToken]
     /\ UNCHANGED <<workflow, worker, session>>

(* authorize on the principal's grant and _validate_running_lease *)
HoldsClaim(c) ==
  LET task == CallTask(c)
  IN /\ task.status = "RUNNING"
     /\ task.lease_owner = WINDSURF_PRINCIPAL
     /\ task.lease_token = call[c].token
     /\ task.lease_left > 0
     /\ task.grant = "ACTIVE"

(* heartbeat_windsurf_task *)
HeartbeatWindsurf(c) ==
  /\ call[c].pc = "claimed"
  /\ HoldsClaim(c)
  /\ tasks' = PutCallTask(c, [CallTask(c) EXCEPT !.lease_left = LeaseTicks])
  /\ UNCHANGED <<workflow, worker, call, session>>

(* submit_windsurf_evidence up to the Git verification of the revision *)
EvidenceRead(c, revision) ==
  /\ call[c].pc = "claimed"
  /\ HoldsClaim(c) \/ CallTask(c).status = "SUCCEEDED"
  /\ call' = [call EXCEPT ![c].pc = "evidence", ![c].base = revision]
  /\ UNCHANGED <<workflow, tasks, worker, session>>

(* Mutant: the finalizing transaction trusts the checks of the reading one *)
EvidenceUnchecked(c) ==
  /\ call[c].pc = "evidence"
  /\ AcceptResult(c, CallTask(c), Len(CallTask(c).attempts), call[c].base)

(* submit_windsurf_evidence, its finalizing transaction.  For a task that     *)
(* already has evidence the call returns or raises and changes nothing.       *)
EvidenceFinalize(c) ==
  LET by_windsurf == {n \in DOMAIN CallTask(c).attempts : CallTask(c).attempts[n].provider = "windsurf"}
  IN /\ call[c].pc = "evidence"
     /\ HoldsClaim(c)
     /\ \E n \in by_windsurf : /\ \A m \in by_windsurf : m <= n
                               /\ AcceptResult(c, CallTask(c), n, call[c].base)
-----------------------------------------------------------------------------
(* A call raises, returns without a write, or dies with its process *)
CallEnds(c) ==
  /\ call[c].pc # "idle"
  /\ call' = [call EXCEPT ![c] = NoCall]
  /\ UNCHANGED <<workflow, tasks, worker, session>>

DevinStep(c) ==
  \/ \E w \in Workflows : \E i \in Positions(w) :
       DispatchRead(c, w, i) \/ SyncDevinTask(c, w, i) \/ CancelDevinTask(c, w, i)
  \/ DispatchCommit(c)
  \/ \E answered \in BOOLEAN : SubmitReaches(c, answered)
  \/ SubmitLost(c)
  \/ RecordSession(c)
  \/ MarkDispatchUnknown(c)
  \/ RecordObservation(c)
  \/ \E error \in ErrorCodes : ReleaseUndispatched(c, error) \/ FailAttempt(c, error)
  \/ \E revision \in Revisions : AcceptEvidence(c, revision)

WindsurfStep(c) ==
  \/ \E w \in Workflows : \E i \in Positions(w) : ClaimRead(c, w, i) \/ ExistingClaim(c, w, i)
  \/ ClaimCommit(c)
  \/ HeartbeatWindsurf(c)
  \/ \E revision \in Revisions : EvidenceRead(c, revision)
  \/ EvidenceFinalize(c)

(* The engine's own steps while a workflow is being implemented: workers      *)
(* leave the tasks of the later stages, which no remote agent touches, to     *)
(* WorkflowTasks.  Windsurf's grant has no clock of its own.                  *)
EngineStep ==
  /\ \/ \E p \in Workers : WorkerStep(p) \/ Crash(p)
     \/ \E w \in Workflows : HumanStep(w)
     \/ \E w \in Workflows : \E i \in Positions(w) :
          LeaseTick(w, i) \/ (tasks[w][i].lease_owner # WINDSURF_PRINCIPAL /\ GrantExpires(w, i))
  /\ \A p \in Workers : worker'[p].pc # "idle" => tasks[worker'[p].wf][worker'[p].pos].kind = "IMPLEMENT"
  /\ UNCHANGED <<call, session>>

(* Workflows whose plan and architecture review have succeeded, released from *)
(* containment by a human or never contained                                  *)
StageDone(kind) ==
  [NewTask(kind) EXCEPT !.status = "SUCCEEDED", !.grant = "INACTIVE",
     !.attempts = <<[status |-> "SUCCEEDED", error_code |-> None, provider |-> CHOOSE p \in Providers : TRUE,
                     examined |-> None, artifact |-> None, output |-> "FITS", reconciliation |-> "NULL"]>>]

RemoteInit ==
  /\ \E contained \in [Workflows -> BOOLEAN] :
       workflow = [w \in Workflows |->
         [state |-> "IMPLEMENTING", version |-> 5, block_reason |-> "NULL",
          containment_required |-> contained[w], candidate_revision |-> None,
          disposition |-> IF contained[w] THEN "RESUME" ELSE "NULL", merge_approval |-> None]]
  /\ tasks = [w \in Workflows |-> <<StageDone("PLAN"), StageDone("ARCHITECTURE_REVIEW"), NewTask("IMPLEMENT")>>]
  /\ worker = [p \in Workers |-> Idle]
  /\ call = [c \in Calls |-> NoCall]
  /\ session = <<>>

RemoteNext ==
  \/ EngineStep
  \/ \E c \in Calls : DevinStep(c) \/ WindsurfStep(c) \/ CallEnds(c)
  \/ \E s \in DOMAIN session, status \in {"finished", "ended"} : SessionStops(s, status)

RemoteSpec == RemoteInit /\ [][RemoteNext]_remoteVars
-----------------------------------------------------------------------------
(* Type correctness of the engine's rows under both integrations (leases that *)
(* remote calls renew included), of the calls and of Devin's sessions         *)
RemoteTypeOK ==
  /\ TypeOK
  /\ call \in [Calls -> CallState]
  /\ DOMAIN session \subseteq Workflows \X Nat \X Nat
  /\ \A s \in DOMAIN session : session[s] \in {"running", "finished", "ended"}

(* A possibly paid session is never repeated blindly (the comment at the      *)
(* dispatch's catch-all): while a Devin session runs, no other attempt of     *)
(* its workflow exists or can be started - by a worker, by Windsurf or by     *)
(* another dispatch - unless a human has recorded RETRY for its attempt.      *)
RunningSessionIsExclusive ==
  \A s \in DOMAIN session :
    LET task == tasks[s[1]][s[2]]
    IN session[s] = "running" /\ task.attempts[s[3]].reconciliation # "RETRY" =>
         /\ s[2] = Len(tasks[s[1]])
         /\ s[3] = Len(task.attempts)
         /\ task.status \notin {"READY", "LEASED"}

(* One result is accepted: however many workers, clients and sessions have    *)
(* worked on the implementation, at most one attempt at it ever succeeds, the *)
(* candidate revision is what that attempt produced, and it is an attempt of  *)
(* the task scheduled last, never of one that a human's RETRY superseded.     *)
OneResultAccepted ==
  \A w \in Workflows :
    LET accepted == {a \in AttemptsOf(w, "IMPLEMENT") : AttemptAt(w, a).status = "SUCCEEDED"}
    IN /\ \A a, b \in accepted : a = b
       /\ \A a \in accepted, i \in Positions(w) : tasks[w][i].kind = "IMPLEMENT" => i <= a[1]
       /\ {workflow[w].candidate_revision} \ {None} = {AttemptAt(w, a).artifact : a \in accepted}

(* Authority ends with the task: whoever it was handed to, no grant is left   *)
(* in force on a task that is finished, blocked or cancelled; and a queued    *)
(* task without one is an implementation that Devin gave back, which only a   *)
(* remote agent can take up again.                                            *)
GrantOnlyForLiveTask ==
  \A w \in Workflows : \A i \in Positions(w) :
    LET task == tasks[w][i]
    IN /\ task.grant # "INACTIVE" => task.status \in LiveStatus
       /\ task.status \in {"READY", "LEASED"} /\ task.grant = "INACTIVE" =>
            /\ task.kind = "IMPLEMENT"
            /\ task.attempts[Len(task.attempts)].provider = "devin"

(* An outcome stands: no transaction of a late call changes the status, the   *)
(* error or the artifact of an attempt that has ended.                        *)
OutcomeStands ==
  [][\A w \in Workflows : \A i \in Positions(w) : \A n \in DOMAIN tasks[w][i].attempts :
       LET old == tasks[w][i].attempts[n]
           new == tasks'[w][i].attempts[n]
       IN old.status # "RUNNING" =>
            new.status = old.status /\ new.error_code = old.error_code /\ new.artifact = old.artifact]_remoteVars

(* What docs/failure-recovery.md says of a cancellation during execution,     *)
(* "Stop new work": no task of a cancelled workflow is queued or running.     *)
CancelledStopsWork ==
  \A w \in Workflows : Created(w) /\ workflow[w].state = "CANCELLED" => LiveTasks(w) = {}

RemoteSymmetry == Permutations(Workers) \cup Permutations(Providers) \cup Permutations(Calls) \cup Permutations(Revisions)
=============================================================================
