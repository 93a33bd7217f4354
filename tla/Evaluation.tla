----------------------------- MODULE Evaluation -----------------------------
(* One evaluation campaign of a workflow: evaluation_campaigns.py, evaluation_pipeline.py,      *)
(* evaluation_lifecycle.py and the decision core evaluation.py.  Every `with session.begin()`   *)
(* block is one action; what a command keeps between two of them is in call[c].  Providers,     *)
(* validators and reviewers run between transactions, and a command may die between any two.    *)
(* A raised error ends the command and changes nothing, as its death does (Crash).              *)
EXTENDS Integers, Sequences, FiniteSets, TLC

CONSTANTS
  Calls,          \* commands in progress, the threads of the API server
  Humans,         \* the principals with the evaluation capabilities
  Runs,           \* provider and prompt variant: the runs one execution may have
  Reviewers,      \* providers eligible for reviews
  MinReviews,     \* campaign.minimum_independent_reviews
  MaxIterations,  \* campaign.max_iterations
  MaxVersion,     \* bound on workflow.version
  MaxRecoveries,  \* bound on the recoveries a human asks for
  None

ASSUME BoundAssumption ==
  /\ MaxIterations \in Nat \ {0}
  /\ MaxVersion \in Nat \ {0}
  /\ MaxRecoveries \in Nat
  /\ IsFiniteSet(Reviewers) /\ MinReviews \in 0..Cardinality(Reviewers)

VARIABLES
  workflow,     \* [active, version]: not in a terminal state, and its version counter
  campaign,     \* None or [status, iteration, winner]
  repairs,      \* iteration -> None or the workflow version the repair plan binds
  executions,   \* iteration -> None or [status, version, runs]
  assessments,  \* iteration -> None or [status, actor, checks, reviews]
  recoveries,   \* rows of evaluation_recovery: <<iteration, prior status, actor>>
  reconciled,   \* iteration -> None or the human who reconciled its reviews
  batches,      \* iteration -> None or [status, winner, actor, evidence]
  promotion,    \* None or [iteration, run, version]
  observed,     \* iterations whose runs became provider evidence
  call,         \* the commands
  sent          \* what the providers received: <<iteration, run>> and <<iteration, run, reviewer>> -> count

vars == <<workflow, campaign, repairs, executions, assessments, recoveries, reconciled, batches,
          promotion, observed, call, sent>>

Iterations == 1..MaxIterations

RunState == {"PREPARED", "RUNNING", "SUCCEEDED", "FAILED", "UNKNOWN"}

ExecutionState == {"PREPARED", "RUNNING", "OUTPUTS_READY", "PARTIAL", "UNKNOWN", "FAILED"}

(* Statuses of an assessment; FAILED is declared in the code and never used *)
AssessmentState == {"PREPARED", "RUNNING", "CHECKS_READY", "REVIEW_PREPARED", "REVIEWS_RUNNING",
                    "REVIEW_UNKNOWN", "REVIEWS_READY", "DECIDED"}

(* Checks of the output of a run: COMPLETED is split by verdict, a check failed by recovery apart *)
CheckState == {"PREPARED", "RUNNING", "PASSED", "FAILED", "INTERRUPTED"}

(* A review run: SUCCEEDED is split by review_passed *)
ReviewState == {"REVIEW_PREPARED", "REVIEWS_RUNNING", "PASSED", "REJECTED", "FAILED", "UNKNOWN"}

(* A candidate is a run of an iteration, or named like one: identifiers are free text *)
Candidate == Iterations \X Runs

Execution == [status : ExecutionState, version : 1..MaxVersion, runs : [Runs -> RunState \cup {None}]]

Assessment == [status : AssessmentState, actor : Humans, checks : [Runs -> CheckState \cup {None}],
               reviews : [Runs -> [Reviewers -> ReviewState \cup {None}]]]

Evidence == [checks : [Runs -> CheckState \cup {None}],
             reviews : [Runs -> [Reviewers -> ReviewState \cup {None}]]]

Batch == [status : {"WINNER_SELECTED", "REFINEMENT_REQUIRED", "EXHAUSTED"},
          winner : Candidate \cup {None}, actor : Humans, evidence : Evidence \cup {None}]

CallState == {"idle", "prepared", "executing", "assessing", "checking", "resuming", "empty",
              "reviewing", "asking", "submitting", "deciding", "recording"}

CampaignRow == [status : {"OPEN", "REFINEMENT_REQUIRED", "WINNER_SELECTED", "EXHAUSTED"},
                iteration : Iterations, winner : Candidate \cup {None}]

PromotionRow == [iteration : Iterations, run : Runs, version : 1..MaxVersion]

(* What a command holds between two of its transactions *)
CallRow == [pc : CallState, iteration : Iterations \cup {None}, actor : Humans \cup {None},
            asked : SUBSET (Runs \X Reviewers), evidence : Evidence \cup {None}]

ASSUME NoneAssumption ==
  /\ None \notin Humans /\ None \notin Iterations /\ None \notin 1..MaxVersion
  /\ None \notin RunState \cup CheckState \cup ReviewState
  /\ None \notin CampaignRow /\ None \notin Execution /\ None \notin Assessment
  /\ None \notin Evidence /\ None \notin Batch /\ None \notin Candidate /\ None \notin PromotionRow

NoCall == [pc |-> "idle", iteration |-> None, actor |-> None, asked |-> {}, evidence |-> None]

Begin(c, h, i, pc) == call' = [call EXCEPT ![c] = [NoCall EXCEPT !.pc = pc, !.iteration = i, !.actor = h]]

Goto(c, pc) == call' = [call EXCEPT ![c].pc = pc]

Return(c) == call' = [call EXCEPT ![c] = NoCall]

Send(requests) == sent' = [m \in DOMAIN sent |-> sent[m] + IF m \in requests THEN 1 ELSE 0]

PutExecution(i, e) == executions' = [executions EXCEPT ![i] = e]

PutAssessment(i, a) == assessments' = [assessments EXCEPT ![i] = a]

-----------------------------------------------------------------------------
(* Campaign *)

CampaignOpen == campaign # None /\ campaign.status \in {"OPEN", "REFINEMENT_REQUIRED"}

CreateEvaluationCampaign ==
  /\ campaign = None /\ workflow.active
  /\ campaign' = [status |-> "OPEN", iteration |-> 1, winner |-> None]
  /\ UNCHANGED <<workflow, repairs, executions, assessments, recoveries, reconciled, batches,
                 promotion, observed, call, sent>>

(* Every iteration after the first needs its repair plan, bound to the present workflow version *)
RepairMatches(i) == i = 1 \/ repairs[i] = workflow.version

PlanEvaluationRepair ==
  /\ campaign # None /\ workflow.active
  /\ campaign.status = "REFINEMENT_REQUIRED"
  /\ batches[campaign.iteration - 1].status = "REFINEMENT_REQUIRED"
  /\ repairs[campaign.iteration] = None
  /\ repairs' = [repairs EXCEPT ![campaign.iteration] = workflow.version]
  /\ UNCHANGED <<workflow, campaign, executions, assessments, recoveries, reconciled, batches,
                 promotion, observed, call, sent>>

(* MultiModelEvaluator.evaluate: what it may decide of these candidates; scores are left open *)
Decisions(i, eligible) ==
  IF eligible # {}
    THEN {[status |-> "WINNER_SELECTED", winner |-> w] : w \in eligible}
    ELSE {[status |-> IF i < MaxIterations THEN "REFINEMENT_REQUIRED" ELSE "EXHAUSTED",
           winner |-> None]}

(* The transaction of submit_evaluation_evidence after its checks: batch and campaign together *)
RecordBatch(h, evidence, decision) ==
  LET i == campaign.iteration
  IN  /\ batches' = [batches EXCEPT ![i] = [status |-> decision.status, winner |-> decision.winner,
                                            actor |-> h, evidence |-> evidence]]
      /\ campaign' = [status |-> decision.status, winner |-> decision.winner,
                      iteration |-> IF decision.status = "REFINEMENT_REQUIRED" THEN i + 1 ELSE i]

(* Mutant: the batch is not compared with the iteration the campaign has reached *)
AcceptsAnyIteration(i) == CampaignOpen /\ workflow.active /\ RepairMatches(i)

(* submit_evaluation_evidence: when a batch of iteration i is accepted *)
AcceptsBatch(i) == CampaignOpen /\ workflow.active /\ campaign.iteration = i /\ RepairMatches(i)

(* The ids a new batch may use: a trusted batch has recorded every run of its iteration.  What   *)
(* a batch reported by hand recorded is not kept, so the model lets its ids be used again.       *)
Unrecorded ==
  {w \in Candidate : /\ w[1] <= campaign.iteration
                     /\ batches[w[1]] = None \/ batches[w[1]].evidence = None}

(* POST .../batches: a human reports candidates from outside, which may bear the names of runs   *)
(* of this execution or an earlier one; their cost may exceed the ceiling.                       *)
SubmitEvaluationEvidence(h) ==
  /\ campaign # None /\ AcceptsBatch(campaign.iteration)
  /\ \E eligible \in SUBSET Unrecorded :
       \E decision \in Decisions(campaign.iteration, eligible)
                       \cup {[status |-> "EXHAUSTED", winner |-> None]} :
         RecordBatch(h, None, decision)
  /\ UNCHANGED <<workflow, repairs, executions, assessments, recoveries, reconciled, promotion,
                 observed, call, sent>>

-----------------------------------------------------------------------------
(* Provider execution *)

(* What execute_evaluation_campaign asks of a new request: one execution per iteration *)
Executable ==
  /\ CampaignOpen /\ workflow.active
  /\ RepairMatches(campaign.iteration)
  /\ executions[campaign.iteration] = None

(* The plan is committed before any provider is called; routing picks the runs *)
PrepareExecution(c, h) ==
  /\ call[c].pc = "idle"
  /\ Executable
  /\ \E selected \in SUBSET Runs \ {{}} :
       PutExecution(campaign.iteration,
                    [status |-> "PREPARED", version |-> workflow.version,
                     runs |-> [r \in Runs |-> IF r \in selected THEN "PREPARED" ELSE None]])
  /\ Begin(c, h, campaign.iteration, "prepared")
  /\ UNCHANGED <<workflow, campaign, repairs, assessments, recoveries, reconciled, batches,
                 promotion, observed, sent>>

(* Every run of an execution, set to one status *)
AllRuns(e, status) == [r \in Runs |-> IF e.runs[r] = None THEN None ELSE status]

(* The snapshot is compared once more; from this commit on the runs may reach their providers *)
StartExecution(c) ==
  LET i == call[c].iteration
      e == executions[i]
  IN  /\ call[c].pc = "prepared"
      /\ \/ /\ workflow.version # e.version
            /\ PutExecution(i, [e EXCEPT !.status = "FAILED", !.runs = AllRuns(e, "FAILED")])
            /\ Return(c)
            /\ UNCHANGED sent
         \/ /\ workflow.version = e.version
            /\ PutExecution(i, [e EXCEPT !.status = "RUNNING", !.runs = AllRuns(e, "RUNNING")])
            /\ Goto(c, "executing")
            /\ Send({<<i, r>> : r \in {q \in Runs : e.runs[q] # None}})
      /\ UNCHANGED <<workflow, campaign, repairs, assessments, recoveries, reconciled, batches,
                     promotion, observed>>

(* Mutant: an execution all of whose runs succeeded takes their status *)
SummaryOfRun(runs) ==
  LET ended == {runs[r] : r \in {q \in Runs : runs[q] # None}}
  IN  IF "UNKNOWN" \in ended THEN "UNKNOWN"
      ELSE IF ended = {"SUCCEEDED"} THEN "SUCCEEDED"
      ELSE IF "SUCCEEDED" \in ended THEN "PARTIAL" ELSE "FAILED"

(* The status of an execution whose runs ended this way *)
Summary(runs) ==
  LET ended == {runs[r] : r \in {q \in Runs : runs[q] # None}}
  IN  IF "UNKNOWN" \in ended THEN "UNKNOWN"
      ELSE IF ended = {"SUCCEEDED"} THEN "OUTPUTS_READY"
      ELSE IF "SUCCEEDED" \in ended THEN "PARTIAL" ELSE "FAILED"

(* An answer is a success, invalid (FAILED), or an exception of the provider (UNKNOWN) *)
FinishExecution(c) ==
  LET i == call[c].iteration
      e == executions[i]
  IN  /\ call[c].pc = "executing"
      /\ e.status = "RUNNING"
      /\ \E answer \in [Runs -> {"SUCCEEDED", "FAILED", "UNKNOWN"}] :
           LET runs == [r \in Runs |-> IF e.runs[r] = None THEN None ELSE answer[r]]
           IN  PutExecution(i, [e EXCEPT !.status = Summary(runs), !.runs = runs])
      /\ Return(c)
      /\ UNCHANGED <<workflow, campaign, repairs, assessments, recoveries, reconciled, batches,
                     promotion, observed, sent>>

(* MARK_FAILED, the only decision there is *)
ReconcileEvaluationExecution(i) ==
  LET e == executions[i]
      runs == [r \in Runs |-> IF e.runs[r] = "UNKNOWN" THEN "FAILED" ELSE e.runs[r]]
  IN  /\ e # None /\ workflow.active
      /\ e.status = "UNKNOWN"
      /\ PutExecution(i, [e EXCEPT !.status = Summary(runs), !.runs = runs])
      /\ UNCHANGED <<workflow, campaign, repairs, assessments, recoveries, reconciled, batches,
                     promotion, observed, call, sent>>

-----------------------------------------------------------------------------
(* Trusted assessment: the checks *)

(* validate_evaluation_execution, first transaction: an artifact and its checks per success *)
PrepareAssessment(c, h) ==
  LET i == campaign.iteration
      e == executions[i]
  IN  /\ call[c].pc = "idle"
      /\ CampaignOpen /\ workflow.active
      /\ e # None /\ e.status \in {"OUTPUTS_READY", "PARTIAL", "FAILED"}
      /\ e.version = workflow.version
      /\ assessments[i] = None
      /\ PutAssessment(i, [status |-> "PREPARED", actor |-> h,
                           checks |-> [r \in Runs |-> IF e.runs[r] = "SUCCEEDED"
                                                        THEN "PREPARED" ELSE None],
                           reviews |-> [r \in Runs |-> [v \in Reviewers |-> None]]])
      /\ Begin(c, h, i, "assessing")
      /\ UNCHANGED <<workflow, campaign, repairs, executions, recoveries, reconciled, batches,
                     promotion, observed, sent>>

(* The second transaction sets the assessment and its checks RUNNING, whatever they are by now *)
StartChecks(c) ==
  LET i == call[c].iteration
      a == assessments[i]
  IN  /\ call[c].pc = "assessing"
      /\ PutAssessment(i, [a EXCEPT !.status = "RUNNING",
                                    !.checks = [r \in Runs |-> IF @[r] = None THEN None
                                                               ELSE "RUNNING"]])
      /\ Goto(c, "checking")
      /\ UNCHANGED <<workflow, campaign, repairs, executions, recoveries, reconciled, batches,
                     promotion, observed, sent>>

(* A validator that raises counts as failed *)
FinishChecks(c) ==
  LET i == call[c].iteration
      a == assessments[i]
  IN  /\ call[c].pc = "checking"
      /\ a.status = "RUNNING"
      /\ \E verdict \in [Runs -> {"PASSED", "FAILED"}] :
           PutAssessment(i, [a EXCEPT !.status = "CHECKS_READY",
                                      !.checks = [r \in Runs |-> IF @[r] = None THEN None
                                                                 ELSE verdict[r]]])
      /\ Goto(c, "resuming")
      /\ UNCHANGED <<workflow, campaign, repairs, executions, recoveries, reconciled, batches,
                     promotion, observed, sent>>

Ready(i) == assessments[i] # None /\ assessments[i].status \in {"CHECKS_READY", "REVIEWS_READY"}

(* The same command again, with the idempotency key of the assessment *)
ReplayValidation(c, h, i) ==
  /\ call[c].pc = "idle"
  /\ Ready(i) /\ assessments[i].actor = h
  /\ Begin(c, h, i, "resuming")
  /\ UNCHANGED <<workflow, campaign, repairs, executions, assessments, recoveries, reconciled,
                 batches, promotion, observed, sent>>

-----------------------------------------------------------------------------
(* Independent reviews: resume_trusted_assessment *)

(* The first read: reviews that are ready, or not required, go to the decision *)
ResumeAssessment(c) ==
  LET a == assessments[call[c].iteration]
  IN  /\ call[c].pc = "resuming"
      /\ a.status = "REVIEWS_READY" \/ (a.status = "CHECKS_READY" /\ MinReviews = 0)
      /\ Goto(c, "submitting")
      /\ UNCHANGED <<workflow, campaign, repairs, executions, assessments, recoveries, reconciled,
                     batches, promotion, observed, sent>>

(* The reviews routing may pick: the required number of reviewers for every artifact that       *)
(* passed its checks                                                                             *)
ReviewChoices(a) ==
  LET artifacts == {r \in Runs : a.checks[r] = "PASSED"}
  IN  {asked \in SUBSET (artifacts \X Reviewers) :
         \A r \in artifacts : Cardinality({m \in asked : m[1] = r}) = MinReviews}

(* The reviews of an assessment with the intent to ask for these *)
Intended(a, asked) ==
  [r \in Runs |-> [v \in Reviewers |-> IF <<r, v>> \in asked THEN "REVIEW_PREPARED"
                                       ELSE a.reviews[r][v]]]

(* Mutant: the status read before the provider health checks is not read again *)
PrepareReviewsStale(c) ==
  LET i == call[c].iteration
      a == assessments[i]
  IN  /\ call[c].pc = "resuming"
      /\ \E asked \in ReviewChoices(a) :
           /\ PutAssessment(i, [a EXCEPT !.status = "REVIEW_PREPARED", !.reviews = Intended(a, asked)])
           /\ call' = [call EXCEPT ![c].asked = asked,
                                   ![c].pc = IF asked = {} THEN "empty" ELSE "reviewing"]
      /\ UNCHANGED <<workflow, campaign, repairs, executions, recoveries, reconciled, batches,
                     promotion, observed, sent>>

(* The review intents are committed; one review per artifact and reviewer *)
PrepareReviews(c) ==
  LET i == call[c].iteration
      a == assessments[i]
  IN  /\ call[c].pc = "resuming"
      /\ a.status = "CHECKS_READY" /\ MinReviews # 0
      /\ \E asked \in ReviewChoices(a) :
           /\ \A m \in asked : a.reviews[m[1]][m[2]] = None
           /\ PutAssessment(i, [a EXCEPT !.status = "REVIEW_PREPARED", !.reviews = Intended(a, asked)])
           /\ call' = [call EXCEPT ![c].asked = asked,
                                   ![c].pc = IF asked = {} THEN "empty" ELSE "reviewing"]
      /\ UNCHANGED <<workflow, campaign, repairs, executions, recoveries, reconciled, batches,
                     promotion, observed, sent>>

FinishEmptyReviews(c) ==
  LET i == call[c].iteration
  IN  /\ call[c].pc = "empty"
      /\ assessments[i].status = "REVIEW_PREPARED"
      /\ PutAssessment(i, [assessments[i] EXCEPT !.status = "REVIEWS_READY"])
      /\ Goto(c, "submitting")
      /\ UNCHANGED <<workflow, campaign, repairs, executions, recoveries, reconciled, batches,
                     promotion, observed, sent>>

(* Every review of the assessment, set to one status *)
AllReviews(a, status) ==
  [r \in Runs |-> [v \in Reviewers |-> IF a.reviews[r][v] = None THEN None ELSE status]]

(* From this commit on the reviews asked for may reach their reviewers *)
StartReviews(c) ==
  LET i == call[c].iteration
      a == assessments[i]
  IN  /\ call[c].pc = "reviewing"
      /\ a.status = "REVIEW_PREPARED"
      /\ PutAssessment(i, [a EXCEPT !.status = "REVIEWS_RUNNING",
                                    !.reviews = AllReviews(a, "REVIEWS_RUNNING")])
      /\ Goto(c, "asking")
      /\ Send({<<i, m[1], m[2]>> : m \in call[c].asked})
      /\ UNCHANGED <<workflow, campaign, repairs, executions, recoveries, reconciled, batches,
                     promotion, observed>>

(* The reviews the command asked for, with these answers *)
Answered(a, asked, answer) ==
  [r \in Runs |-> [v \in Reviewers |-> IF <<r, v>> \in asked THEN answer[<<r, v>>]
                                       ELSE a.reviews[r][v]]]

ReviewAnswers(asked) == [asked -> {"PASSED", "REJECTED", "FAILED", "UNKNOWN"}]

(* Mutant: the late answers are recorded whatever became of the assessment *)
FinishReviewsLate(c) ==
  LET i == call[c].iteration
      a == assessments[i]
  IN  /\ call[c].pc = "asking"
      /\ \E answer \in ReviewAnswers(call[c].asked) :
           LET unknown == \E m \in call[c].asked : answer[m] = "UNKNOWN"
           IN  /\ PutAssessment(i, [a EXCEPT
                    !.reviews = Answered(a, call[c].asked, answer),
                    !.status = IF unknown THEN "REVIEW_UNKNOWN" ELSE "REVIEWS_READY"])
               /\ IF unknown THEN Return(c) ELSE Goto(c, "submitting")
      /\ UNCHANGED <<workflow, campaign, repairs, executions, recoveries, reconciled, batches,
                     promotion, observed, sent>>

FinishReviews(c) ==
  LET i == call[c].iteration
      a == assessments[i]
  IN  /\ call[c].pc = "asking"
      /\ a.status = "REVIEWS_RUNNING"
      /\ \E answer \in ReviewAnswers(call[c].asked) :
           LET unknown == \E m \in call[c].asked : answer[m] = "UNKNOWN"
           IN  /\ PutAssessment(i, [a EXCEPT
                    !.reviews = Answered(a, call[c].asked, answer),
                    !.status = IF unknown THEN "REVIEW_UNKNOWN" ELSE "REVIEWS_READY"])
               /\ IF unknown THEN Return(c) ELSE Goto(c, "submitting")
      /\ UNCHANGED <<workflow, campaign, repairs, executions, recoveries, reconciled, batches,
                     promotion, observed, sent>>

(* The reviews in one status, set to another *)
Remark(a, from, to) ==
  [r \in Runs |-> [v \in Reviewers |-> IF a.reviews[r][v] = from THEN to ELSE a.reviews[r][v]]]

(* MARK_FAILED for the unknown reviews, once per assessment; the command goes on to the decision *)
ReconcileEvaluationReviews(c, h, i) ==
  LET a == assessments[i]
  IN  /\ call[c].pc = "idle"
      /\ a # None /\ workflow.active
      /\ a.status = "REVIEW_UNKNOWN"
      /\ reconciled[i] = None
      /\ \E r \in Runs, v \in Reviewers : a.reviews[r][v] = "UNKNOWN"
      /\ PutAssessment(i, [a EXCEPT !.status = "REVIEWS_READY",
                                    !.reviews = Remark(a, "UNKNOWN", "FAILED")])
      /\ reconciled' = [reconciled EXCEPT ![i] = h]
      /\ Begin(c, h, i, "submitting")
      /\ UNCHANGED <<workflow, campaign, repairs, executions, recoveries, batches, promotion,
                     observed, sent>>

ReplayReconciliation(c, h, i) ==
  /\ call[c].pc = "idle"
  /\ reconciled[i] = h
  /\ assessments[i].status = "REVIEWS_READY"
  /\ Begin(c, h, i, "submitting")
  /\ UNCHANGED <<workflow, campaign, repairs, executions, assessments, recoveries, reconciled,
                 batches, promotion, observed, sent>>

-----------------------------------------------------------------------------
(* The decision: submit_trusted_assessment *)

(* The evidence of an assessment: its checks and the reviews that succeeded *)
EvidenceOf(a) ==
  [checks |-> a.checks,
   reviews |-> [r \in Runs |-> [v \in Reviewers |->
                 IF a.reviews[r][v] \in {"PASSED", "REJECTED"} THEN a.reviews[r][v] ELSE None]]]

(* A decided assessment is returned as it is: nothing to do *)
ReadEvidence(c) ==
  LET i == call[c].iteration
  IN  /\ call[c].pc = "submitting"
      /\ Ready(i)
      /\ call' = [call EXCEPT ![c].pc = "deciding", ![c].evidence = EvidenceOf(assessments[i])]
      /\ UNCHANGED <<workflow, campaign, repairs, executions, assessments, recoveries, reconciled,
                     batches, promotion, observed, sent>>

(* _rejection_reasons: the check passed and enough reviewers other than the producer agree *)
EligibleRuns(evidence) ==
  {r \in Runs : /\ evidence.checks[r] = "PASSED"
                /\ Cardinality({v \in Reviewers : evidence.reviews[r][v] = "PASSED"}) >= MinReviews}

(* The key of a trusted batch names the assessment, its scope is the actor *)
TrustedBatch(i, h) == batches[i] # None /\ batches[i].actor = h /\ batches[i].evidence # None

(* The same request again is answered from the batch; another content under its key raises *)
DecideAssessment(c) ==
  LET i == call[c].iteration
      h == call[c].actor
  IN  /\ call[c].pc = "deciding"
      /\ \/ /\ TrustedBatch(i, h) /\ batches[i].evidence = call[c].evidence
            /\ UNCHANGED <<campaign, batches>>
         \/ /\ ~TrustedBatch(i, h)
            /\ AcceptsBatch(i)
            /\ \E decision \in Decisions(i, {<<i, r>> : r \in EligibleRuns(call[c].evidence)}) :
                 RecordBatch(h, call[c].evidence, decision)
      /\ call' = [call EXCEPT ![c].pc = "recording", ![c].evidence = None]
      /\ UNCHANGED <<workflow, repairs, executions, assessments, recoveries, reconciled, promotion,
                     observed, sent>>

(* The last transaction: DECIDED, and the runs become provider evidence once *)
RecordDecision(c) ==
  LET i == call[c].iteration
  IN  /\ call[c].pc = "recording"
      /\ \/ /\ Ready(i)
            /\ PutAssessment(i, [assessments[i] EXCEPT !.status = "DECIDED"])
            /\ observed' = observed \cup {i}
         \/ /\ ~Ready(i)
            /\ UNCHANGED <<assessments, observed>>
      /\ Return(c)
      /\ UNCHANGED <<workflow, campaign, repairs, executions, recoveries, reconciled, batches,
                     promotion, sent>>

-----------------------------------------------------------------------------
(* Recovery and promotion: evaluation_lifecycle.py *)

(* What recovery makes of an assessment: checks in progress and review intents fail, reviews     *)
(* that may have been sent are unknown.                                                          *)
Recovered(a) ==
  CASE a.status \in {"PREPARED", "RUNNING"} ->
         [a EXCEPT !.status = "CHECKS_READY",
                   !.checks = [r \in Runs |-> IF @[r] \in {"PREPARED", "RUNNING"} THEN "INTERRUPTED"
                                              ELSE @[r]]]
    [] a.status = "REVIEW_PREPARED" ->
         [a EXCEPT !.status = "REVIEWS_READY", !.reviews = Remark(a, "REVIEW_PREPARED", "FAILED")]
    [] a.status = "REVIEWS_RUNNING" ->
         [a EXCEPT !.status = "REVIEW_UNKNOWN", !.reviews = Remark(a, "REVIEWS_RUNNING", "UNKNOWN")]

(* MARK_INTERRUPTED_FAILED, once per assessment and status it was found in *)
RecoverEvaluationAssessment(c, h, i) ==
  LET a == assessments[i]
  IN  /\ call[c].pc = "idle"
      /\ a # None /\ workflow.active
      /\ a.status \in {"PREPARED", "RUNNING", "REVIEW_PREPARED", "REVIEWS_RUNNING"}
      /\ \A g \in Humans : <<i, a.status, g>> \notin recoveries
      /\ Cardinality(recoveries) < MaxRecoveries
      /\ PutAssessment(i, Recovered(a))
      /\ recoveries' = recoveries \cup {<<i, a.status, h>>}
      /\ IF a.status = "REVIEWS_RUNNING" THEN UNCHANGED call ELSE Begin(c, h, i, "resuming")
      /\ UNCHANGED <<workflow, campaign, repairs, executions, reconciled, batches, promotion,
                     observed, sent>>

ReplayRecovery(c, h, i) ==
  /\ call[c].pc = "idle"
  /\ \E status \in AssessmentState : <<i, status, h>> \in recoveries
  /\ Ready(i)
  /\ Begin(c, h, i, "resuming")
  /\ UNCHANGED <<workflow, campaign, repairs, executions, assessments, recoveries, reconciled,
                 batches, promotion, observed, sent>>

(* Mutant: the snapshot the winner was produced for is not compared with the workflow *)
PromoteStaleWinner(i) ==
  /\ promotion = None
  /\ workflow.active
  /\ assessments[i] # None /\ assessments[i].status = "DECIDED"
  /\ campaign.status = "WINNER_SELECTED"
  /\ batches[i].winner = campaign.winner
  /\ \E r \in Runs : /\ campaign.winner = <<i, r>>
                     /\ assessments[i].checks[r] # None
                     /\ promotion' = [iteration |-> i, run |-> r, version |-> workflow.version]
  /\ UNCHANGED <<workflow, campaign, repairs, executions, assessments, recoveries, reconciled,
                 batches, observed, call, sent>>

(* One promotion per campaign: the winner of the decided batch, for the snapshot it was made for *)
PromoteEvaluationWinner(i) ==
  /\ promotion = None
  /\ workflow.active
  /\ assessments[i] # None /\ assessments[i].status = "DECIDED"
  /\ campaign.status = "WINNER_SELECTED"
  /\ batches[i].winner = campaign.winner
  /\ executions[i].version = workflow.version
  /\ \E r \in Runs : /\ campaign.winner = <<i, r>>
                     /\ assessments[i].checks[r] # None
                     /\ promotion' = [iteration |-> i, run |-> r, version |-> workflow.version]
  /\ UNCHANGED <<workflow, campaign, repairs, executions, assessments, recoveries, reconciled,
                 batches, observed, call, sent>>

-----------------------------------------------------------------------------
(* Environment *)

(* A command dies, or raises: a conflict, an unavailable provider, a broken constraint *)
Crash(c) ==
  /\ call[c].pc # "idle"
  /\ Return(c)
  /\ UNCHANGED <<workflow, campaign, repairs, executions, assessments, recoveries, reconciled,
                 batches, promotion, observed, sent>>

(* The task engine moves the workflow on: every transition raises its version.  One that is      *)
(* APPROVED or MERGED is not active, and active again when it waits for its deployment.          *)
WorkflowMoves ==
  /\ workflow.version < MaxVersion
  /\ \E active \in BOOLEAN :
       workflow' = [active |-> active, version |-> workflow.version + 1]
  /\ UNCHANGED <<campaign, repairs, executions, assessments, recoveries, reconciled, batches,
                 promotion, observed, call, sent>>

Init ==
  /\ workflow = [active |-> TRUE, version |-> 1]
  /\ campaign = None
  /\ repairs = [i \in Iterations |-> None]
  /\ executions = [i \in Iterations |-> None]
  /\ assessments = [i \in Iterations |-> None]
  /\ recoveries = {}
  /\ reconciled = [i \in Iterations |-> None]
  /\ batches = [i \in Iterations |-> None]
  /\ promotion = None
  /\ observed = {}
  /\ call = [c \in Calls |-> NoCall]
  /\ sent = [m \in (Iterations \X Runs) \cup (Iterations \X Runs \X Reviewers) |-> 0]

Step(c) ==
  \/ StartExecution(c) \/ FinishExecution(c)
  \/ StartChecks(c) \/ FinishChecks(c)
  \/ ResumeAssessment(c) \/ PrepareReviews(c) \/ FinishEmptyReviews(c)
  \/ StartReviews(c) \/ FinishReviews(c)
  \/ ReadEvidence(c) \/ DecideAssessment(c) \/ RecordDecision(c)

Command(c, h) ==
  \/ PrepareExecution(c, h) \/ PrepareAssessment(c, h)
  \/ \E i \in Iterations : \/ ReplayValidation(c, h, i)
                           \/ ReconcileEvaluationReviews(c, h, i) \/ ReplayReconciliation(c, h, i)
                           \/ RecoverEvaluationAssessment(c, h, i) \/ ReplayRecovery(c, h, i)

Next ==
  \/ CreateEvaluationCampaign \/ PlanEvaluationRepair
  \/ \E h \in Humans : SubmitEvaluationEvidence(h)
  \/ \E i \in Iterations : ReconcileEvaluationExecution(i) \/ PromoteEvaluationWinner(i)
  \/ \E c \in Calls, h \in Humans : Command(c, h)
  \/ \E c \in Calls : Step(c) \/ Crash(c)
  \/ WorkflowMoves

Spec == Init /\ [][Next]_vars

-----------------------------------------------------------------------------
(* Properties *)

(* Type correctness of the rows and of the commands in progress *)
TypeOK ==
  /\ workflow \in [active : BOOLEAN, version : 1..MaxVersion]
  /\ campaign = None \/ campaign \in CampaignRow
  /\ repairs \in [Iterations -> 1..MaxVersion \cup {None}]
  /\ \A i \in Iterations :
       /\ executions[i] = None \/ executions[i] \in Execution
       /\ assessments[i] = None \/ assessments[i] \in Assessment
       /\ batches[i] = None \/ batches[i] \in Batch
  /\ recoveries \subseteq Iterations \X AssessmentState \X Humans
  /\ reconciled \in [Iterations -> Humans \cup {None}]
  /\ promotion = None \/ promotion \in PromotionRow
  /\ observed \subseteq Iterations
  /\ \A c \in Calls : call[c] \in CallRow

(* What is promoted has proved itself, whatever was reported by hand, interrupted and recovered: *)
(* the run succeeded for the workflow version promoted, its checks passed, and enough reviewers  *)
(* passed it (promote_evaluation_winner trusts the batch; it reads neither checks nor reviews).  *)
PromotedWinnerIsProven ==
  promotion # None =>
    LET a == assessments[promotion.iteration]
        e == executions[promotion.iteration]
        r == promotion.run
    IN  /\ e.runs[r] = "SUCCEEDED" /\ e.version = promotion.version
        /\ a.checks[r] = "PASSED"
        /\ Cardinality({v \in Reviewers : a.reviews[r][v] = "PASSED"}) >= MinReviews

(* No request is sent to a producer or to a reviewer a second time, by a retried, resumed,       *)
(* recovered or reconciled command (the intent is committed and re-read before each call).       *)
NeverReplayed == \A m \in DOMAIN sent : sent[m] <= 1

(* The campaign row and its batches tell one history: every earlier iteration ended in a         *)
(* refinement, the present one is decided exactly when the campaign is closed, a trusted batch   *)
(* names a run of its own iteration however late it comes, and an execution of a later iteration *)
(* runs for the version its repair plan is bound to.                                             *)
CampaignFollowsBatches ==
  campaign # None =>
    /\ campaign.iteration \in Iterations
    /\ \A i \in Iterations :
         /\ i < campaign.iteration => batches[i] # None /\ batches[i].status = "REFINEMENT_REQUIRED"
         /\ i > campaign.iteration => batches[i] = None /\ executions[i] = None
         /\ batches[i] # None /\ batches[i].evidence # None /\ batches[i].winner # None
              => batches[i].winner[1] = i
         /\ i > 1 /\ executions[i] # None => executions[i].version = repairs[i]
    /\ IF CampaignOpen THEN batches[campaign.iteration] = None
       ELSE /\ batches[campaign.iteration].status = campaign.status
            /\ batches[campaign.iteration].winner = campaign.winner

(* The outcome of a provider run or of a review, once recorded, stands; an unknown one is        *)
(* only ever settled as failed.  A late answer never overrides a recovery or a reconciliation.   *)
OutcomesStand ==
  [][\A i \in Iterations, r \in Runs :
       /\ executions[i] # None =>
            LET was == executions[i].runs[r]
                is == executions[i]'.runs[r]
            IN  /\ was \in {"SUCCEEDED", "FAILED"} => is = was
                /\ was = "UNKNOWN" => is \in {"UNKNOWN", "FAILED"}
       /\ assessments[i] # None => \A v \in Reviewers :
            LET was == assessments[i].reviews[r][v]
                is == assessments[i]'.reviews[r][v]
            IN  /\ was \in {"PASSED", "REJECTED", "FAILED"} => is = was
                /\ was = "UNKNOWN" => is \in {"UNKNOWN", "FAILED"}]_vars

Symmetry == Permutations(Calls) \cup Permutations(Humans) \cup Permutations(Runs)
              \cup Permutations(Reviewers)
=============================================================================
