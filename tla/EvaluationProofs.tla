-------------------------- MODULE EvaluationProofs --------------------------
(***************************************************************************)
(* Proofs about the evaluation campaign, for any sets of commands, humans, *)
(* runs and reviewers and any bounds: the inductive invariant, the steps   *)
(* that keep it (commands, executions, the campaign and its batches; then  *)
(* assessments, checks and reviews), and the properties that follow.       *)
(*                                                                         *)
(* The properties speak of rows; whether a row may be written depends on   *)
(* what a command in progress has read before.  CallFits says what each    *)
(* program counter has established and no other command can undo.          *)
(***************************************************************************)
EXTENDS Evaluation, FiniteSetTheorems, TLAPS

Requests == (Iterations \X Runs) \cup (Iterations \X Runs \X Reviewers)

Typed ==
  /\ workflow \in [active : BOOLEAN, version : 1..MaxVersion]
  /\ campaign \in CampaignRow \cup {None}
  /\ repairs \in [Iterations -> 1..MaxVersion \cup {None}]
  /\ executions \in [Iterations -> Execution \cup {None}]
  /\ assessments \in [Iterations -> Assessment \cup {None}]
  /\ recoveries \in SUBSET (Iterations \X AssessmentState \X Humans)
  /\ reconciled \in [Iterations -> Humans \cup {None}]
  /\ batches \in [Iterations -> Batch \cup {None}]
  /\ promotion \in PromotionRow \cup {None}
  /\ observed \in SUBSET Iterations
  /\ call \in [Calls -> CallRow]
  /\ sent \in [Requests -> Nat]

(* The campaign, its batches, its repair plans and its executions *)
CampaignFits ==
  /\ campaign = None => \A i \in Iterations : batches[i] = None /\ executions[i] = None
  /\ campaign # None =>
       /\ \A i \in Iterations :
            /\ i < campaign.iteration => batches[i] # None /\ batches[i].status = "REFINEMENT_REQUIRED"
            /\ i > campaign.iteration => batches[i] = None /\ executions[i] = None
            /\ i > 1 /\ executions[i] # None => executions[i].version = repairs[i]
       /\ campaign.status \in {"OPEN", "REFINEMENT_REQUIRED"} => batches[campaign.iteration] = None
       /\ campaign.status \notin {"OPEN", "REFINEMENT_REQUIRED"} =>
            /\ batches[campaign.iteration] # None
            /\ batches[campaign.iteration].status = campaign.status
            /\ batches[campaign.iteration].winner = campaign.winner

(* The status of an execution tells how far its runs are *)
ExecutionFits(i) ==
  /\ executions[i] = None =>
       /\ assessments[i] = None
       /\ \A r \in Runs : sent[<<i, r>>] = 0
  /\ executions[i] # None => \A r \in Runs :
       /\ executions[i].status = "PREPARED" => executions[i].runs[r] \in {"PREPARED", None}
       /\ executions[i].status = "RUNNING" => executions[i].runs[r] \in {"RUNNING", None}
  /\ \A r \in Runs : sent[<<i, r>>] <= 1

(* The reviews of an assessment have not begun *)
Unreviewed(i) == \A r \in Runs, v \in Reviewers :
  assessments[i].reviews[r][v] = None /\ sent[<<i, r, v>>] = 0

(* The status of an assessment tells how far its checks and reviews are *)
AssessmentFits(i) ==
  /\ assessments[i] = None =>
       /\ reconciled[i] = None
       /\ \A r \in Runs, v \in Reviewers : sent[<<i, r, v>>] = 0
  /\ assessments[i] # None =>
       /\ \A r \in Runs :
            /\ assessments[i].status = "PREPARED" => assessments[i].checks[r] \in {"PREPARED", None}
            /\ assessments[i].status = "RUNNING" => assessments[i].checks[r] \in {"RUNNING", None}
            /\ assessments[i].checks[r] # None => executions[i].runs[r] = "SUCCEEDED"
       /\ assessments[i].status \in {"PREPARED", "RUNNING", "CHECKS_READY"} => Unreviewed(i)
       /\ \A r \in Runs, v \in Reviewers :
            /\ assessments[i].status = "REVIEW_PREPARED" =>
                 assessments[i].reviews[r][v] \in {"REVIEW_PREPARED", None} /\ sent[<<i, r, v>>] = 0
            /\ assessments[i].status = "REVIEWS_RUNNING" =>
                 assessments[i].reviews[r][v] \in {"REVIEWS_RUNNING", None}
       /\ assessments[i].status = "DECIDED" => batches[i] # None /\ batches[i].evidence # None
  /\ \A r \in Runs, v \in Reviewers : sent[<<i, r, v>>] <= 1

(* What was read of an assessment as passed has passed *)
EvidenceIn(evidence, a) ==
  /\ a # None
  /\ \A r \in Runs :
       /\ evidence.checks[r] = "PASSED" => a.checks[r] = "PASSED"
       /\ \A v \in Reviewers : evidence.reviews[r][v] = "PASSED" => a.reviews[r][v] = "PASSED"

(* A trusted batch rests on its assessment *)
BatchFits(i) ==
  batches[i] # None /\ batches[i].evidence # None =>
    /\ EvidenceIn(batches[i].evidence, assessments[i])
    /\ batches[i].winner # None =>
         \E r \in EligibleRuns(batches[i].evidence) : batches[i].winner = <<i, r>>

(* Commands that validate the outputs of an execution *)
Validates(c) == call[c].pc \in {"assessing", "checking"}

CallFits(c) ==
  LET i == call[c].iteration
      a == assessments[i]
  IN  /\ call[c].pc # "idle" => i \in Iterations /\ call[c].actor \in Humans
      /\ call[c].pc \in {"prepared", "executing"} => executions[i] # None
      /\ call[c].pc = "prepared" =>
           executions[i].status = "PREPARED" /\ \A r \in Runs : sent[<<i, r>>] = 0
      /\ call[c].pc \notin {"idle", "prepared", "executing"} => a # None
      /\ call[c].pc = "assessing" =>
           Unreviewed(i) /\ \A r \in Runs : a.checks[r] \in {"PREPARED", "INTERRUPTED", None}
      /\ call[c].pc \in {"reviewing", "asking"} =>
           call[c].asked # {} /\ \A m \in call[c].asked : a.checks[m[1]] = "PASSED"
      /\ call[c].pc = "deciding" => call[c].evidence # None /\ EvidenceIn(call[c].evidence, a)
      /\ call[c].pc = "recording" => batches[i] # None /\ batches[i].evidence # None

(* One command starts an execution, and one validates it *)
Alone ==
  \A c, d \in Calls : call[c].iteration = call[d].iteration =>
    /\ call[c].pc = "prepared" /\ call[d].pc = "prepared" => c = d
    /\ Validates(c) /\ Validates(d) => c = d

IInv ==
  /\ Typed
  /\ CampaignFits
  /\ \A i \in Iterations : ExecutionFits(i) /\ AssessmentFits(i) /\ BatchFits(i)
  /\ \A c \in Calls : CallFits(c)
  /\ Alone
  /\ promotion # None => assessments[promotion.iteration] # None
  /\ PromotedWinnerIsProven
-----------------------------------------------------------------------------
(* What every step keeps *)

(* The runs of an execution: their outcomes stand *)
KeepsExecution(old, new) ==
  old # None =>
    /\ new # None /\ new.version = old.version
    /\ \A r \in Runs :
         /\ old.runs[r] \in {"SUCCEEDED", "FAILED"} => new.runs[r] = old.runs[r]
         /\ old.runs[r] = "UNKNOWN" => new.runs[r] \in {"UNKNOWN", "FAILED"}

(* The checks of an assessment that have passed, and the outcomes of its reviews *)
KeepsAssessment(old, new) ==
  old # None =>
    /\ new # None
    /\ \A r \in Runs :
         /\ new.checks[r] # None => old.checks[r] # None
         /\ old.checks[r] = "PASSED" => new.checks[r] = "PASSED"
         /\ \A v \in Reviewers :
              /\ old.reviews[r][v] \in {"PASSED", "REJECTED", "FAILED"} =>
                   new.reviews[r][v] = old.reviews[r][v]
              /\ old.reviews[r][v] = "UNKNOWN" => new.reviews[r][v] \in {"UNKNOWN", "FAILED"}

Keeps ==
  \A i \in Iterations :
    /\ KeepsExecution(executions[i], executions'[i])
    /\ KeepsAssessment(assessments[i], assessments'[i])
    /\ batches[i] # None => batches'[i] = batches[i]

(* What one row keeps while it stays as it is *)
LEMMA SameKeeps ==
  /\ \A e : KeepsExecution(e, e)
  /\ \A a : KeepsAssessment(a, a)
BY Zenon DEF KeepsExecution, KeepsAssessment

(* Evidence stays evidence *)
LEMMA EvidenceStays ==
  ASSUME NEW evidence, NEW a, NEW b, EvidenceIn(evidence, a), KeepsAssessment(a, b)
  PROVE  EvidenceIn(evidence, b)
BY DEF EvidenceIn, KeepsAssessment

(* A trusted batch stays founded on its assessment *)
LEMMA BatchStays ==
  ASSUME NEW i \in Iterations, BatchFits(i), batches'[i] = batches[i],
         KeepsAssessment(assessments[i], assessments'[i])
  PROVE  BatchFits(i)'
<1>1. CASE batches[i] # None /\ batches[i].evidence # None
  <2>1. EvidenceIn(batches[i].evidence, assessments'[i])
    BY Zenon, <1>1, EvidenceStays DEF BatchFits
  <2>2. EvidenceIn(batches[i].evidence, assessments[i])'
    BY Zenon, <2>1 DEF EvidenceIn
  <2> QED
    BY Zenon, <1>1, <2>2 DEF BatchFits, EligibleRuns
<1>2. CASE ~(batches[i] # None /\ batches[i].evidence # None)
  BY Zenon, <1>2 DEF BatchFits
<1> QED
  BY Zenon, <1>1, <1>2

(* The rows of one iteration that a step does not write *)
LEMMA ExecutionStays ==
  ASSUME NEW i \in Iterations, ExecutionFits(i), executions'[i] = executions[i],
         executions[i] = None => assessments'[i] = None,
         \A r \in Runs : sent'[<<i, r>>] = sent[<<i, r>>]
  PROVE  ExecutionFits(i)'
BY Zenon DEF ExecutionFits

LEMMA AssessmentStays ==
  ASSUME NEW i \in Iterations, AssessmentFits(i), ExecutionFits(i), assessments'[i] = assessments[i],
         KeepsExecution(executions[i], executions'[i]),
         batches[i] # None => batches'[i] = batches[i], reconciled'[i] = reconciled[i],
         \A r \in Runs, v \in Reviewers : sent'[<<i, r, v>>] = sent[<<i, r, v>>]
  PROVE  AssessmentFits(i)'
BY DEF AssessmentFits, ExecutionFits, Unreviewed, KeepsExecution

(* A command that does not take the step *)
LEMMA CallStays ==
  ASSUME NEW d \in Calls, call[d] \in CallRow, CallFits(d), Keeps, call'[d] = call[d],
         call[d].pc = "prepared" =>
           /\ executions'[call[d].iteration].status = "PREPARED"
           /\ \A r \in Runs : sent'[<<call[d].iteration, r>>] = 0,
         call[d].pc = "assessing" =>
           /\ Unreviewed(call[d].iteration)'
           /\ \A r \in Runs : assessments'[call[d].iteration].checks[r] \in {"PREPARED", "INTERRUPTED", None}
  PROVE  CallFits(d)'
<1> DEFINE i == call[d].iteration
<1>1. CASE call[d].pc = "idle"
  BY Zenon, <1>1 DEF CallFits
<1>2. CASE call[d].pc # "idle"
  <2>1. i \in Iterations /\ call[d].actor \in Humans
    BY Zenon, <1>2 DEF CallFits
  <2>2. /\ KeepsExecution(executions[i], executions'[i])
        /\ KeepsAssessment(assessments[i], assessments'[i])
        /\ batches[i] # None => batches'[i] = batches[i]
    BY Zenon, <2>1 DEF Keeps
  <2>3. executions[i] # None => executions'[i] # None
    BY Zenon, <2>2 DEF KeepsExecution
  <2>4. assessments[i] # None => assessments'[i] # None
    BY Zenon, <2>2 DEF KeepsAssessment
  <2>5. call[d].pc \in {"reviewing", "asking"} =>
          call[d].asked # {} /\ \A m \in call[d].asked : assessments'[i].checks[m[1]] = "PASSED"
    <3>1. \A m \in call[d].asked : m[1] \in Runs
      BY Zenon DEF CallRow
    <3> QED
      BY Zenon, <2>2, <3>1 DEF CallFits, KeepsAssessment
  <2>6. call[d].pc = "deciding" => EvidenceIn(call[d].evidence, assessments'[i])
    BY Zenon, <2>2, EvidenceStays DEF CallFits
  <2>7. call[d].pc = "deciding" => EvidenceIn(call[d].evidence, assessments[i])'
    BY <2>6 DEF EvidenceIn
  <2> QED
    BY Zenon, <1>2, <2>1, <2>2, <2>3, <2>4, <2>5, <2>7 DEF CallFits
<1> QED
  BY Zenon, <1>1, <1>2

(* A command about to validate has seen neither checks nor reviews begin *)
LEMMA Assessing ==
  ASSUME NEW d \in Calls, CallFits(d), call[d].pc = "assessing"
  PROVE  /\ call[d].iteration \in Iterations /\ Unreviewed(call[d].iteration)
         /\ \A r \in Runs : assessments[call[d].iteration].checks[r] \in {"PREPARED", "INTERRUPTED", None}
BY Zenon DEF CallFits

LEMMA UnreviewedStays ==
  ASSUME NEW i \in Iterations, Unreviewed(i), assessments'[i] = assessments[i],
         \A r \in Runs, v \in Reviewers : sent'[<<i, r, v>>] = sent[<<i, r, v>>]
  PROVE  Unreviewed(i)'
BY Zenon DEF Unreviewed

(* What is promoted stays proven: its check and its reviews stay passed *)
LEMMA PromotedStays ==
  ASSUME IInv, Keeps, promotion' = promotion
  PROVE  (promotion # None => assessments[promotion.iteration] # None)' /\ PromotedWinnerIsProven'
<1>1. CASE promotion = None
  BY Zenon, <1>1 DEF PromotedWinnerIsProven
<1>2. CASE promotion # None
  <2> DEFINE i == promotion.iteration
             r == promotion.run
             passed == {v \in Reviewers : assessments[i].reviews[r][v] = "PASSED"}
             still == {v \in Reviewers : assessments'[i].reviews[r][v] = "PASSED"}
  <2>1. i \in Iterations /\ r \in Runs
    BY Zenon, <1>2 DEF IInv, Typed, PromotionRow
  <2>2. /\ assessments[i] # None /\ executions[i] # None
        /\ KeepsExecution(executions[i], executions'[i])
        /\ KeepsAssessment(assessments[i], assessments'[i])
    BY Zenon, <1>2, <2>1 DEF IInv, ExecutionFits, Keeps
  <2>3. /\ executions[i].runs[r] = "SUCCEEDED" /\ executions[i].version = promotion.version
        /\ assessments[i].checks[r] = "PASSED" /\ Cardinality(passed) >= MinReviews
    BY Zenon, <1>2 DEF IInv, PromotedWinnerIsProven
  <2>4. /\ executions'[i].runs[r] = "SUCCEEDED" /\ executions'[i].version = promotion.version
        /\ assessments'[i] # None /\ assessments'[i].checks[r] = "PASSED"
    BY Zenon, <2>1, <2>2, <2>3 DEF KeepsExecution, KeepsAssessment
  <2>5. passed \subseteq still /\ still \subseteq Reviewers
    BY <2>1, <2>2 DEF KeepsAssessment
  <2> HIDE DEF passed, still
  <2>6. IsFiniteSet(passed) /\ IsFiniteSet(still) /\ Cardinality(passed) <= Cardinality(still)
    BY Zenon, <2>5, BoundAssumption, FS_Subset
  <2>7. Cardinality(passed) \in Nat /\ Cardinality(still) \in Nat
    BY Zenon, <2>6, FS_CardinalityType
  <2>8. Cardinality(still) >= MinReviews
    <3>1. MinReviews \in Int
      BY BoundAssumption, FS_CardinalityType
    <3> QED
      BY <2>3, <2>6, <2>7, <3>1
  <2> QED
    BY Zenon, <1>2, <2>4, <2>8 DEF PromotedWinnerIsProven, still
<1> QED
  BY Zenon, <1>1, <1>2

(* A command goes on to a part where others may be as well *)
LEMMA StillAlone ==
  ASSUME Alone, call \in [Calls -> CallRow], NEW c \in Calls, NEW k \in CallRow,
         call' = [call EXCEPT ![c] = k],
         k.pc \notin {"prepared", "assessing", "checking"}
  PROVE  Alone'
BY Zenon DEF Alone, Validates

(* A step that only moves a command on *)
LEMMA OnlyCall ==
  ASSUME IInv, NEW c \in Calls, NEW k \in CallRow,
         call' = [call EXCEPT ![c] = k],
         k.pc \notin {"prepared", "assessing", "checking"}, CallFits(c)',
         UNCHANGED <<workflow, campaign, repairs, executions, assessments, recoveries, reconciled,
                     batches, promotion, observed, sent>>
  PROVE  IInv' /\ Keeps
<1>1. Keeps
  BY Zenon, SameKeeps DEF Keeps
<1>2. Typed'
  BY Zenon DEF IInv, Typed
<1>3. CampaignFits'
  BY Zenon DEF IInv, CampaignFits
<1>4. ASSUME NEW i \in Iterations PROVE ExecutionFits(i)' /\ AssessmentFits(i)' /\ BatchFits(i)'
  <2>1. ExecutionFits(i) /\ AssessmentFits(i) /\ BatchFits(i)
    BY Zenon DEF IInv
  <2>2. ExecutionFits(i)'
    BY Zenon, <2>1, ExecutionStays DEF ExecutionFits
  <2>3. AssessmentFits(i)'
    BY Zenon, <2>1, SameKeeps, AssessmentStays
  <2>4. BatchFits(i)'
    BY Zenon, <2>1, SameKeeps, BatchStays
  <2> QED
    BY Zenon, <2>2, <2>3, <2>4
<1>5. ASSUME NEW d \in Calls PROVE CallFits(d)'
  <2>1. CASE d = c
    BY Zenon, <2>1
  <2>2. CASE d # c
    <3>1. call'[d] = call[d] /\ call[d] \in CallRow /\ CallFits(d)
      BY Zenon, <2>2 DEF IInv, Typed
    <3>2. call[d].pc = "prepared" =>
            /\ executions'[call[d].iteration].status = "PREPARED"
            /\ \A r \in Runs : sent'[<<call[d].iteration, r>>] = 0
      BY Zenon, <3>1 DEF CallFits
    <3>3. call[d].pc = "assessing" =>
            /\ Unreviewed(call[d].iteration)'
            /\ \A r \in Runs : assessments'[call[d].iteration].checks[r] \in {"PREPARED", "INTERRUPTED", None}
      BY Zenon, <3>1, Assessing, UnreviewedStays
    <3> QED
      BY Zenon, <1>1, <3>1, <3>2, <3>3, CallStays
  <2> QED
    BY Zenon, <2>1, <2>2
<1>6. Alone'
  BY Zenon, StillAlone DEF IInv, Typed
<1> QED
  BY Zenon, <1>1, <1>2, <1>3, <1>4, <1>5, <1>6, PromotedStays DEF IInv

(* A step that writes one assessment and moves at most one command on *)
LEMMA OnlyAssessment ==
  ASSUME IInv, NEW i \in Iterations, NEW b \in Assessment, NEW S \in SUBSET Calls,
         assessments' = [assessments EXCEPT ![i] = b], executions[i] # None,
         call' \in [Calls -> CallRow], \A d \in Calls \ S : call'[d] = call[d],
         UNCHANGED <<workflow, campaign, repairs, executions, batches, promotion>>,
         recoveries' \in SUBSET (Iterations \X AssessmentState \X Humans),
         reconciled' \in [Iterations -> Humans \cup {None}],
         \A j \in Iterations \ {i} : reconciled'[j] = reconciled[j],
         observed' \in SUBSET Iterations,
         sent' \in [Requests -> Nat],
         \A j \in Iterations, r \in Runs : sent'[<<j, r>>] = sent[<<j, r>>],
         \A j \in Iterations \ {i}, r \in Runs, v \in Reviewers : sent'[<<j, r, v>>] = sent[<<j, r, v>>],
         KeepsAssessment(assessments[i], b), AssessmentFits(i)', Alone',
         \A d \in S : CallFits(d)',
         \A d \in Calls \ S : call[d].pc = "assessing" /\ call[d].iteration = i =>
           Unreviewed(i)' /\ \A r \in Runs : b.checks[r] \in {"PREPARED", "INTERRUPTED", None}
  PROVE  IInv' /\ Keeps
<1>0. /\ assessments \in [Iterations -> Assessment \cup {None}]
      /\ assessments'[i] = b /\ \A j \in Iterations : j # i => assessments'[j] = assessments[j]
  BY Zenon DEF IInv, Typed
<1>1. Keeps
  BY Zenon, <1>0, SameKeeps DEF Keeps
<1>2. Typed'
  <2>1. assessments' \in [Iterations -> Assessment \cup {None}]
    BY Zenon, <1>0
  <2> QED
    BY Zenon, <2>1 DEF IInv, Typed
<1>3. CampaignFits'
  BY Zenon DEF IInv, CampaignFits
<1>4. ASSUME NEW j \in Iterations PROVE ExecutionFits(j)' /\ AssessmentFits(j)' /\ BatchFits(j)'
  <2>1. ExecutionFits(j) /\ AssessmentFits(j) /\ BatchFits(j)
    BY Zenon DEF IInv
  <2>2. ExecutionFits(j)'
    <3>1. executions[j] = None => assessments'[j] = None
      BY Zenon, <1>0, <2>1 DEF ExecutionFits
    <3> QED
      BY Zenon, <2>1, <3>1, ExecutionStays
  <2>3. AssessmentFits(j)'
    <3>1. CASE j = i
      BY Zenon, <3>1
    <3>2. CASE j # i
      BY Zenon, <1>0, <2>1, <3>2, SameKeeps, AssessmentStays
    <3> QED
      BY Zenon, <3>1, <3>2
  <2>4. BatchFits(j)'
    BY Zenon, <1>1, <2>1, BatchStays DEF Keeps
  <2> QED
    BY Zenon, <2>2, <2>3, <2>4
<1>5. ASSUME NEW d \in Calls PROVE CallFits(d)'
  <2>1. CASE d \in S
    BY Zenon, <2>1
  <2>2. CASE d \notin S
    <3>1. call'[d] = call[d] /\ call[d] \in CallRow /\ CallFits(d)
      BY Zenon, <2>2 DEF IInv, Typed
    <3>2. call[d].pc = "prepared" =>
            /\ executions'[call[d].iteration].status = "PREPARED"
            /\ \A r \in Runs : sent'[<<call[d].iteration, r>>] = 0
      BY Zenon, <3>1 DEF CallFits
    <3>3. call[d].pc = "assessing" =>
            /\ Unreviewed(call[d].iteration)'
            /\ \A r \in Runs : assessments'[call[d].iteration].checks[r] \in {"PREPARED", "INTERRUPTED", None}
      <4>1. CASE call[d].iteration = i
        BY Zenon, <1>0, <2>2, <4>1
      <4>2. CASE call[d].iteration # i
        BY <1>0, <3>1, <4>2, Assessing, UnreviewedStays
      <4> QED
        BY Zenon, <4>1, <4>2
    <3> QED
      BY Zenon, <1>1, <3>1, <3>2, <3>3, CallStays
  <2> QED
    BY Zenon, <2>1, <2>2
<1> QED
  BY Zenon, <1>1, <1>2, <1>3, <1>4, <1>5, PromotedStays DEF IInv

(* A step that writes one execution and moves at most one command on *)
LEMMA OnlyExecution ==
  ASSUME IInv, NEW i \in Iterations, NEW b \in Execution, NEW S \in SUBSET Calls,
         executions' = [executions EXCEPT ![i] = b], CampaignFits',
         call' \in [Calls -> CallRow], \A d \in Calls \ S : call'[d] = call[d],
         UNCHANGED <<workflow, campaign, repairs, assessments, recoveries, reconciled, batches,
                     promotion, observed>>,
         sent' \in [Requests -> Nat],
         \A j \in Iterations, r \in Runs, v \in Reviewers : sent'[<<j, r, v>>] = sent[<<j, r, v>>],
         \A j \in Iterations \ {i}, r \in Runs : sent'[<<j, r>>] = sent[<<j, r>>],
         KeepsExecution(executions[i], b), ExecutionFits(i)', Alone',
         \A d \in S : CallFits(d)',
         \A d \in Calls \ S : ~(call[d].pc = "prepared" /\ call[d].iteration = i)
  PROVE  IInv' /\ Keeps
<1>0. /\ executions \in [Iterations -> Execution \cup {None}]
      /\ executions'[i] = b /\ \A j \in Iterations : j # i => executions'[j] = executions[j]
  BY Zenon DEF IInv, Typed
<1>1. Keeps
  BY Zenon, <1>0, SameKeeps DEF Keeps
<1>2. Typed'
  <2>1. executions' \in [Iterations -> Execution \cup {None}]
    BY Zenon, <1>0
  <2> QED
    BY Zenon, <2>1 DEF IInv, Typed
<1>3. ASSUME NEW j \in Iterations PROVE ExecutionFits(j)' /\ AssessmentFits(j)' /\ BatchFits(j)'
  <2>1. ExecutionFits(j) /\ AssessmentFits(j) /\ BatchFits(j)
    BY Zenon DEF IInv
  <2>2. ExecutionFits(j)'
    <3>1. CASE j = i
      BY Zenon, <3>1
    <3>2. CASE j # i
      <4>1. executions[j] = None => assessments'[j] = None
        BY Zenon, <2>1 DEF ExecutionFits
      <4> QED
        BY Zenon, <1>0, <2>1, <3>2, <4>1, ExecutionStays
    <3> QED
      BY Zenon, <3>1, <3>2
  <2>3. AssessmentFits(j)'
    BY Zenon, <1>1, <2>1, AssessmentStays DEF Keeps
  <2>4. BatchFits(j)'
    BY Zenon, <1>1, <2>1, BatchStays DEF Keeps
  <2> QED
    BY Zenon, <2>2, <2>3, <2>4
<1>4. ASSUME NEW d \in Calls PROVE CallFits(d)'
  <2>1. CASE d \in S
    BY Zenon, <2>1
  <2>2. CASE d \notin S
    <3>1. call'[d] = call[d] /\ call[d] \in CallRow /\ CallFits(d)
      BY Zenon, <2>2 DEF IInv, Typed
    <3>2. call[d].pc = "prepared" =>
            /\ executions'[call[d].iteration].status = "PREPARED"
            /\ \A r \in Runs : sent'[<<call[d].iteration, r>>] = 0
      BY <1>0, <2>2, <3>1 DEF CallFits
    <3>3. call[d].pc = "assessing" =>
            /\ Unreviewed(call[d].iteration)'
            /\ \A r \in Runs : assessments'[call[d].iteration].checks[r] \in {"PREPARED", "INTERRUPTED", None}
      BY Zenon, <3>1, Assessing, UnreviewedStays
    <3> QED
      BY Zenon, <1>1, <3>1, <3>2, <3>3, CallStays
  <2> QED
    BY Zenon, <2>1, <2>2
<1> QED
  BY Zenon, <1>1, <1>2, <1>3, <1>4, PromotedStays DEF IInv
-----------------------------------------------------------------------------
(* Commands *)

Begun(h, i, pc) == [NoCall EXCEPT !.pc = pc, !.iteration = i, !.actor = h]

LEMMA BegunRow ==
  ASSUME NEW h \in Humans, NEW i \in Iterations, NEW pc \in CallState
  PROVE  /\ Begun(h, i, pc) \in CallRow
         /\ Begun(h, i, pc).pc = pc /\ Begun(h, i, pc).iteration = i /\ Begun(h, i, pc).actor = h
BY Zenon DEF Begun, NoCall, CallRow

LEMMA NoCallRow == NoCall \in CallRow /\ NoCall.pc = "idle"
BY Zenon DEF NoCall, CallRow, CallState

At(c, pc) == [call[c] EXCEPT !.pc = pc]

LEMMA AtRow ==
  ASSUME NEW c \in Calls, call \in [Calls -> CallRow], NEW pc \in CallState
  PROVE  /\ At(c, pc) \in CallRow
         /\ At(c, pc).pc = pc /\ At(c, pc).iteration = call[c].iteration
         /\ At(c, pc).actor = call[c].actor /\ At(c, pc).asked = call[c].asked
BY Zenon DEF At, CallRow

(* A command that has ended, or is at a part that needs only its assessment *)
LEMMA EndedFits ==
  ASSUME NEW c \in Calls, call'[c] = NoCall
  PROVE  CallFits(c)'
BY DEF CallFits, NoCall

LEMMA AssessedFits ==
  ASSUME NEW c \in Calls, call'[c].pc \in {"checking", "resuming", "empty", "submitting"},
         call'[c].iteration \in Iterations, call'[c].actor \in Humans,
         assessments'[call'[c].iteration] # None
  PROVE  CallFits(c)'
BY Zenon DEF CallFits

LEMMA DecidingFits ==
  ASSUME NEW c \in Calls, call'[c].pc = "deciding",
         call'[c].iteration \in Iterations, call'[c].actor \in Humans,
         assessments'[call'[c].iteration] # None, call'[c].evidence # None,
         EvidenceIn(call[c].evidence, assessments[call[c].iteration])'
  PROVE  CallFits(c)'
BY Zenon DEF CallFits

LEMMA CrashStep ==
  ASSUME IInv, NEW c \in Calls, Crash(c)
  PROVE  IInv' /\ Keeps
<1>1. call' = [call EXCEPT ![c] = NoCall]
  BY Zenon DEF Crash, Return
<1>2. CallFits(c)'
  <2>1. call'[c] = NoCall
    BY Zenon, <1>1 DEF IInv, Typed
  <2> QED
    BY Zenon, <2>1, EndedFits
<1> QED
  BY Zenon, <1>1, <1>2, NoCallRow, OnlyCall DEF Crash

(* A command begins, or goes on, over an assessment that is there *)
LEMMA OverAssessment ==
  ASSUME IInv, NEW c \in Calls, NEW k \in CallRow, call' = [call EXCEPT ![c] = k],
         k.pc \in {"resuming", "submitting"}, k.iteration \in Iterations, k.actor \in Humans,
         assessments[k.iteration] # None,
         UNCHANGED <<workflow, campaign, repairs, executions, assessments, recoveries, reconciled,
                     batches, promotion, observed, sent>>
  PROVE  IInv' /\ Keeps
<1>1. call'[c] = k
  BY Zenon DEF IInv, Typed
<1>2. CallFits(c)'
  BY Zenon, <1>1, AssessedFits
<1> QED
  BY Zenon, <1>2, OnlyCall

LEMMA ReplayValidationStep ==
  ASSUME IInv, NEW c \in Calls, NEW h \in Humans, NEW i \in Iterations, ReplayValidation(c, h, i)
  PROVE  IInv' /\ Keeps
<1>1. call' = [call EXCEPT ![c] = Begun(h, i, "resuming")] /\ assessments[i] # None
  BY Zenon DEF ReplayValidation, Begin, Begun, Ready
<1>2. "resuming" \in CallState
  BY Zenon DEF CallState
<1> DEFINE k == Begun(h, i, "resuming")
<1>3. k \in CallRow /\ k.pc = "resuming" /\ k.iteration = i /\ k.actor = h
  BY <1>2, BegunRow
<1> HIDE DEF k
<1> QED
  BY Zenon, <1>1, <1>2, <1>3, OverAssessment DEF ReplayValidation, k

LEMMA ReplayReconciliationStep ==
  ASSUME IInv, NEW c \in Calls, NEW h \in Humans, NEW i \in Iterations, ReplayReconciliation(c, h, i)
  PROVE  IInv' /\ Keeps
<1>1. call' = [call EXCEPT ![c] = Begun(h, i, "submitting")]
  BY Zenon DEF ReplayReconciliation, Begin, Begun
<1>2. assessments[i] # None
  BY Zenon, NoneAssumption DEF ReplayReconciliation, IInv, AssessmentFits
<1>3. "submitting" \in CallState
  BY Zenon DEF CallState
<1> DEFINE k == Begun(h, i, "submitting")
<1>4. k \in CallRow /\ k.pc = "submitting" /\ k.iteration = i /\ k.actor = h
  BY <1>3, BegunRow
<1> HIDE DEF k
<1> QED
  BY Zenon, <1>1, <1>2, <1>3, <1>4, OverAssessment DEF ReplayReconciliation, k

LEMMA ReplayRecoveryStep ==
  ASSUME IInv, NEW c \in Calls, NEW h \in Humans, NEW i \in Iterations, ReplayRecovery(c, h, i)
  PROVE  IInv' /\ Keeps
<1>1. call' = [call EXCEPT ![c] = Begun(h, i, "resuming")] /\ assessments[i] # None
  BY Zenon DEF ReplayRecovery, Begin, Begun, Ready
<1>2. "resuming" \in CallState
  BY Zenon DEF CallState
<1> DEFINE k == Begun(h, i, "resuming")
<1>3. k \in CallRow /\ k.pc = "resuming" /\ k.iteration = i /\ k.actor = h
  BY <1>2, BegunRow
<1> HIDE DEF k
<1> QED
  BY Zenon, <1>1, <1>2, <1>3, OverAssessment DEF ReplayRecovery, k

LEMMA ResumeAssessmentStep ==
  ASSUME IInv, NEW c \in Calls, ResumeAssessment(c)
  PROVE  IInv' /\ Keeps
<1>1. call' = [call EXCEPT ![c] = At(c, "submitting")]
  BY Zenon DEF ResumeAssessment, Goto, At
<1>2. call[c].pc = "resuming" /\ CallFits(c) /\ call \in [Calls -> CallRow]
  BY Zenon DEF ResumeAssessment, IInv, Typed
<1>3. call[c].iteration \in Iterations /\ call[c].actor \in Humans /\ assessments[call[c].iteration] # None
  BY Zenon, <1>2 DEF CallFits
<1>4. "submitting" \in CallState
  BY Zenon DEF CallState
<1>5. /\ At(c, "submitting") \in CallRow /\ At(c, "submitting").pc = "submitting"
      /\ At(c, "submitting").iteration = call[c].iteration /\ At(c, "submitting").actor = call[c].actor
  BY Zenon, <1>2, <1>4, AtRow
<1> QED
  BY Zenon, <1>1, <1>3, <1>5, OverAssessment DEF ResumeAssessment

(* What is read of an assessment is evidence of it *)
LEMMA EvidenceRead ==
  ASSUME NEW a \in Assessment
  PROVE  EvidenceOf(a) \in Evidence /\ EvidenceOf(a) # None /\ EvidenceIn(EvidenceOf(a), a)
<1>1. EvidenceOf(a) \in Evidence
  BY Zenon DEF EvidenceOf, Evidence, Assessment, ReviewState
<1>2. EvidenceIn(EvidenceOf(a), a)
  BY Zenon, NoneAssumption DEF EvidenceOf, EvidenceIn, ReviewState
<1> QED
  BY Zenon, <1>1, <1>2, NoneAssumption

LEMMA ReadEvidenceStep ==
  ASSUME IInv, NEW c \in Calls, ReadEvidence(c)
  PROVE  IInv' /\ Keeps
<1> DEFINE i == call[c].iteration
           ev == EvidenceOf(assessments[i])
           k == [call[c] EXCEPT !.pc = "deciding", !.evidence = ev]
<1>1. call[c].pc = "submitting" /\ CallFits(c) /\ call[c] \in CallRow /\ call' = [call EXCEPT ![c] = k]
  BY Zenon DEF ReadEvidence, IInv, Typed
<1>2. i \in Iterations /\ call[c].actor \in Humans /\ assessments[i] # None
  BY Zenon, <1>1 DEF CallFits
<1>3. assessments[i] \in Assessment
  BY Zenon, <1>2 DEF IInv, Typed
<1>4. ev \in Evidence /\ ev # None /\ EvidenceIn(ev, assessments[i])
  BY Zenon, <1>3, EvidenceRead
<1> HIDE DEF ev
<1>5. /\ k \in CallRow /\ k.pc = "deciding" /\ k.evidence = ev
      /\ k.iteration = i /\ k.actor = call[c].actor
  BY Zenon, <1>1, <1>4 DEF CallRow, CallState
<1> HIDE DEF k
<1>6. call'[c] = k /\ assessments' = assessments
  BY Zenon, <1>1 DEF ReadEvidence, IInv, Typed
<1>7. EvidenceIn(call[c].evidence, assessments[call[c].iteration])'
  BY Zenon, <1>4, <1>5, <1>6 DEF EvidenceIn
<1>8. CallFits(c)'
  BY Zenon, <1>2, <1>4, <1>5, <1>6, <1>7, DecidingFits
<1> QED
  BY Zenon, <1>1, <1>5, <1>8, OnlyCall DEF ReadEvidence

(* The assessment a command is about *)
LEMMA CallAssessment ==
  ASSUME IInv, NEW c \in Calls, call[c].pc \notin {"idle", "prepared", "executing"}
  PROVE  /\ call[c].iteration \in Iterations /\ call[c].actor \in Humans
         /\ assessments[call[c].iteration] # None
         /\ assessments[call[c].iteration] \in Assessment
BY Zenon DEF IInv, CallFits, Typed
-----------------------------------------------------------------------------
(* Requests *)

LEMMA RequestKinds ==
  ASSUME NEW i, NEW r, NEW j, NEW q, NEW v
  PROVE  <<i, r>> # <<j, q, v>>
<1>1. Len(<<i, r>>) = 2 /\ Len(<<j, q, v>>) = 3
  BY Zenon
<1> QED
  BY Zenon, <1>1

(* What sending does to the counts *)
LEMMA SendCounts ==
  ASSUME sent \in [Requests -> Nat], NEW requests, Send(requests)
  PROVE  /\ sent' \in [Requests -> Nat]
         /\ \A m \in Requests : m \in requests => sent'[m] = sent[m] + 1
         /\ \A m \in Requests : m \notin requests => sent'[m] = sent[m]
BY DEF Send

LEMMA SendToProducers ==
  ASSUME sent \in [Requests -> Nat], NEW i \in Iterations, NEW R \in SUBSET Runs,
         Send({<<i, r>> : r \in R})
  PROVE  /\ sent' \in [Requests -> Nat]
         /\ \A j \in Iterations, r \in Runs, v \in Reviewers : sent'[<<j, r, v>>] = sent[<<j, r, v>>]
         /\ \A j \in Iterations \ {i}, r \in Runs : sent'[<<j, r>>] = sent[<<j, r>>]
         /\ \A r \in Runs : sent[<<i, r>>] = 0 => sent'[<<i, r>>] <= 1
<1> DEFINE requests == {<<i, r>> : r \in R}
<1>1. \A j \in Iterations, r \in Runs, v \in Reviewers : <<j, r, v>> \in Requests /\ <<j, r, v>> \notin requests
  BY Zenon, RequestKinds DEF Requests
<1>2. \A j \in Iterations, r \in Runs : <<j, r>> \in Requests
  BY Zenon DEF Requests
<1>3. \A j \in Iterations \ {i}, r \in Runs : <<j, r>> \notin requests
  BY Zenon
<1>4. /\ sent' \in [Requests -> Nat]
      /\ \A m \in Requests : m \in requests => sent'[m] = sent[m] + 1
      /\ \A m \in Requests : m \notin requests => sent'[m] = sent[m]
  BY Zenon, SendCounts
<1> HIDE DEF requests
<1>5. \A r \in Runs : sent[<<i, r>>] = 0 => sent'[<<i, r>>] <= 1
  BY <1>2, <1>4
<1> QED
  BY Zenon, <1>1, <1>2, <1>3, <1>4, <1>5

LEMMA SendToReviewers ==
  ASSUME sent \in [Requests -> Nat], NEW i \in Iterations, NEW A \in SUBSET (Runs \X Reviewers),
         Send({<<i, m[1], m[2]>> : m \in A})
  PROVE  /\ sent' \in [Requests -> Nat]
         /\ \A j \in Iterations, r \in Runs : sent'[<<j, r>>] = sent[<<j, r>>]
         /\ \A j \in Iterations \ {i}, r \in Runs, v \in Reviewers : sent'[<<j, r, v>>] = sent[<<j, r, v>>]
         /\ \A r \in Runs, v \in Reviewers : sent[<<i, r, v>>] = 0 => sent'[<<i, r, v>>] <= 1
<1> DEFINE requests == {<<i, m[1], m[2]>> : m \in A}
<1>1. \A j \in Iterations, r \in Runs : <<j, r>> \in Requests /\ <<j, r>> \notin requests
  BY Zenon, RequestKinds DEF Requests
<1>2. \A j \in Iterations, r \in Runs, v \in Reviewers : <<j, r, v>> \in Requests
  BY Zenon DEF Requests
<1>3. \A j \in Iterations \ {i}, r \in Runs, v \in Reviewers : <<j, r, v>> \notin requests
  BY Zenon
<1>4. /\ sent' \in [Requests -> Nat]
      /\ \A m \in Requests : m \in requests => sent'[m] = sent[m] + 1
      /\ \A m \in Requests : m \notin requests => sent'[m] = sent[m]
  BY Zenon, SendCounts
<1> HIDE DEF requests
<1>5. \A r \in Runs, v \in Reviewers : sent[<<i, r, v>>] = 0 => sent'[<<i, r, v>>] <= 1
  BY <1>2, <1>4
<1> QED
  BY Zenon, <1>1, <1>2, <1>3, <1>4, <1>5
-----------------------------------------------------------------------------
(* Provider executions *)

LEMMA PrepareExecutionStep ==
  ASSUME IInv, NEW c \in Calls, NEW h \in Humans, PrepareExecution(c, h)
  PROVE  IInv' /\ Keeps
<1>i. PICK i \in Iterations : i = campaign.iteration
  BY Zenon DEF PrepareExecution, Executable, CampaignOpen, IInv, Typed, CampaignRow
<1> DEFINE k == Begun(h, i, "prepared")
<1>0. /\ Typed /\ campaign # None /\ executions[i] = None /\ i \in Iterations
      /\ call' = [call EXCEPT ![c] = k] /\ RepairMatches(i)
      /\ sent' = sent
  BY Zenon, <1>i DEF PrepareExecution, Executable, CampaignOpen, Begin, Begun, IInv
<1>1. PICK selected \in SUBSET Runs \ {{}} :
        executions' = [executions EXCEPT ![i] =
                         [status |-> "PREPARED", version |-> workflow.version,
                          runs |-> [r \in Runs |-> IF r \in selected THEN "PREPARED" ELSE None]]]
  BY Zenon, <1>i DEF PrepareExecution, PutExecution
<1> DEFINE b == [status |-> "PREPARED", version |-> workflow.version,
                 runs |-> [r \in Runs |-> IF r \in selected THEN "PREPARED" ELSE None]]
<1>2. /\ b \in Execution /\ b.status = "PREPARED" /\ b.version = workflow.version
      /\ \A r \in Runs : b.runs[r] \in {"PREPARED", None}
  BY Zenon, <1>0 DEF Typed, Execution, ExecutionState, RunState
<1>3. executions' = [executions EXCEPT ![i] = b]
  BY Zenon, <1>1
<1> HIDE DEF b
<1>4. "prepared" \in CallState
  BY Zenon DEF CallState
<1>5. k \in CallRow /\ k.pc = "prepared" /\ k.iteration = i /\ k.actor = h
  BY <1>0, <1>4, BegunRow
<1> HIDE DEF k
<1>6. /\ executions'[i] = b /\ \A j \in Iterations : j # i => executions'[j] = executions[j]
      /\ b # None
  BY Zenon, <1>0, <1>2, <1>3, NoneAssumption DEF Typed
<1>7. ExecutionFits(i) /\ CampaignFits /\ Alone
  BY Zenon, <1>0 DEF IInv
<1>8. ExecutionFits(i)'
  BY Zenon, <1>0, <1>2, <1>6, <1>7 DEF ExecutionFits
<1>9. CampaignFits'
  <2>1. campaign' = campaign /\ batches' = batches /\ repairs' = repairs
    BY Zenon DEF PrepareExecution
  <2>2. i > 1 => b.version = repairs[i]
    BY <1>0, <1>2 DEF RepairMatches
  <2>3. \A j \in Iterations : j > i => executions'[j] = None
    BY Zenon, <1>i, <1>0, <1>6, <1>7 DEF CampaignFits
  <2>4. \A j \in Iterations : j > 1 /\ executions'[j] # None => executions'[j].version = repairs[j]
    BY Zenon, <1>0, <1>6, <1>7, <2>2 DEF CampaignFits
  <2> QED
    BY Zenon, <1>i, <1>0, <1>7, <2>1, <2>3, <2>4 DEF CampaignFits
<1>10. /\ call'[c] = k /\ \A d \in Calls : d # c => call'[d] = call[d]
       /\ call' \in [Calls -> CallRow]
  BY Zenon, <1>0, <1>5 DEF Typed
<1>11. \A d \in Calls : ~(call[d].pc = "prepared" /\ call[d].iteration = i)
  BY Zenon, <1>0 DEF IInv, CallFits
<1>12. Alone'
  BY Zenon, <1>5, <1>7, <1>10, <1>11 DEF Alone, Validates
<1>13. CallFits(c)'
  <2>1. \A r \in Runs : sent'[<<i, r>>] = 0
    BY Zenon, <1>0, <1>7 DEF ExecutionFits
  <2> QED
    BY Zenon, <1>0, <1>2, <1>5, <1>6, <1>10, <2>1 DEF CallFits
<1>14. KeepsExecution(executions[i], b)
  BY Zenon, <1>0 DEF KeepsExecution
<1> DEFINE S == {c}
<1>15. /\ S \in SUBSET Calls
       /\ \A d \in S : CallFits(d)'
       /\ \A d \in Calls \ S : call'[d] = call[d]
       /\ \A d \in Calls \ S : ~(call[d].pc = "prepared" /\ call[d].iteration = i)
  BY Zenon, <1>10, <1>11, <1>13
<1> HIDE DEF S
<1>16. UNCHANGED <<workflow, campaign, repairs, assessments, recoveries, reconciled, batches,
                   promotion, observed>>
  BY Zenon DEF PrepareExecution
<1>17. sent' \in [Requests -> Nat]
  BY Zenon, <1>0 DEF Typed
<1> QED
  BY Zenon, <1>0, <1>2, <1>3, <1>8, <1>9, <1>10, <1>12, <1>14, <1>15, <1>16, <1>17, OnlyExecution

Rerun(e, status, runs) == [e EXCEPT !.status = status, !.runs = runs]

LEMMA RerunRow ==
  ASSUME NEW e \in Execution, NEW status \in ExecutionState, NEW runs \in [Runs -> RunState \cup {None}]
  PROVE  /\ Rerun(e, status, runs) \in Execution
         /\ Rerun(e, status, runs).status = status /\ Rerun(e, status, runs).version = e.version
         /\ Rerun(e, status, runs).runs = runs
BY Zenon DEF Rerun, Execution

(* The runs of an execution move on, and their outcomes stand *)
LEMMA ExecutionMoves ==
  ASSUME IInv, NEW i \in Iterations, executions[i] # None,
         NEW status \in ExecutionState, NEW runs \in [Runs -> RunState \cup {None}], NEW S \in SUBSET Calls,
         executions' = [executions EXCEPT ![i] = Rerun(executions[i], status, runs)],
         status # "PREPARED", status = "RUNNING" => \A r \in Runs : runs[r] \in {"RUNNING", None},
         \A r \in Runs :
           /\ executions[i].runs[r] \in {"SUCCEEDED", "FAILED"} => runs[r] = executions[i].runs[r]
           /\ executions[i].runs[r] = "UNKNOWN" => runs[r] \in {"UNKNOWN", "FAILED"},
         call' \in [Calls -> CallRow], \A d \in Calls \ S : call'[d] = call[d],
         UNCHANGED <<workflow, campaign, repairs, assessments, recoveries, reconciled, batches,
                     promotion, observed>>,
         sent' \in [Requests -> Nat],
         \A j \in Iterations, r \in Runs, v \in Reviewers : sent'[<<j, r, v>>] = sent[<<j, r, v>>],
         \A j \in Iterations \ {i}, r \in Runs : sent'[<<j, r>>] = sent[<<j, r>>],
         \A r \in Runs : sent'[<<i, r>>] <= 1, Alone',
         \A d \in S : CallFits(d)',
         \A d \in Calls \ S : ~(call[d].pc = "prepared" /\ call[d].iteration = i)
  PROVE  IInv' /\ Keeps
<1> DEFINE e == executions[i]
           b == Rerun(e, status, runs)
<1>1. Typed /\ e \in Execution /\ e # None
  BY DEF IInv, Typed
<1>2. b \in Execution /\ b.status = status /\ b.version = e.version /\ b.runs = runs
  BY <1>1, RerunRow
<1>3. executions' = [executions EXCEPT ![i] = b]
  BY Zenon
<1> HIDE DEF b
<1>4. /\ executions'[i] = b /\ \A j \in Iterations : j # i => executions'[j] = executions[j]
      /\ b # None
  BY <1>1, <1>2, <1>3, NoneAssumption DEF Typed
<1>5. CampaignFits'
  <2>1. CampaignFits
    BY Zenon DEF IInv
  <2>2. /\ \A j \in Iterations : executions'[j] = None <=> executions[j] = None
        /\ \A j \in Iterations : executions[j] # None => executions'[j].version = executions[j].version
    BY Zenon, <1>1, <1>2, <1>4
  <2> QED
    BY Zenon, <2>1, <2>2 DEF CampaignFits
<1>6. KeepsExecution(executions[i], b)
  BY Zenon, <1>2, <1>4 DEF KeepsExecution
<1>7. ExecutionFits(i)'
  BY Zenon, <1>2, <1>4 DEF ExecutionFits
<1> QED
  BY Zenon, <1>2, <1>3, <1>5, <1>6, <1>7, OnlyExecution

LEMMA AllRunsRow ==
  ASSUME NEW e \in Execution, NEW status \in RunState
  PROVE  /\ AllRuns(e, status) \in [Runs -> RunState \cup {None}]
         /\ \A r \in Runs : AllRuns(e, status)[r] \in {status, None}
BY Zenon DEF AllRuns

LEMMA StartExecutionStep ==
  ASSUME IInv, NEW c \in Calls, StartExecution(c)
  PROVE  IInv' /\ Keeps
<1>1. call[c].pc = "prepared" /\ CallFits(c) /\ Typed /\ Alone
  BY Zenon DEF StartExecution, IInv
<1>2. PICK i \in Iterations : i = call[c].iteration
  BY Zenon, <1>1 DEF CallFits
<1> DEFINE e == executions[i]
           S == {c}
<1>3. /\ e # None /\ e.status = "PREPARED" /\ call[c].actor \in Humans
      /\ \A r \in Runs : sent[<<i, r>>] = 0
  BY Zenon, <1>1, <1>2 DEF CallFits
<1>4. /\ e \in Execution
      /\ \A r \in Runs : e.runs[r] \in {"PREPARED", None}
  <2>1. ExecutionFits(i)
    BY Zenon DEF IInv
  <2> QED
    BY Zenon, <1>1, <1>3, <2>1 DEF Typed, ExecutionFits
<1>5. \A r \in Runs, w \in {"SUCCEEDED", "FAILED", "UNKNOWN"} : e.runs[r] # w
  BY Zenon, <1>4, NoneAssumption DEF RunState
<1>6. \A d \in Calls \ S : ~(call[d].pc = "prepared" /\ call[d].iteration = i)
  BY Zenon, <1>1, <1>2 DEF Alone
<1>7. UNCHANGED <<workflow, campaign, repairs, assessments, recoveries, reconciled, batches,
                  promotion, observed>>
  BY Zenon DEF StartExecution
<1>8. CASE /\ executions' = [executions EXCEPT ![i] = Rerun(e, "FAILED", AllRuns(e, "FAILED"))]
           /\ call' = [call EXCEPT ![c] = NoCall] /\ UNCHANGED sent
  <2> DEFINE runs == AllRuns(e, "FAILED")
  <2>1. runs \in [Runs -> RunState \cup {None}]
    BY Zenon, <1>4, AllRunsRow DEF RunState
  <2> HIDE DEF runs
  <2>2. call'[c] = NoCall /\ call' \in [Calls -> CallRow] /\ \A d \in Calls \ S : call'[d] = call[d]
    BY Zenon, <1>1, <1>8, NoCallRow DEF Typed
  <2>3. \A d \in S : CallFits(d)'
    BY Zenon, <2>2, EndedFits
  <2>4. Alone'
    BY Zenon, <1>1, <1>8, NoCallRow, StillAlone DEF Typed
  <2>5. sent' \in [Requests -> Nat] /\ \A r \in Runs : sent'[<<i, r>>] <= 1
    BY <1>1, <1>3, <1>8 DEF Typed
  <2>6. "FAILED" \in ExecutionState
    BY Zenon DEF ExecutionState
  <2>7. executions' = [executions EXCEPT ![i] = Rerun(executions[i], "FAILED", runs)]
    BY Zenon, <1>8 DEF runs
  <2>8. S \in SUBSET Calls /\ sent' = sent
    BY Zenon, <1>8
  <2> HIDE DEF S
  <2> QED
    BY ZenonT(30), <1>3, <1>5, <1>6, <1>7, <2>1, <2>2, <2>3, <2>4, <2>5, <2>6, <2>7, <2>8, ExecutionMoves
<1>9. CASE /\ executions' = [executions EXCEPT ![i] = Rerun(e, "RUNNING", AllRuns(e, "RUNNING"))]
           /\ call' = [call EXCEPT ![c] = At(c, "executing")]
           /\ Send({<<i, r>> : r \in {q \in Runs : e.runs[q] # None}})
  <2> DEFINE runs == AllRuns(e, "RUNNING")
             R == {q \in Runs : e.runs[q] # None}
             k == At(c, "executing")
  <2>1. runs \in [Runs -> RunState \cup {None}] /\ \A r \in Runs : runs[r] \in {"RUNNING", None}
    BY Zenon, <1>4, AllRunsRow DEF RunState
  <2>2. k \in CallRow /\ k.pc = "executing" /\ k.iteration = i /\ k.actor \in Humans
    <3>1. "executing" \in CallState /\ call \in [Calls -> CallRow]
      BY Zenon, <1>1 DEF CallState, Typed
    <3> QED
      BY Zenon, <1>2, <1>3, <3>1, AtRow
  <2>3. call' = [call EXCEPT ![c] = k]
    BY Zenon, <1>9
  <2> HIDE DEF k
  <2>4. call'[c] = k /\ call' \in [Calls -> CallRow] /\ \A d \in Calls \ S : call'[d] = call[d]
    BY Zenon, <1>1, <2>2, <2>3 DEF Typed
  <2>5. executions'[i] # None
    <3>1. "RUNNING" \in ExecutionState
      BY Zenon DEF ExecutionState
    <3>2. Rerun(e, "RUNNING", runs) \in Execution
      BY Zenon, <1>4, <2>1, <3>1, RerunRow
    <3>3. Rerun(e, "RUNNING", runs) # None
      BY Zenon, <3>2, NoneAssumption
    <3> QED
      BY Zenon, <1>1, <1>9, <3>3 DEF Typed
  <2>6. \A d \in S : CallFits(d)'
    BY Zenon, <2>2, <2>4, <2>5 DEF CallFits
  <2>7. Alone'
    BY Zenon, <1>1, <2>2, <2>3, StillAlone DEF Typed
  <2>8. R \in SUBSET Runs /\ Send({<<i, r>> : r \in R}) /\ sent \in [Requests -> Nat]
    BY Zenon, <1>1, <1>9 DEF Typed
  <2> HIDE DEF R
  <2>9. /\ sent' \in [Requests -> Nat]
        /\ \A j \in Iterations, r \in Runs, v \in Reviewers : sent'[<<j, r, v>>] = sent[<<j, r, v>>]
        /\ \A j \in Iterations \ {i}, r \in Runs : sent'[<<j, r>>] = sent[<<j, r>>]
        /\ \A r \in Runs : sent'[<<i, r>>] <= 1
    BY Zenon, <1>3, <2>8, SendToProducers
  <2>10. "RUNNING" \in ExecutionState
    BY Zenon DEF ExecutionState
  <2>11. executions' = [executions EXCEPT ![i] = Rerun(executions[i], "RUNNING", runs)]
    BY Zenon, <1>9
  <2>12. S \in SUBSET Calls
    BY Zenon
  <2> HIDE DEF S, runs
  <2> QED
    BY Zenon, <1>3, <1>5, <1>6, <1>7, <2>1, <2>4, <2>6, <2>7, <2>9, <2>10, <2>11, <2>12, ExecutionMoves
<1> QED
  BY <1>2, <1>8, <1>9 DEF StartExecution, PutExecution, Rerun, Return, Goto, At

LEMMA SummaryState ==
  ASSUME NEW runs
  PROVE  Summary(runs) \in ExecutionState /\ Summary(runs) \notin {"PREPARED", "RUNNING"}
BY Zenon DEF Summary, ExecutionState

LEMMA FinishExecutionStep ==
  ASSUME IInv, NEW c \in Calls, FinishExecution(c)
  PROVE  IInv' /\ Keeps
<1>1. call[c].pc = "executing" /\ CallFits(c) /\ Typed /\ Alone
  BY Zenon DEF FinishExecution, IInv
<1>2. PICK i \in Iterations : i = call[c].iteration
  BY Zenon, <1>1 DEF CallFits
<1> DEFINE e == executions[i]
           S == {c}
<1>3. e # None /\ e \in Execution /\ e.status = "RUNNING"
  BY Zenon, <1>1, <1>2 DEF CallFits, Typed, FinishExecution
<1>4. \A r \in Runs : e.runs[r] \in {"RUNNING", None}
  BY Zenon, <1>3 DEF IInv, ExecutionFits
<1>5. \A r \in Runs, w \in {"SUCCEEDED", "FAILED", "UNKNOWN"} : e.runs[r] # w
  BY Zenon, <1>4, NoneAssumption DEF RunState
<1>6. PICK answer \in [Runs -> {"SUCCEEDED", "FAILED", "UNKNOWN"}] :
        PutExecution(i, [e EXCEPT !.status = Summary([r \in Runs |-> IF e.runs[r] = None THEN None ELSE answer[r]]),
                                  !.runs = [r \in Runs |-> IF e.runs[r] = None THEN None ELSE answer[r]]])
  BY Zenon, <1>2 DEF FinishExecution
<1> DEFINE runs == [r \in Runs |-> IF e.runs[r] = None THEN None ELSE answer[r]]
<1>7. executions' = [executions EXCEPT ![i] = Rerun(executions[i], Summary(runs), runs)]
  BY Zenon, <1>6 DEF PutExecution, Rerun
<1>8. runs \in [Runs -> RunState \cup {None}]
  BY Zenon DEF RunState
<1> HIDE DEF runs
<1> DEFINE status == Summary(runs)
<1>s. /\ status \in ExecutionState /\ status \notin {"PREPARED", "RUNNING"}
      /\ executions' = [executions EXCEPT ![i] = Rerun(executions[i], status, runs)]
  BY Zenon, <1>7, SummaryState
<1> HIDE DEF status
<1>9. call' = [call EXCEPT ![c] = NoCall]
  BY Zenon DEF FinishExecution, Return
<1>10. call'[c] = NoCall /\ call' \in [Calls -> CallRow] /\ \A d \in Calls \ S : call'[d] = call[d]
  BY Zenon, <1>1, <1>9, NoCallRow DEF Typed
<1>11. \A d \in S : CallFits(d)'
  BY Zenon, <1>10, EndedFits
<1>12. Alone'
  BY Zenon, <1>1, <1>9, NoCallRow, StillAlone DEF Typed
<1>13. \A d \in Calls \ S : ~(call[d].pc = "prepared" /\ call[d].iteration = i)
  BY Zenon, <1>3 DEF IInv, CallFits
<1>14. /\ UNCHANGED <<workflow, campaign, repairs, assessments, recoveries, reconciled, batches,
                      promotion, observed>>
       /\ sent' = sent
  BY Zenon DEF FinishExecution
<1>15. sent' \in [Requests -> Nat] /\ \A r \in Runs : sent'[<<i, r>>] <= 1
  BY Zenon, <1>1, <1>14 DEF Typed, IInv, ExecutionFits
<1>16. S \in SUBSET Calls
  BY Zenon
<1> HIDE DEF S
<1> QED
  BY ZenonT(30), <1>3, <1>5, <1>s, <1>8, <1>10, <1>11, <1>12, <1>13, <1>14, <1>15, <1>16, ExecutionMoves

LEMMA ReconcileEvaluationExecutionStep ==
  ASSUME IInv, NEW i \in Iterations, ReconcileEvaluationExecution(i)
  PROVE  IInv' /\ Keeps
<1> DEFINE e == executions[i]
           S == {d \in Calls : FALSE}
           runs == [r \in Runs |-> IF e.runs[r] = "UNKNOWN" THEN "FAILED" ELSE e.runs[r]]
<1>1. Typed /\ Alone /\ e # None /\ e.status = "UNKNOWN" /\ e \in Execution
  BY Zenon DEF ReconcileEvaluationExecution, IInv, Typed
<1>2. executions' = [executions EXCEPT ![i] = Rerun(executions[i], Summary(runs), runs)]
  BY Zenon DEF ReconcileEvaluationExecution, PutExecution, Rerun
<1>3. runs \in [Runs -> RunState \cup {None}]
  BY Zenon, <1>1 DEF RunState, Execution
<1>4. \A r \in Runs : /\ e.runs[r] \in {"SUCCEEDED", "FAILED"} => runs[r] = e.runs[r]
                      /\ e.runs[r] = "UNKNOWN" => runs[r] \in {"UNKNOWN", "FAILED"}
  BY Zenon
<1> HIDE DEF runs
<1> DEFINE status == Summary(runs)
<1>s. /\ status \in ExecutionState /\ status \notin {"PREPARED", "RUNNING"}
      /\ executions' = [executions EXCEPT ![i] = Rerun(executions[i], status, runs)]
  BY Zenon, <1>2, SummaryState
<1> HIDE DEF status
<1>5. /\ UNCHANGED <<workflow, campaign, repairs, assessments, recoveries, reconciled, batches,
                     promotion, observed>>
      /\ sent' = sent /\ call' = call
  BY Zenon DEF ReconcileEvaluationExecution
<1>6. call' \in [Calls -> CallRow] /\ \A d \in Calls \ S : call'[d] = call[d]
  BY Zenon, <1>1, <1>5 DEF Typed
<1>7. Alone'
  BY Zenon, <1>1, <1>5 DEF Alone, Validates
<1>8. \A d \in Calls \ S : ~(call[d].pc = "prepared" /\ call[d].iteration = i)
  BY Zenon, <1>1 DEF IInv, CallFits
<1>9. sent' \in [Requests -> Nat] /\ \A r \in Runs : sent'[<<i, r>>] <= 1
  BY Zenon, <1>1, <1>5 DEF Typed, IInv, ExecutionFits
<1>10. S \in SUBSET Calls /\ \A d \in S : CallFits(d)'
  BY Zenon
<1> HIDE DEF S
<1> QED
  BY ZenonT(30), <1>1, <1>s, <1>3, <1>4, <1>5, <1>6, <1>7, <1>8, <1>9, <1>10, ExecutionMoves
-----------------------------------------------------------------------------
(* Campaign, batches and promotion *)

(* A step that leaves the requests, the executions, the assessments and most commands alone *)
LEMMA RowsStay ==
  ASSUME IInv, UNCHANGED <<executions, assessments, reconciled, sent>>,
         NEW S \in SUBSET Calls, \A d \in Calls \ S : call'[d] = call[d],
         \A d \in S : CallFits(d)',
         \A i \in Iterations : batches[i] # None => batches'[i] = batches[i]
  PROVE  /\ Keeps
         /\ \A i \in Iterations : ExecutionFits(i)' /\ AssessmentFits(i)'
         /\ \A d \in Calls : CallFits(d)'
<1>1. Keeps
  BY Zenon, SameKeeps DEF Keeps
<1>2. ASSUME NEW i \in Iterations PROVE ExecutionFits(i)' /\ AssessmentFits(i)'
  <2>1. ExecutionFits(i) /\ AssessmentFits(i)
    BY Zenon DEF IInv
  <2>2. ExecutionFits(i)'
    BY Zenon, <2>1, ExecutionStays DEF ExecutionFits
  <2>3. AssessmentFits(i)'
    BY Zenon, <2>1, SameKeeps, AssessmentStays
  <2> QED
    BY Zenon, <2>2, <2>3
<1>3. ASSUME NEW d \in Calls, d \notin S PROVE CallFits(d)'
  <2>1. call'[d] = call[d] /\ call[d] \in CallRow /\ CallFits(d)
    BY Zenon, <1>3 DEF IInv, Typed
  <2>2. call[d].pc = "prepared" =>
          /\ executions'[call[d].iteration].status = "PREPARED"
          /\ \A r \in Runs : sent'[<<call[d].iteration, r>>] = 0
    BY Zenon, <2>1 DEF CallFits
  <2>3. call[d].pc = "assessing" =>
          /\ Unreviewed(call[d].iteration)'
          /\ \A r \in Runs : assessments'[call[d].iteration].checks[r] \in {"PREPARED", "INTERRUPTED", None}
    BY Zenon, <2>1, Assessing, UnreviewedStays
  <2> QED
    BY Zenon, <1>1, <2>1, <2>2, <2>3, CallStays
<1> QED
  BY Zenon, <1>1, <1>2, <1>3

(* A step that leaves the commands, the requests, the executions and the assessments alone *)
LEMMA OnlyCampaign ==
  ASSUME IInv, Typed', CampaignFits', \A i \in Iterations : BatchFits(i)',
         UNCHANGED <<executions, assessments, reconciled, promotion, call, sent>>,
         \A i \in Iterations : batches[i] # None => batches'[i] = batches[i]
  PROVE  IInv' /\ Keeps
<1> DEFINE S == {d \in Calls : FALSE}
<1>1. S \in SUBSET Calls /\ (\A d \in S : CallFits(d)') /\ \A d \in Calls \ S : call'[d] = call[d]
  BY Zenon
<1> HIDE DEF S
<1>2. /\ Keeps
      /\ \A i \in Iterations : ExecutionFits(i)' /\ AssessmentFits(i)'
      /\ \A d \in Calls : CallFits(d)'
  BY Zenon, <1>1, RowsStay
<1>3. Alone'
  BY Zenon DEF IInv, Alone, Validates
<1> QED
  BY Zenon, <1>2, <1>3, PromotedStays DEF IInv

LEMMA BatchesStay ==
  ASSUME IInv, UNCHANGED <<batches, assessments>>
  PROVE  \A i \in Iterations : BatchFits(i)'
BY Zenon, SameKeeps, BatchStays DEF IInv

LEMMA CreateEvaluationCampaignStep ==
  ASSUME IInv, CreateEvaluationCampaign
  PROVE  IInv' /\ Keeps
<1>1. Typed /\ CampaignFits /\ campaign = None
  BY Zenon DEF CreateEvaluationCampaign, IInv
<1>2. 1 \in Iterations
  BY BoundAssumption DEF Iterations
<1> DEFINE row == [status |-> "OPEN", iteration |-> 1, winner |-> None]
<1>3. campaign' = row /\ row \in CampaignRow /\ row.status = "OPEN" /\ row.iteration = 1
  BY Zenon, <1>2 DEF CreateEvaluationCampaign, CampaignRow
<1> HIDE DEF row
<1>4. UNCHANGED <<workflow, repairs, executions, assessments, recoveries, reconciled, batches,
                  promotion, observed, call, sent>>
  BY Zenon DEF CreateEvaluationCampaign
<1>5. Typed'
  BY Zenon, <1>1, <1>3, <1>4 DEF Typed
<1>6. CampaignFits'
  <2>1. \A i \in Iterations : ~(i < 1)
    BY BoundAssumption DEF Iterations
  <2>2. \A i \in Iterations : batches'[i] = None /\ executions'[i] = None
    BY Zenon, <1>1, <1>4 DEF CampaignFits
  <2>3. campaign' # None
    BY Zenon, <1>3, NoneAssumption
  <2> QED
    BY Zenon, <1>2, <1>3, <1>4, <2>1, <2>2, <2>3 DEF CampaignFits
<1> QED
  BY Zenon, <1>4, <1>5, <1>6, BatchesStay, OnlyCampaign

LEMMA PlanEvaluationRepairStep ==
  ASSUME IInv, PlanEvaluationRepair
  PROVE  IInv' /\ Keeps
<1>1. /\ Typed /\ CampaignFits /\ campaign # None /\ campaign.iteration \in Iterations
      /\ repairs[campaign.iteration] = None
      /\ repairs' = [repairs EXCEPT ![campaign.iteration] = workflow.version]
  BY Zenon DEF PlanEvaluationRepair, IInv, Typed, CampaignRow
<1>2. UNCHANGED <<workflow, campaign, executions, assessments, recoveries, reconciled, batches,
                  promotion, observed, call, sent>>
  BY Zenon DEF PlanEvaluationRepair
<1>3. Typed'
  BY Zenon, <1>1, <1>2 DEF Typed
<1>4. CampaignFits'
  <2>1. ASSUME NEW i \in Iterations, i > 1, executions[i] # None PROVE executions[i].version = repairs'[i]
    <3>1. executions[i].version = repairs[i] /\ executions[i].version # None
      BY ZenonT(30), <1>1, <2>1, NoneAssumption DEF CampaignFits, Typed, Execution
    <3> QED
      BY Zenon, <1>1, <3>1 DEF Typed
  <2> QED
    BY Zenon, <1>1, <1>2, <2>1 DEF CampaignFits
<1> QED
  BY Zenon, <1>2, <1>3, <1>4, BatchesStay, OnlyCampaign

LEMMA WorkflowMovesStep ==
  ASSUME IInv, WorkflowMoves
  PROVE  IInv' /\ Keeps
<1>1. UNCHANGED <<campaign, repairs, executions, assessments, recoveries, reconciled, batches,
                  promotion, observed, call, sent>>
  BY Zenon DEF WorkflowMoves
<1>2. workflow' \in [active : BOOLEAN, version : 1..MaxVersion]
  BY BoundAssumption DEF WorkflowMoves, IInv, Typed
<1>3. Typed'
  BY Zenon, <1>1, <1>2 DEF IInv, Typed
<1>4. CampaignFits'
  BY Zenon, <1>1 DEF IInv, CampaignFits
<1> QED
  BY Zenon, <1>1, <1>3, <1>4, BatchesStay, OnlyCampaign

(* A batch is recorded: the campaign was open, so its iteration had none *)
LEMMA RecordBatchStep ==
  ASSUME IInv, CampaignOpen, NEW h \in Humans, NEW evidence \in Evidence \cup {None}, NEW decision,
         decision.status \in {"WINNER_SELECTED", "REFINEMENT_REQUIRED", "EXHAUSTED"},
         decision.winner \in Candidate \cup {None},
         decision.status = "REFINEMENT_REQUIRED" => campaign.iteration < MaxIterations,
         evidence # None =>
           /\ EvidenceIn(evidence, assessments[campaign.iteration])
           /\ decision.winner # None =>
                \E r \in EligibleRuns(evidence) : decision.winner = <<campaign.iteration, r>>,
         RecordBatch(h, evidence, decision),
         UNCHANGED <<repairs, executions, assessments>>
  PROVE  /\ campaign' \in CampaignRow /\ batches' \in [Iterations -> Batch \cup {None}]
         /\ CampaignFits' /\ \A i \in Iterations : BatchFits(i)'
         /\ \A i \in Iterations : batches[i] # None => batches'[i] = batches[i]
         /\ batches'[campaign.iteration] # None /\ batches'[campaign.iteration].evidence = evidence
<1>1. Typed /\ CampaignFits /\ campaign # None /\ campaign \in CampaignRow
  BY Zenon DEF IInv, Typed, CampaignOpen
<1>2. PICK i \in Iterations : i = campaign.iteration
  BY Zenon, <1>1 DEF CampaignRow
<1> DEFINE batch == [status |-> decision.status, winner |-> decision.winner,
                     actor |-> h, evidence |-> evidence]
           next == IF decision.status = "REFINEMENT_REQUIRED" THEN i + 1 ELSE i
           row == [status |-> decision.status, winner |-> decision.winner, iteration |-> next]
<1>3. batches' = [batches EXCEPT ![i] = batch] /\ campaign' = row
  BY Zenon, <1>2 DEF RecordBatch
<1>4. /\ batch \in Batch /\ batch.status = decision.status /\ batch.winner = decision.winner
      /\ batch.evidence = evidence
  BY Zenon DEF Batch
<1> HIDE DEF batch
<1>5. next \in Iterations
  BY <1>2, BoundAssumption DEF Iterations
<1>6. /\ decision.status = "REFINEMENT_REQUIRED" => next = i + 1
      /\ decision.status # "REFINEMENT_REQUIRED" => next = i
  BY Zenon
<1> HIDE DEF next
<1>7. /\ row \in CampaignRow /\ row.status = decision.status /\ row.winner = decision.winner
      /\ row.iteration = next
  BY Zenon, <1>5 DEF CampaignRow
<1> HIDE DEF row
<1>8. row # None /\ batch # None
  BY Zenon, <1>4, <1>7, NoneAssumption
<1>9. /\ batches'[i] = batch /\ \A j \in Iterations : j # i => batches'[j] = batches[j]
      /\ batches' \in [Iterations -> Batch \cup {None}]
  BY Zenon, <1>1, <1>3, <1>4 DEF Typed
<1>10. batches[i] = None
  BY Zenon, <1>1, <1>2 DEF CampaignFits, CampaignOpen
<1>11. /\ \A j \in Iterations : j < i => batches[j] # None /\ batches[j].status = "REFINEMENT_REQUIRED"
       /\ \A j \in Iterations : j > i => batches[j] = None /\ executions[j] = None
       /\ \A j \in Iterations : j > 1 /\ executions[j] # None => executions[j].version = repairs[j]
  BY Zenon, <1>1, <1>2 DEF CampaignFits
<1>12. CampaignFits'
  <2>1. i \in Int /\ next \in Int /\ \A j \in Iterations : j \in Int
    BY <1>5 DEF Iterations
  <2>2. \A j \in Iterations : j < next => batches'[j] # None /\ batches'[j].status = "REFINEMENT_REQUIRED"
    BY <1>4, <1>6, <1>8, <1>9, <1>11, <2>1
  <2>3. \A j \in Iterations : j > next => batches'[j] = None /\ executions'[j] = None
    BY <1>6, <1>9, <1>11, <2>1
  <2>4. row.status = "REFINEMENT_REQUIRED" => batches'[next] = None
    BY <1>5, <1>6, <1>7, <1>9, <1>11, <2>1
  <2>5. row.status # "REFINEMENT_REQUIRED" => /\ batches'[next] # None /\ batches'[next].status = row.status
                                              /\ batches'[next].winner = row.winner
    BY Zenon, <1>4, <1>6, <1>7, <1>8, <1>9
  <2>6. row.status # "OPEN"
    BY Zenon, <1>7
  <2> QED
    BY Zenon, <1>3, <1>7, <1>8, <1>11, <2>2, <2>3, <2>4, <2>5, <2>6 DEF CampaignFits
<1>13. ASSUME NEW j \in Iterations PROVE BatchFits(j)'
  <2>1. CASE j # i
    BY Zenon, <1>9, <2>1, SameKeeps, BatchStays DEF IInv
  <2>2. CASE j = i
    <3>1. evidence # None => EvidenceIn(evidence, assessments'[i])
      BY Zenon, <1>2
    <3>2. evidence # None => EvidenceIn(batches[i].evidence, assessments[i])'
      BY Zenon, <1>4, <1>9, <3>1 DEF EvidenceIn
    <3>3. evidence # None /\ decision.winner # None =>
            \E r \in EligibleRuns(evidence) : decision.winner = <<i, r>>
      BY Zenon, <1>2
    <3>4. evidence # None /\ decision.winner # None =>
            (\E r \in EligibleRuns(batches[i].evidence) : batches[i].winner = <<i, r>>)'
      BY Zenon, <1>4, <1>9, <3>3 DEF EligibleRuns
    <3> QED
      BY Zenon, <1>4, <1>9, <2>2, <3>2, <3>4 DEF BatchFits
  <2> QED
    BY Zenon, <2>1, <2>2
<1> QED
  BY Zenon, <1>2, <1>3, <1>4, <1>7, <1>8, <1>9, <1>10, <1>12, <1>13

(* What the evaluator may decide *)
LEMMA DecisionRow ==
  ASSUME NEW i \in Iterations, NEW eligible \in SUBSET Candidate, NEW decision \in Decisions(i, eligible)
  PROVE  /\ decision.status \in {"WINNER_SELECTED", "REFINEMENT_REQUIRED", "EXHAUSTED"}
         /\ decision.winner \in eligible \cup {None}
         /\ decision.status = "REFINEMENT_REQUIRED" => i < MaxIterations
BY DEF Decisions

LEMMA SubmitEvaluationEvidenceStep ==
  ASSUME IInv, NEW h \in Humans, SubmitEvaluationEvidence(h)
  PROVE  IInv' /\ Keeps
<1>1. Typed /\ CampaignOpen /\ campaign.iteration \in Iterations
  <2>1. Typed /\ CampaignOpen /\ campaign # None
    BY Zenon DEF SubmitEvaluationEvidence, AcceptsBatch, IInv
  <2> QED
    BY Zenon, <2>1 DEF Typed, CampaignRow
<1>e. PICK eligible \in SUBSET Unrecorded :
        \E decision \in Decisions(campaign.iteration, eligible)
                        \cup {[status |-> "EXHAUSTED", winner |-> None]} : RecordBatch(h, None, decision)
  BY Zenon, Zenon DEF SubmitEvaluationEvidence
<1>2. PICK decision \in Decisions(campaign.iteration, eligible)
                        \cup {[status |-> "EXHAUSTED", winner |-> None]} : RecordBatch(h, None, decision)
  BY Zenon, <1>e
<1>3. eligible \in SUBSET Candidate
  BY Zenon DEF Unrecorded
<1>4. /\ decision.status \in {"WINNER_SELECTED", "REFINEMENT_REQUIRED", "EXHAUSTED"}
      /\ decision.winner \in Candidate \cup {None}
      /\ decision.status = "REFINEMENT_REQUIRED" => campaign.iteration < MaxIterations
  BY <1>1, <1>3, DecisionRow
<1>5. UNCHANGED <<workflow, repairs, executions, assessments, recoveries, reconciled, promotion,
                  observed, call, sent>>
  BY Zenon DEF SubmitEvaluationEvidence
<1>6. /\ campaign' \in CampaignRow /\ batches' \in [Iterations -> Batch \cup {None}]
      /\ CampaignFits' /\ \A i \in Iterations : BatchFits(i)'
      /\ \A i \in Iterations : batches[i] # None => batches'[i] = batches[i]
  BY <1>1, <1>2, <1>4, <1>5, RecordBatchStep
<1>7. Typed'
  BY Zenon, <1>1, <1>5, <1>6 DEF Typed
<1> QED
  BY Zenon, <1>5, <1>6, <1>7, OnlyCampaign

LEMMA DecideAssessmentStep ==
  ASSUME IInv, NEW c \in Calls, DecideAssessment(c)
  PROVE  IInv' /\ Keeps
<1>1. call[c].pc = "deciding" /\ CallFits(c) /\ Typed /\ Alone
  BY Zenon DEF DecideAssessment, IInv
<1>2. PICK i \in Iterations : i = call[c].iteration
  BY Zenon, <1>1, CallAssessment
<1> DEFINE evidence == call[c].evidence
           k == [call[c] EXCEPT !.pc = "recording", !.evidence = None]
           S == {c}
<1>3. /\ call[c].actor \in Humans /\ assessments[i] # None
      /\ evidence # None /\ evidence \in Evidence /\ EvidenceIn(evidence, assessments[i])
  <2>1. call[c] \in CallRow
    BY Zenon, <1>1 DEF Typed
  <2> QED
    BY Zenon, <1>1, <1>2, <2>1 DEF CallFits, CallRow
<1> HIDE DEF evidence
<1>4. call' = [call EXCEPT ![c] = k]
  BY Zenon DEF DecideAssessment
<1>5. k \in CallRow /\ k.pc = "recording" /\ k.iteration = i /\ k.actor \in Humans
  <2>1. call[c] \in CallRow
    BY Zenon, <1>1 DEF Typed
  <2> QED
    BY Zenon, <1>2, <1>3, <2>1 DEF CallRow, CallState
<1> HIDE DEF k
<1>6. call'[c] = k /\ call' \in [Calls -> CallRow] /\ \A d \in Calls \ S : call'[d] = call[d]
  BY Zenon, <1>1, <1>4, <1>5 DEF Typed
<1>7. Alone'
  BY Zenon, <1>1, <1>4, <1>5, StillAlone DEF Typed
<1>8. UNCHANGED <<workflow, repairs, executions, assessments, recoveries, reconciled, promotion,
                  observed, sent>>
  BY Zenon DEF DecideAssessment
<1>9. /\ campaign' \in CampaignRow \cup {None} /\ batches' \in [Iterations -> Batch \cup {None}]
      /\ CampaignFits' /\ \A j \in Iterations : BatchFits(j)'
      /\ \A j \in Iterations : batches[j] # None => batches'[j] = batches[j]
      /\ batches'[i] # None /\ batches'[i].evidence # None
  <2>1. CASE TrustedBatch(i, call[c].actor) /\ UNCHANGED <<campaign, batches>>
    <3>1. campaign' \in CampaignRow \cup {None} /\ batches' \in [Iterations -> Batch \cup {None}]
      BY Zenon, <1>1, <2>1 DEF Typed
    <3>2. CampaignFits'
      BY Zenon, <1>8, <2>1 DEF IInv, CampaignFits
    <3>3. \A j \in Iterations : BatchFits(j)'
      BY Zenon, <1>8, <2>1, BatchesStay
    <3>4. batches'[i] # None /\ batches'[i].evidence # None
      BY Zenon, <2>1 DEF TrustedBatch
    <3> QED
      BY Zenon, <2>1, <3>1, <3>2, <3>3, <3>4
  <2>2. CASE /\ AcceptsBatch(i)
             /\ \E decision \in Decisions(i, {<<i, r>> : r \in EligibleRuns(evidence)}) :
                  RecordBatch(call[c].actor, evidence, decision)
    <3>1. CampaignOpen /\ i = campaign.iteration
      BY Zenon, <2>2 DEF AcceptsBatch
    <3> DEFINE eligible == {<<i, r>> : r \in EligibleRuns(evidence)}
    <3>2. PICK decision \in Decisions(i, eligible) : RecordBatch(call[c].actor, evidence, decision)
      BY Zenon, <2>2
    <3>3. eligible \in SUBSET Candidate /\ \A w \in eligible : \E r \in EligibleRuns(evidence) : w = <<i, r>>
      <4>1. EligibleRuns(evidence) \in SUBSET Runs
        BY Zenon DEF EligibleRuns
      <4> QED
        BY <4>1 DEF Candidate
    <3> HIDE DEF eligible
    <3>4. /\ decision.status \in {"WINNER_SELECTED", "REFINEMENT_REQUIRED", "EXHAUSTED"}
          /\ decision.winner \in eligible \cup {None}
          /\ decision.status = "REFINEMENT_REQUIRED" => i < MaxIterations
      BY Zenon, <3>3, DecisionRow
    <3>5. /\ decision.winner \in Candidate \cup {None}
          /\ EvidenceIn(evidence, assessments[campaign.iteration])
          /\ decision.winner # None =>
               \E r \in EligibleRuns(evidence) : decision.winner = <<campaign.iteration, r>>
      BY Zenon, <1>3, <3>1, <3>3, <3>4
    <3> QED
      BY <1>3, <1>8, <3>1, <3>2, <3>4, <3>5, RecordBatchStep
  <2> QED
    BY Zenon, <1>2, <2>1, <2>2 DEF DecideAssessment, evidence
<1>10. CallFits(c)'
  BY Zenon, <1>3, <1>5, <1>6, <1>8, <1>9 DEF CallFits
<1>11. Typed'
  BY Zenon, <1>1, <1>6, <1>8, <1>9 DEF Typed
<1>12. S \in SUBSET Calls /\ \A d \in S : CallFits(d)'
  BY Zenon, <1>10
<1> HIDE DEF S
<1>13. /\ Keeps
       /\ \A j \in Iterations : ExecutionFits(j)' /\ AssessmentFits(j)'
       /\ \A d \in Calls : CallFits(d)'
  BY Zenon, <1>6, <1>8, <1>9, <1>12, RowsStay
<1> QED
  BY Zenon, <1>7, <1>8, <1>9, <1>11, <1>13, PromotedStays DEF IInv

(* The winner promoted is the winner of a trusted batch: its evidence is that of its assessment *)
LEMMA PromoteEvaluationWinnerStep ==
  ASSUME IInv, NEW i \in Iterations, PromoteEvaluationWinner(i)
  PROVE  IInv' /\ Keeps
<1>1. /\ Typed /\ CampaignFits /\ Alone /\ AssessmentFits(i) /\ BatchFits(i)
      /\ assessments[i] # None /\ assessments[i].status = "DECIDED"
      /\ batches[i].winner = campaign.winner /\ executions[i].version = workflow.version
  BY Zenon DEF PromoteEvaluationWinner, IInv
<1>2. PICK r \in Runs : /\ campaign.winner = <<i, r>> /\ assessments[i].checks[r] # None
                        /\ promotion' = [iteration |-> i, run |-> r, version |-> workflow.version]
  BY Zenon DEF PromoteEvaluationWinner
<1>3. UNCHANGED <<workflow, campaign, repairs, executions, assessments, recoveries, reconciled,
                  batches, observed, call, sent>>
  BY Zenon DEF PromoteEvaluationWinner
<1>4. /\ promotion' \in PromotionRow /\ promotion'.iteration = i /\ promotion'.run = r
      /\ promotion'.version = workflow.version
  BY Zenon, <1>1, <1>2 DEF PromotionRow, Typed
<1>5. Typed'
  BY Zenon, <1>1, <1>3, <1>4 DEF Typed
<1>6. CampaignFits'
  BY Zenon, <1>1, <1>3 DEF CampaignFits
<1>7. Alone'
  BY Zenon, <1>1, <1>3 DEF Alone, Validates
<1>8. /\ Keeps
      /\ \A j \in Iterations : ExecutionFits(j)' /\ AssessmentFits(j)'
      /\ \A d \in Calls : CallFits(d)'
  <2> DEFINE S == {d \in Calls : FALSE}
  <2>1. S \in SUBSET Calls /\ (\A d \in S : CallFits(d)') /\ \A d \in Calls \ S : call'[d] = call[d]
    BY Zenon, <1>3
  <2> HIDE DEF S
  <2> QED
    BY Zenon, <1>3, <2>1, RowsStay
<1> DEFINE evidence == batches[i].evidence
           a == assessments[i]
           seen == {v \in Reviewers : evidence.reviews[r][v] = "PASSED"}
           passed == {v \in Reviewers : a.reviews[r][v] = "PASSED"}
<1>9. batches[i] # None /\ evidence # None
  BY Zenon, <1>1 DEF AssessmentFits
<1>10. batches[i].winner = <<i, r>> /\ batches[i].winner # None
  <2>1. <<i, r>> \in Candidate
    BY Zenon DEF Candidate
  <2> QED
    BY Zenon, <1>1, <1>2, <2>1, NoneAssumption
<1>11. EvidenceIn(evidence, a) /\ \E q \in EligibleRuns(evidence) : batches[i].winner = <<i, q>>
  BY Zenon, <1>1, <1>9, <1>10 DEF BatchFits
<1>12. r \in EligibleRuns(evidence)
  BY <1>10, <1>11
<1>13. evidence.checks[r] = "PASSED" /\ Cardinality(seen) >= MinReviews
  BY Zenon, <1>12 DEF EligibleRuns
<1>14. a.checks[r] = "PASSED" /\ seen \subseteq passed /\ passed \subseteq Reviewers
  BY Zenon, <1>11, <1>13 DEF EvidenceIn
<1>15. executions[i].runs[r] = "SUCCEEDED"
  BY Zenon, <1>1, <1>2 DEF AssessmentFits
<1> HIDE DEF seen, passed
<1>16. IsFiniteSet(passed) /\ IsFiniteSet(seen) /\ Cardinality(seen) <= Cardinality(passed)
  BY Zenon, <1>14, BoundAssumption, FS_Subset
<1>17. Cardinality(passed) >= MinReviews
  <2>1. Cardinality(seen) \in Nat /\ Cardinality(passed) \in Nat /\ MinReviews \in Int
    BY <1>16, BoundAssumption, FS_CardinalityType
  <2> QED
    BY <1>13, <1>16, <2>1
<1>18. PromotedWinnerIsProven'
  BY Zenon, <1>1, <1>3, <1>4, <1>14, <1>15, <1>17 DEF PromotedWinnerIsProven, passed
<1>19. (promotion # None => assessments[promotion.iteration] # None)'
  BY Zenon, <1>1, <1>3, <1>4
<1> QED
  BY Zenon, <1>3, <1>5, <1>6, <1>7, <1>8, <1>18, <1>19, BatchesStay DEF IInv
-----------------------------------------------------------------------------
(* Assessments *)

(* One command writes one assessment and moves on *)
LEMMA AssessmentMoves ==
  ASSUME IInv, NEW i \in Iterations, NEW b \in Assessment, NEW c \in Calls, NEW k \in CallRow,
         assessments' = [assessments EXCEPT ![i] = b], executions[i] # None,
         call' = [call EXCEPT ![c] = k],
         UNCHANGED <<workflow, campaign, repairs, executions, batches, promotion>>,
         recoveries' \in SUBSET (Iterations \X AssessmentState \X Humans),
         reconciled' \in [Iterations -> Humans \cup {None}],
         \A j \in Iterations \ {i} : reconciled'[j] = reconciled[j],
         observed' \in SUBSET Iterations,
         sent' \in [Requests -> Nat],
         \A j \in Iterations, r \in Runs : sent'[<<j, r>>] = sent[<<j, r>>],
         \A j \in Iterations \ {i}, r \in Runs, v \in Reviewers : sent'[<<j, r, v>>] = sent[<<j, r, v>>],
         KeepsAssessment(assessments[i], b), AssessmentFits(i)', Alone', CallFits(c)',
         \A d \in Calls : d # c /\ call[d].pc = "assessing" /\ call[d].iteration = i =>
           Unreviewed(i)' /\ \A r \in Runs : b.checks[r] \in {"PREPARED", "INTERRUPTED", None}
  PROVE  IInv' /\ Keeps
<1> DEFINE S == {c}
<1>1. call' \in [Calls -> CallRow] /\ \A d \in Calls \ S : call'[d] = call[d]
  BY Zenon DEF IInv, Typed
<1>2. /\ S \in SUBSET Calls /\ \A d \in S : CallFits(d)'
      /\ \A d \in Calls \ S : call[d].pc = "assessing" /\ call[d].iteration = i =>
           Unreviewed(i)' /\ \A r \in Runs : b.checks[r] \in {"PREPARED", "INTERRUPTED", None}
  BY Zenon
<1> HIDE DEF S
<1> QED
  BY Zenon, <1>1, <1>2, OnlyAssessment

(* The same where nothing else is written *)
LEMMA AssessmentMovesOnly ==
  ASSUME IInv, NEW i \in Iterations, NEW b \in Assessment, NEW c \in Calls, NEW k \in CallRow,
         assessments' = [assessments EXCEPT ![i] = b], assessments[i] # None,
         call' = [call EXCEPT ![c] = k],
         UNCHANGED <<workflow, campaign, repairs, executions, recoveries, reconciled, batches,
                     promotion, observed, sent>>,
         KeepsAssessment(assessments[i], b), AssessmentFits(i)', Alone', CallFits(c)',
         \A d \in Calls : d # c /\ call[d].pc = "assessing" /\ call[d].iteration = i =>
           Unreviewed(i)' /\ \A r \in Runs : b.checks[r] \in {"PREPARED", "INTERRUPTED", None}
  PROVE  IInv' /\ Keeps
<1>1. Typed /\ executions[i] # None
  BY Zenon DEF IInv, ExecutionFits
<1>2. /\ recoveries' \in SUBSET (Iterations \X AssessmentState \X Humans)
      /\ reconciled' \in [Iterations -> Humans \cup {None}]
      /\ observed' \in SUBSET Iterations /\ sent' \in [Requests -> Nat]
  BY Zenon, <1>1 DEF Typed
<1>3. UNCHANGED <<workflow, campaign, repairs, executions, batches, promotion>>
  BY Zenon
<1>4. /\ \A j \in Iterations \ {i} : reconciled'[j] = reconciled[j]
      /\ \A j \in Iterations, r \in Runs : sent'[<<j, r>>] = sent[<<j, r>>]
      /\ \A j \in Iterations \ {i}, r \in Runs, v \in Reviewers : sent'[<<j, r, v>>] = sent[<<j, r, v>>]
  BY Zenon
<1> QED
  BY Zenon, <1>1, <1>2, <1>3, <1>4, AssessmentMoves

LEMMA PrepareAssessmentStep ==
  ASSUME IInv, NEW c \in Calls, NEW h \in Humans, PrepareAssessment(c, h)
  PROVE  IInv' /\ Keeps
<1>1. PICK i \in Iterations : i = campaign.iteration
  BY Zenon DEF PrepareAssessment, CampaignOpen, IInv, Typed, CampaignRow
<1> DEFINE k == Begun(h, i, "assessing")
           e == executions[i]
           b == [status |-> "PREPARED", actor |-> h,
                 checks |-> [r \in Runs |-> IF e.runs[r] = "SUCCEEDED" THEN "PREPARED" ELSE None],
                 reviews |-> [r \in Runs |-> [v \in Reviewers |-> None]]]
<1>2. /\ Typed /\ Alone /\ AssessmentFits(i) /\ e # None /\ assessments[i] = None
      /\ assessments' = [assessments EXCEPT ![i] = b]
      /\ call' = [call EXCEPT ![c] = k]
  BY Zenon, <1>1 DEF PrepareAssessment, PutAssessment, Begin, Begun, IInv
<1>3. /\ b \in Assessment /\ b.status = "PREPARED"
      /\ \A r \in Runs : /\ b.checks[r] \in {"PREPARED", None}
                         /\ b.checks[r] # None => e.runs[r] = "SUCCEEDED"
                         /\ \A v \in Reviewers : b.reviews[r][v] = None
  BY Zenon DEF Assessment, AssessmentState, CheckState
<1> HIDE DEF b
<1>4. "assessing" \in CallState
  BY Zenon DEF CallState
<1>5. k \in CallRow /\ k.pc = "assessing" /\ k.iteration = i /\ k.actor = h
  BY <1>4, BegunRow
<1> HIDE DEF k
<1>6. UNCHANGED <<workflow, campaign, repairs, executions, recoveries, reconciled, batches,
                  promotion, observed, sent>>
  BY Zenon DEF PrepareAssessment
<1>7. assessments'[i] = b /\ b # None
  BY Zenon, <1>2, <1>3, NoneAssumption DEF Typed
<1>8. call'[c] = k /\ \A d \in Calls : d # c => call'[d] = call[d]
  BY Zenon, <1>2 DEF Typed
<1>9. KeepsAssessment(assessments[i], b)
  BY Zenon, <1>2 DEF KeepsAssessment
<1>10. Unreviewed(i)'
  BY <1>2, <1>3, <1>6, <1>7 DEF Unreviewed, AssessmentFits
<1>11. AssessmentFits(i)'
  BY Zenon, <1>2, <1>3, <1>6, <1>7, <1>10 DEF AssessmentFits
<1>12. \A d \in Calls : call[d].iteration = i => ~Validates(d)
  BY Zenon, <1>2 DEF IInv, CallFits, Validates
<1>13. Alone'
  BY <1>2, <1>5, <1>8, <1>12 DEF Alone, Validates
<1>14. CallFits(c)'
  BY Zenon, <1>3, <1>5, <1>7, <1>8, <1>10 DEF CallFits
<1>15. \A d \in Calls : d # c /\ call[d].pc = "assessing" /\ call[d].iteration = i =>
         Unreviewed(i)' /\ \A r \in Runs : b.checks[r] \in {"PREPARED", "INTERRUPTED", None}
  BY Zenon, <1>12 DEF Validates
<1>16. /\ recoveries' \in SUBSET (Iterations \X AssessmentState \X Humans)
       /\ reconciled' \in [Iterations -> Humans \cup {None}]
       /\ observed' \in SUBSET Iterations /\ sent' \in [Requests -> Nat]
       /\ sent' = sent /\ reconciled' = reconciled
  BY Zenon, <1>2, <1>6 DEF Typed
<1>17. /\ b \in Assessment /\ k \in CallRow /\ executions[i] # None
       /\ assessments' = [assessments EXCEPT ![i] = b] /\ call' = [call EXCEPT ![c] = k]
  BY Zenon, <1>2, <1>3, <1>5
<1> QED
  BY Zenon, <1>6, <1>9, <1>11, <1>13, <1>14, <1>15, <1>16, <1>17, AssessmentMoves

LEMMA StartChecksStep ==
  ASSUME IInv, NEW c \in Calls, StartChecks(c)
  PROVE  IInv' /\ Keeps
<1>1. call[c].pc = "assessing" /\ CallFits(c) /\ Typed /\ Alone
  BY Zenon DEF StartChecks, IInv
<1>2. PICK i \in Iterations : i = call[c].iteration
  BY Zenon, <1>1 DEF CallFits
<1> DEFINE a == assessments[i]
           k == At(c, "checking")
           b == [a EXCEPT !.status = "RUNNING",
                          !.checks = [r \in Runs |-> IF @[r] = None THEN None ELSE "RUNNING"]]
<1>3. /\ a # None /\ a \in Assessment /\ call[c].actor \in Humans /\ AssessmentFits(i)
      /\ assessments' = [assessments EXCEPT ![i] = b]
      /\ call' = [call EXCEPT ![c] = k]
  BY Zenon, <1>1, <1>2, CallAssessment DEF StartChecks, PutAssessment, Goto, At, IInv
<1>4. /\ Unreviewed(i) /\ \A r \in Runs : a.checks[r] \in {"PREPARED", "INTERRUPTED", None}
  BY Zenon, <1>1, <1>2, Assessing
<1>5. /\ b \in Assessment /\ b.status = "RUNNING" /\ b.reviews = a.reviews
      /\ \A r \in Runs : /\ b.checks[r] \in {"RUNNING", None}
                         /\ b.checks[r] # None => a.checks[r] # None
  BY Zenon, <1>3 DEF Assessment, AssessmentState, CheckState
<1> HIDE DEF b
<1>6. k \in CallRow /\ k.pc = "checking" /\ k.iteration = i /\ k.actor \in Humans
  <2>1. "checking" \in CallState /\ call \in [Calls -> CallRow]
    BY Zenon, <1>1 DEF CallState, Typed
  <2> QED
    BY Zenon, <1>2, <1>3, <2>1, AtRow
<1> HIDE DEF k
<1>7. UNCHANGED <<workflow, campaign, repairs, executions, recoveries, reconciled, batches,
                  promotion, observed, sent>>
  BY Zenon DEF StartChecks
<1>8. assessments'[i] = b /\ b # None
  BY Zenon, <1>1, <1>3, <1>5, NoneAssumption DEF Typed
<1>9. call'[c] = k /\ \A d \in Calls : d # c => call'[d] = call[d]
  BY Zenon, <1>1, <1>3 DEF Typed
<1>10. \A r \in Runs : a.checks[r] # "PASSED"
  BY Zenon, <1>4, NoneAssumption DEF CheckState
<1>11. KeepsAssessment(assessments[i], b)
  BY Zenon, <1>5, <1>8, <1>10 DEF KeepsAssessment
<1>12. Unreviewed(i)'
  BY ZenonT(30), <1>4, <1>5, <1>7, <1>8 DEF Unreviewed
<1>13. AssessmentFits(i)'
  BY Zenon, <1>3, <1>5, <1>7, <1>8, <1>12 DEF AssessmentFits
<1>14. Alone'
  BY <1>1, <1>2, <1>6, <1>9 DEF Alone, Validates
<1>15. CallFits(c)'
  BY Zenon, <1>6, <1>8, <1>9, AssessedFits
<1>16. \A d \in Calls : d # c /\ call[d].pc = "assessing" /\ call[d].iteration = i =>
         Unreviewed(i)' /\ \A r \in Runs : b.checks[r] \in {"PREPARED", "INTERRUPTED", None}
  BY Zenon, <1>1, <1>2 DEF Alone, Validates
<1>17. /\ b \in Assessment /\ k \in CallRow /\ assessments[i] # None
       /\ assessments' = [assessments EXCEPT ![i] = b] /\ call' = [call EXCEPT ![c] = k]
  BY Zenon, <1>3, <1>5, <1>6
<1> QED
  BY Zenon, <1>7, <1>11, <1>13, <1>14, <1>15, <1>16, <1>17, AssessmentMovesOnly

LEMMA FinishChecksStep ==
  ASSUME IInv, NEW c \in Calls, FinishChecks(c)
  PROVE  IInv' /\ Keeps
<1>1. call[c].pc = "checking" /\ CallFits(c) /\ Typed /\ Alone
  BY Zenon DEF FinishChecks, IInv
<1>2. PICK i \in Iterations : i = call[c].iteration
  BY Zenon, <1>1 DEF CallFits
<1> DEFINE a == assessments[i]
           k == At(c, "resuming")
<1>3. /\ a # None /\ a \in Assessment /\ call[c].actor \in Humans /\ AssessmentFits(i)
      /\ a.status = "RUNNING" /\ call' = [call EXCEPT ![c] = k]
  BY Zenon, <1>1, <1>2, CallAssessment DEF FinishChecks, Goto, At, IInv
<1>4. PICK verdict \in [Runs -> {"PASSED", "FAILED"}] :
        PutAssessment(i, [a EXCEPT !.status = "CHECKS_READY",
                                   !.checks = [r \in Runs |-> IF @[r] = None THEN None ELSE verdict[r]]])
  BY Zenon, <1>2 DEF FinishChecks
<1> DEFINE b == [a EXCEPT !.status = "CHECKS_READY",
                          !.checks = [r \in Runs |-> IF @[r] = None THEN None ELSE verdict[r]]]
<1>5. /\ b \in Assessment /\ b.status = "CHECKS_READY" /\ b.reviews = a.reviews
      /\ \A r \in Runs : b.checks[r] # None => a.checks[r] # None
  BY Zenon, <1>3 DEF Assessment, AssessmentState, CheckState
<1>x. assessments' = [assessments EXCEPT ![i] = b]
  BY Zenon, <1>4 DEF PutAssessment
<1> HIDE DEF b
<1>6. k \in CallRow /\ k.pc = "resuming" /\ k.iteration = i /\ k.actor \in Humans
  <2>1. "resuming" \in CallState /\ call \in [Calls -> CallRow]
    BY Zenon, <1>1 DEF CallState, Typed
  <2> QED
    BY Zenon, <1>2, <1>3, <2>1, AtRow
<1> HIDE DEF k
<1>7. UNCHANGED <<workflow, campaign, repairs, executions, recoveries, reconciled, batches,
                  promotion, observed, sent>>
  BY Zenon DEF FinishChecks
<1>8. assessments'[i] = b /\ b # None
  BY Zenon, <1>1, <1>x, <1>5, NoneAssumption DEF Typed
<1>9. call'[c] = k /\ \A d \in Calls : d # c => call'[d] = call[d]
  BY Zenon, <1>1, <1>3 DEF Typed
<1>10. \A r \in Runs : a.checks[r] # "PASSED"
  BY Zenon, <1>3, NoneAssumption DEF CheckState, AssessmentFits
<1>11. KeepsAssessment(assessments[i], b)
  BY Zenon, <1>5, <1>8, <1>10 DEF KeepsAssessment
<1>12. Unreviewed(i)'
  <2>1. Unreviewed(i)
    BY Zenon, <1>3 DEF AssessmentFits
  <2> QED
    BY Zenon, <2>1, <1>5, <1>7, <1>8 DEF Unreviewed
<1>13. AssessmentFits(i)'
  BY Zenon, <1>3, <1>5, <1>7, <1>8, <1>12 DEF AssessmentFits
<1>14. Alone'
  BY Zenon, <1>1, <1>3, <1>6, StillAlone DEF Typed
<1>15. CallFits(c)'
  BY Zenon, <1>6, <1>8, <1>9, AssessedFits
<1>16. \A d \in Calls : d # c /\ call[d].pc = "assessing" /\ call[d].iteration = i =>
         Unreviewed(i)' /\ \A r \in Runs : b.checks[r] \in {"PREPARED", "INTERRUPTED", None}
  BY Zenon, <1>1, <1>2 DEF Alone, Validates
<1> QED
  BY ZenonT(30), <1>3, <1>x, <1>5, <1>6, <1>7, <1>11, <1>13, <1>14, <1>15, <1>16, AssessmentMovesOnly

LEMMA PrepareReviewsStep ==
  ASSUME IInv, NEW c \in Calls, PrepareReviews(c)
  PROVE  IInv' /\ Keeps
<1>1. call[c].pc = "resuming" /\ Typed /\ Alone
  BY Zenon DEF PrepareReviews, IInv
<1>2. PICK i \in Iterations : i = call[c].iteration
  BY Zenon, <1>1, CallAssessment
<1> DEFINE a == assessments[i]
<1>3. /\ a # None /\ a \in Assessment /\ call[c].actor \in Humans /\ AssessmentFits(i)
      /\ a.status = "CHECKS_READY"
  BY Zenon, <1>1, <1>2, CallAssessment DEF PrepareReviews, IInv
<1>4. PICK asked \in ReviewChoices(a) :
        /\ PutAssessment(i, [a EXCEPT !.status = "REVIEW_PREPARED", !.reviews = Intended(a, asked)])
        /\ call' = [call EXCEPT ![c].asked = asked,
                                ![c].pc = IF asked = {} THEN "empty" ELSE "reviewing"]
  BY Zenon, <1>2 DEF PrepareReviews
<1> DEFINE b == [a EXCEPT !.status = "REVIEW_PREPARED", !.reviews = Intended(a, asked)]
           pc == IF asked = {} THEN "empty" ELSE "reviewing"
           k == [call[c] EXCEPT !.asked = asked, !.pc = pc]
<1>5. assessments' = [assessments EXCEPT ![i] = b]
  BY Zenon, <1>4 DEF PutAssessment
<1>6. call' = [call EXCEPT ![c] = k]
  BY Zenon, <1>4
<1>7. asked \in SUBSET (Runs \X Reviewers) /\ \A m \in asked : m[1] \in Runs /\ a.checks[m[1]] = "PASSED"
  BY Zenon DEF ReviewChoices
<1>8. pc \in CallState /\ pc \in {"empty", "reviewing"} /\ (pc = "empty" <=> asked = {})
  BY Zenon DEF CallState
<1> HIDE DEF pc
<1>9. /\ k \in CallRow /\ k.pc = pc /\ k.asked = asked /\ k.iteration = i /\ k.actor \in Humans
  <2>1. call[c] \in CallRow
    BY Zenon, <1>1 DEF Typed
  <2> QED
    BY Zenon, <1>2, <1>3, <1>7, <1>8, <2>1 DEF CallRow
<1> HIDE DEF k
<1>10. b.status = "REVIEW_PREPARED" /\ b.checks = a.checks /\ b.reviews = Intended(a, asked)
  BY Zenon, <1>3 DEF Assessment
<1>11. b \in Assessment
  <2>1. Intended(a, asked) \in [Runs -> [Reviewers -> ReviewState \cup {None}]]
    BY Zenon, <1>3 DEF Intended, Assessment, ReviewState
  <2> QED
    BY Zenon, <1>3, <2>1 DEF Assessment, AssessmentState
<1> HIDE DEF b
<1>12. Unreviewed(i)
  BY Zenon, <1>3 DEF AssessmentFits
<1>13. /\ \A r \in Runs, v \in Reviewers : b.reviews[r][v] \in {"REVIEW_PREPARED", None}
       /\ \A r \in Runs, v \in Reviewers : asked = {} => b.reviews[r][v] = None
       /\ \A r \in Runs, v \in Reviewers : sent[<<i, r, v>>] = 0 /\ a.reviews[r][v] = None
  <2>1. \A r \in Runs, v \in Reviewers : sent[<<i, r, v>>] = 0 /\ a.reviews[r][v] = None
    BY Zenon, <1>12 DEF Unreviewed
  <2>2. \A r \in Runs, v \in Reviewers :
          b.reviews[r][v] = IF <<r, v>> \in asked THEN "REVIEW_PREPARED" ELSE a.reviews[r][v]
    BY <1>10 DEF Intended
  <2> QED
    BY ZenonT(30), <2>1, <2>2
<1>14. UNCHANGED <<workflow, campaign, repairs, executions, recoveries, reconciled, batches,
                   promotion, observed, sent>>
  BY Zenon DEF PrepareReviews
<1>15. assessments'[i] = b /\ b # None
  BY Zenon, <1>1, <1>5, <1>11, NoneAssumption DEF Typed
<1>16. call'[c] = k
  BY Zenon, <1>1, <1>6 DEF Typed
<1>17. KeepsAssessment(assessments[i], b)
  BY Zenon, <1>10, <1>13, <1>15, NoneAssumption DEF KeepsAssessment, ReviewState
<1>18. AssessmentFits(i)'
  BY Zenon, <1>3, <1>10, <1>13, <1>14, <1>15 DEF AssessmentFits
<1>19. Alone'
  BY Zenon, <1>1, <1>6, <1>8, <1>9, StillAlone DEF Typed
<1>20. CallFits(c)'
  BY Zenon, <1>7, <1>8, <1>9, <1>10, <1>15, <1>16 DEF CallFits
<1>21. \A d \in Calls : d # c /\ call[d].pc = "assessing" /\ call[d].iteration = i =>
         Unreviewed(i)' /\ \A r \in Runs : b.checks[r] \in {"PREPARED", "INTERRUPTED", None}
  <2> SUFFICES ASSUME NEW d \in Calls, call[d].pc = "assessing", call[d].iteration = i
               PROVE  Unreviewed(i)' /\ \A r \in Runs : b.checks[r] \in {"PREPARED", "INTERRUPTED", None}
    BY Zenon
  <2>1. CallFits(d)
    BY Zenon DEF IInv
  <2>2. \A r \in Runs : a.checks[r] \in {"PREPARED", "INTERRUPTED", None}
    BY Zenon, <2>1, Assessing
  <2>3. asked = {}
    BY Zenon, <1>7, <2>2, NoneAssumption DEF CheckState
  <2> QED
    BY Zenon, <1>10, <1>13, <1>14, <1>15, <2>2, <2>3 DEF Unreviewed
<1> QED
  BY ZenonT(30), <1>3, <1>5, <1>6, <1>9, <1>11, <1>14, <1>17, <1>18, <1>19, <1>20, <1>21, AssessmentMovesOnly

(* An assessment takes a new status and keeps its checks and reviews *)
LEMMA StatusMoves ==
  ASSUME IInv, NEW i \in Iterations, NEW b \in Assessment, NEW c \in Calls, NEW k \in CallRow,
         assessments' = [assessments EXCEPT ![i] = b], assessments[i] # None,
         call' = [call EXCEPT ![c] = k],
         UNCHANGED <<workflow, campaign, repairs, executions, recoveries, reconciled, batches,
                     promotion, sent>>,
         observed' \in SUBSET Iterations,
         b.checks = assessments[i].checks, b.reviews = assessments[i].reviews,
         b.status \in {"REVIEWS_READY", "DECIDED"},
         b.status = "DECIDED" => batches[i] # None /\ batches[i].evidence # None,
         k.pc \notin {"prepared", "assessing", "checking"}, CallFits(c)'
  PROVE  IInv' /\ Keeps
<1>1. Typed /\ Alone /\ AssessmentFits(i) /\ executions[i] # None
  BY Zenon DEF IInv, ExecutionFits
<1>2. assessments'[i] = b /\ b # None
  BY Zenon, <1>1, NoneAssumption DEF Typed
<1>3. KeepsAssessment(assessments[i], b)
  BY Zenon, <1>2 DEF KeepsAssessment
<1>4. AssessmentFits(i)'
  BY Zenon, <1>1, <1>2 DEF AssessmentFits
<1>5. Alone'
  BY Zenon, <1>1, StillAlone DEF Typed
<1>6. \A d \in Calls : d # c /\ call[d].pc = "assessing" /\ call[d].iteration = i =>
        Unreviewed(i)' /\ \A r \in Runs : b.checks[r] \in {"PREPARED", "INTERRUPTED", None}
  <2> SUFFICES ASSUME NEW d \in Calls, call[d].pc = "assessing", call[d].iteration = i
               PROVE  Unreviewed(i)' /\ \A r \in Runs : b.checks[r] \in {"PREPARED", "INTERRUPTED", None}
    BY Zenon
  <2>1. CallFits(d)
    BY Zenon DEF IInv
  <2>2. Unreviewed(i) /\ \A r \in Runs : assessments[i].checks[r] \in {"PREPARED", "INTERRUPTED", None}
    BY Zenon, <2>1, Assessing
  <2> QED
    BY <1>2, <2>2 DEF Unreviewed
<1>7. /\ recoveries' \in SUBSET (Iterations \X AssessmentState \X Humans)
      /\ reconciled' \in [Iterations -> Humans \cup {None}] /\ sent' \in [Requests -> Nat]
      /\ sent' = sent /\ reconciled' = reconciled
  BY Zenon, <1>1 DEF Typed
<1>8. UNCHANGED <<workflow, campaign, repairs, executions, batches, promotion>>
  BY Zenon
<1> QED
  BY Zenon, <1>1, <1>3, <1>4, <1>5, <1>6, <1>7, <1>8, AssessmentMoves

LEMMA FinishEmptyReviewsStep ==
  ASSUME IInv, NEW c \in Calls, FinishEmptyReviews(c)
  PROVE  IInv' /\ Keeps
<1>1. call[c].pc = "empty" /\ Typed
  BY Zenon DEF FinishEmptyReviews, IInv
<1>2. PICK i \in Iterations : i = call[c].iteration
  BY Zenon, <1>1, CallAssessment
<1> DEFINE a == assessments[i]
           b == [a EXCEPT !.status = "REVIEWS_READY"]
           k == At(c, "submitting")
<1>3. /\ a # None /\ a \in Assessment /\ call[c].actor \in Humans
      /\ assessments' = [assessments EXCEPT ![i] = b] /\ call' = [call EXCEPT ![c] = k]
  BY Zenon, <1>1, <1>2, CallAssessment DEF FinishEmptyReviews, PutAssessment, Goto, At
<1>4. b \in Assessment /\ b.status = "REVIEWS_READY" /\ b.checks = a.checks /\ b.reviews = a.reviews
  BY Zenon, <1>3 DEF Assessment, AssessmentState
<1> HIDE DEF b
<1>5. k \in CallRow /\ k.pc = "submitting" /\ k.iteration = i /\ k.actor \in Humans
  <2>1. "submitting" \in CallState /\ call \in [Calls -> CallRow]
    BY Zenon, <1>1 DEF CallState, Typed
  <2> QED
    BY Zenon, <1>2, <1>3, <2>1, AtRow
<1> HIDE DEF k
<1>6. assessments'[i] = b /\ b # None /\ call'[c] = k
  BY Zenon, <1>1, <1>3, <1>4, NoneAssumption DEF Typed
<1>7. CallFits(c)'
  BY Zenon, <1>5, <1>6, AssessedFits
<1>8. /\ UNCHANGED <<workflow, campaign, repairs, executions, recoveries, reconciled, batches,
                     promotion, sent>>
      /\ observed' \in SUBSET Iterations
  BY Zenon, <1>1 DEF FinishEmptyReviews, Typed
<1> QED
  BY Zenon, <1>3, <1>4, <1>5, <1>7, <1>8, StatusMoves

LEMMA RecordDecisionStep ==
  ASSUME IInv, NEW c \in Calls, RecordDecision(c)
  PROVE  IInv' /\ Keeps
<1>1. call[c].pc = "recording" /\ Typed /\ CallFits(c)
  BY Zenon DEF RecordDecision, IInv
<1>2. PICK i \in Iterations : i = call[c].iteration
  BY Zenon, <1>1, CallAssessment
<1> DEFINE a == assessments[i]
           b == [a EXCEPT !.status = "DECIDED"]
<1>3. /\ a # None /\ a \in Assessment /\ call' = [call EXCEPT ![c] = NoCall]
      /\ batches[i] # None /\ batches[i].evidence # None
  BY Zenon, <1>1, <1>2, CallAssessment DEF RecordDecision, Return, CallFits
<1>4. call'[c] = NoCall
  BY Zenon, <1>1, <1>3 DEF Typed
<1>5. CallFits(c)'
  BY Zenon, <1>4, EndedFits
<1>6. CASE Ready(i)
  <2>1. assessments' = [assessments EXCEPT ![i] = b] /\ observed' = observed \cup {i}
    BY Zenon, <1>2, <1>6 DEF RecordDecision, PutAssessment
  <2>2. b \in Assessment /\ b.status = "DECIDED" /\ b.checks = a.checks /\ b.reviews = a.reviews
    BY Zenon, <1>3 DEF Assessment, AssessmentState
  <2> HIDE DEF b
  <2>3. /\ UNCHANGED <<workflow, campaign, repairs, executions, recoveries, reconciled, batches,
                       promotion, sent>>
        /\ observed' \in SUBSET Iterations
    BY Zenon, <1>1, <2>1 DEF RecordDecision, Typed
  <2> QED
    BY Zenon, <1>3, <1>5, <2>1, <2>2, <2>3, NoCallRow, StatusMoves
<1>7. CASE ~Ready(i)
  <2>1. UNCHANGED <<workflow, campaign, repairs, executions, assessments, recoveries, reconciled,
                    batches, promotion, observed, sent>>
    BY Zenon, <1>2, <1>7 DEF RecordDecision
  <2> QED
    BY Zenon, <1>3, <1>5, <2>1, NoCallRow, OnlyCall
<1> QED
  BY Zenon, <1>6, <1>7

LEMMA StartReviewsStep ==
  ASSUME IInv, NEW c \in Calls, StartReviews(c)
  PROVE  IInv' /\ Keeps
<1>1. call[c].pc = "reviewing" /\ CallFits(c) /\ Typed /\ Alone
  BY Zenon DEF StartReviews, IInv
<1>2. PICK i \in Iterations : i = call[c].iteration
  BY Zenon, <1>1, CallAssessment
<1> DEFINE a == assessments[i]
           asked == call[c].asked
           b == [a EXCEPT !.status = "REVIEWS_RUNNING", !.reviews = AllReviews(a, "REVIEWS_RUNNING")]
           k == At(c, "asking")
<1>3. /\ a # None /\ a \in Assessment /\ call[c].actor \in Humans /\ AssessmentFits(i)
      /\ a.status = "REVIEW_PREPARED" /\ executions[i] # None
      /\ asked # {} /\ \A m \in asked : a.checks[m[1]] = "PASSED"
  BY Zenon, <1>1, <1>2, CallAssessment DEF StartReviews, IInv, CallFits, ExecutionFits
<1>4. /\ assessments' = [assessments EXCEPT ![i] = b] /\ call' = [call EXCEPT ![c] = k]
      /\ Send({<<i, m[1], m[2]>> : m \in asked})
  BY Zenon, <1>2 DEF StartReviews, PutAssessment, Goto, At
<1>5. k \in CallRow /\ k.pc = "asking" /\ k.iteration = i /\ k.actor \in Humans /\ k.asked = asked
  <2>1. "asking" \in CallState /\ call \in [Calls -> CallRow]
    BY Zenon, <1>1 DEF CallState, Typed
  <2> QED
    BY Zenon, <1>2, <1>3, <2>1, AtRow
<1> HIDE DEF k
<1>6. AllReviews(a, "REVIEWS_RUNNING") \in [Runs -> [Reviewers -> ReviewState \cup {None}]]
  BY Zenon DEF AllReviews, ReviewState
<1>7. \A r \in Runs, v \in Reviewers : AllReviews(a, "REVIEWS_RUNNING")[r][v] \in {"REVIEWS_RUNNING", None}
  BY Zenon DEF AllReviews
<1>8. /\ b \in Assessment /\ b.status = "REVIEWS_RUNNING" /\ b.checks = a.checks
      /\ b.reviews = AllReviews(a, "REVIEWS_RUNNING")
  BY Zenon, <1>3, <1>6 DEF Assessment, AssessmentState
<1> HIDE DEF b
<1>9. assessments'[i] = b /\ b # None /\ call'[c] = k
  BY Zenon, <1>1, <1>4, <1>8, NoneAssumption DEF Typed
<1>10. \A r \in Runs, v \in Reviewers :
         a.reviews[r][v] \in {"REVIEW_PREPARED", None} /\ sent[<<i, r, v>>] = 0
  BY Zenon, <1>3 DEF AssessmentFits
<1>11. asked \in SUBSET (Runs \X Reviewers) /\ sent \in [Requests -> Nat]
  BY Zenon, <1>1 DEF Typed, CallRow
<1>12. \A m \in asked : m[1] \in Runs
  BY Zenon, <1>11
<1> HIDE DEF asked
<1>13. /\ sent' \in [Requests -> Nat]
       /\ \A j \in Iterations, r \in Runs : sent'[<<j, r>>] = sent[<<j, r>>]
       /\ \A j \in Iterations \ {i}, r \in Runs, v \in Reviewers : sent'[<<j, r, v>>] = sent[<<j, r, v>>]
       /\ \A r \in Runs, v \in Reviewers : sent'[<<i, r, v>>] <= 1
  BY Zenon, <1>4, <1>10, <1>11, SendToReviewers
<1>14. KeepsAssessment(assessments[i], b)
  BY Zenon, <1>8, <1>9, <1>10, NoneAssumption DEF KeepsAssessment, ReviewState
<1>15. UNCHANGED <<workflow, campaign, repairs, executions, recoveries, reconciled, batches,
                   promotion, observed>>
  BY Zenon DEF StartReviews
<1>16. AssessmentFits(i)'
  BY ZenonT(30), <1>3, <1>7, <1>8, <1>9, <1>13, <1>15 DEF AssessmentFits
<1>17. Alone'
  BY Zenon, <1>1, <1>4, <1>5, StillAlone DEF Typed
<1>18. CallFits(c)'
  BY ZenonT(30), <1>3, <1>5, <1>8, <1>9 DEF CallFits
<1>19. \A d \in Calls : d # c /\ call[d].pc = "assessing" /\ call[d].iteration = i =>
         Unreviewed(i)' /\ \A r \in Runs : b.checks[r] \in {"PREPARED", "INTERRUPTED", None}
  <2> SUFFICES ASSUME NEW d \in Calls, call[d].pc = "assessing", call[d].iteration = i
               PROVE  FALSE
    BY Zenon
  <2>1. CallFits(d)
    BY Zenon DEF IInv
  <2>2. \A r \in Runs : a.checks[r] \in {"PREPARED", "INTERRUPTED", None}
    BY Zenon, <2>1, Assessing
  <2> QED
    BY Zenon, <1>3, <1>12, <2>2, NoneAssumption DEF CheckState
<1>20. /\ recoveries' \in SUBSET (Iterations \X AssessmentState \X Humans)
       /\ reconciled' \in [Iterations -> Humans \cup {None}] /\ reconciled' = reconciled
       /\ observed' \in SUBSET Iterations
  BY Zenon, <1>1, <1>15 DEF Typed
<1>21. /\ b \in Assessment /\ k \in CallRow /\ executions[i] # None
       /\ assessments' = [assessments EXCEPT ![i] = b] /\ call' = [call EXCEPT ![c] = k]
  BY Zenon, <1>3, <1>4, <1>5, <1>8
<1>22. /\ UNCHANGED <<workflow, campaign, repairs, executions, batches, promotion>>
       /\ \A j \in Iterations \ {i} : reconciled'[j] = reconciled[j]
  BY Zenon, <1>15
<1> QED
  BY ZenonT(30), <1>13, <1>14, <1>16, <1>17, <1>18, <1>19, <1>20, <1>21, <1>22, AssessmentMoves

LEMMA FinishReviewsStep ==
  ASSUME IInv, NEW c \in Calls, FinishReviews(c)
  PROVE  IInv' /\ Keeps
<1>1. call[c].pc = "asking" /\ CallFits(c) /\ Typed /\ Alone
  BY Zenon DEF FinishReviews, IInv
<1>2. PICK i \in Iterations : i = call[c].iteration
  BY Zenon, <1>1, CallAssessment
<1> DEFINE a == assessments[i]
           asked == call[c].asked
<1>3. /\ a # None /\ a \in Assessment /\ call[c].actor \in Humans /\ AssessmentFits(i)
      /\ a.status = "REVIEWS_RUNNING"
      /\ asked # {} /\ \A m \in asked : a.checks[m[1]] = "PASSED"
  BY Zenon, <1>1, <1>2, CallAssessment DEF FinishReviews, IInv, CallFits
<1>4. PICK answer \in ReviewAnswers(asked) :
        LET unknown == \E m \in asked : answer[m] = "UNKNOWN"
        IN  /\ PutAssessment(i, [a EXCEPT !.reviews = Answered(a, asked, answer),
                                          !.status = IF unknown THEN "REVIEW_UNKNOWN" ELSE "REVIEWS_READY"])
            /\ IF unknown THEN Return(c) ELSE Goto(c, "submitting")
  BY Zenon, <1>2 DEF FinishReviews
<1> DEFINE unknown == \E m \in asked : answer[m] = "UNKNOWN"
           status == IF unknown THEN "REVIEW_UNKNOWN" ELSE "REVIEWS_READY"
           b == [a EXCEPT !.reviews = Answered(a, asked, answer), !.status = status]
           k == IF unknown THEN NoCall ELSE At(c, "submitting")
<1>5. assessments' = [assessments EXCEPT ![i] = b] /\ call' = [call EXCEPT ![c] = k]
  BY Zenon, <1>4 DEF PutAssessment, Return, Goto, At
<1>6. status \in {"REVIEW_UNKNOWN", "REVIEWS_READY"}
  BY Zenon
<1>7. /\ k \in CallRow /\ k.pc \in {"idle", "submitting"}
      /\ k = NoCall \/ (k.pc = "submitting" /\ k.iteration = i /\ k.actor \in Humans)
  <2>1. "submitting" \in CallState /\ call \in [Calls -> CallRow]
    BY Zenon, <1>1 DEF CallState, Typed
  <2>2. /\ At(c, "submitting") \in CallRow /\ At(c, "submitting").pc = "submitting"
        /\ At(c, "submitting").iteration = i /\ At(c, "submitting").actor \in Humans
    BY Zenon, <1>2, <1>3, <2>1, AtRow
  <2> QED
    BY Zenon, <2>2, NoCallRow
<1> HIDE DEF k, status, unknown
<1>8. asked \in SUBSET (Runs \X Reviewers)
  BY Zenon, <1>1 DEF Typed, CallRow
<1>9. Answered(a, asked, answer) \in [Runs -> [Reviewers -> ReviewState \cup {None}]]
  BY Zenon, <1>3 DEF Answered, ReviewAnswers, ReviewState, Assessment
<1>10. b \in Assessment /\ b.status = status /\ b.checks = a.checks
  BY Zenon, <1>3, <1>6, <1>9 DEF Assessment, AssessmentState
<1> HIDE DEF b
<1>11. assessments'[i] = b /\ b # None /\ call'[c] = k
  BY Zenon, <1>1, <1>5, <1>10, NoneAssumption DEF Typed
<1>12. \A r \in Runs, v \in Reviewers :
         a.reviews[r][v] \notin {"PASSED", "REJECTED", "FAILED", "UNKNOWN"}
  BY Zenon, <1>3, NoneAssumption DEF AssessmentFits, ReviewState
<1>13. KeepsAssessment(assessments[i], b)
  BY Zenon, <1>10, <1>11, <1>12 DEF KeepsAssessment
<1>14. UNCHANGED <<workflow, campaign, repairs, executions, recoveries, reconciled, batches,
                   promotion, observed, sent>>
  BY Zenon DEF FinishReviews
<1>15. AssessmentFits(i)'
  BY Zenon, <1>3, <1>6, <1>10, <1>11, <1>14 DEF AssessmentFits
<1>16. Alone'
  BY Zenon, <1>1, <1>5, <1>7, StillAlone DEF Typed
<1>17. CallFits(c)'
  BY Zenon, <1>7, <1>11, AssessedFits, EndedFits
<1>18. \A d \in Calls : d # c /\ call[d].pc = "assessing" /\ call[d].iteration = i =>
         Unreviewed(i)' /\ \A r \in Runs : b.checks[r] \in {"PREPARED", "INTERRUPTED", None}
  <2> SUFFICES ASSUME NEW d \in Calls, call[d].pc = "assessing", call[d].iteration = i
               PROVE  FALSE
    BY Zenon
  <2>1. CallFits(d)
    BY Zenon DEF IInv
  <2>2. \A r \in Runs : a.checks[r] \in {"PREPARED", "INTERRUPTED", None}
    BY Zenon, <2>1, Assessing
  <2>3. \A m \in asked : m[1] \in Runs
    BY Zenon, <1>8
  <2> QED
    BY Zenon, <1>3, <2>2, <2>3, NoneAssumption DEF CheckState
<1> QED
  BY ZenonT(30), <1>3, <1>5, <1>7, <1>10, <1>13, <1>14, <1>15, <1>16, <1>17, <1>18, AssessmentMovesOnly

(* Reviews in one status are settled in another *)
LEMMA RemarkRow ==
  ASSUME NEW a \in Assessment, NEW from \in ReviewState, NEW to \in ReviewState
  PROVE  /\ Remark(a, from, to) \in [Runs -> [Reviewers -> ReviewState \cup {None}]]
         /\ \A r \in Runs, v \in Reviewers :
              /\ a.reviews[r][v] = from => Remark(a, from, to)[r][v] = to
              /\ a.reviews[r][v] # from => Remark(a, from, to)[r][v] = a.reviews[r][v]
BY Zenon DEF Remark, Assessment

(* The steps of recovery and reconciliation over an assessment: those who are about to validate  *)
(* it find their checks prepared or interrupted, and no review.                                  *)
LEMMA AssessingUndisturbed ==
  ASSUME IInv, NEW i \in Iterations, NEW b, assessments'[i] = b, sent' = sent,
         \A r \in Runs : \/ b.checks[r] = assessments[i].checks[r]
                         \/ b.checks[r] = "INTERRUPTED",
         \A r \in Runs, v \in Reviewers :
           assessments[i].reviews[r][v] = None => b.reviews[r][v] = None
  PROVE  \A d \in Calls : call[d].pc = "assessing" /\ call[d].iteration = i =>
           Unreviewed(i)' /\ \A r \in Runs : b.checks[r] \in {"PREPARED", "INTERRUPTED", None}
<1> SUFFICES ASSUME NEW d \in Calls, call[d].pc = "assessing", call[d].iteration = i
             PROVE  Unreviewed(i)' /\ \A r \in Runs : b.checks[r] \in {"PREPARED", "INTERRUPTED", None}
  BY Zenon
<1>1. CallFits(d)
  BY Zenon DEF IInv
<1>2. Unreviewed(i) /\ \A r \in Runs : assessments[i].checks[r] \in {"PREPARED", "INTERRUPTED", None}
  BY Zenon, <1>1, Assessing
<1> QED
  BY Zenon, <1>2 DEF Unreviewed

LEMMA ReconcileEvaluationReviewsStep ==
  ASSUME IInv, NEW c \in Calls, NEW h \in Humans, NEW i \in Iterations, ReconcileEvaluationReviews(c, h, i)
  PROVE  IInv' /\ Keeps
<1> DEFINE a == assessments[i]
           reviews == Remark(a, "UNKNOWN", "FAILED")
           b == [a EXCEPT !.status = "REVIEWS_READY", !.reviews = reviews]
           k == Begun(h, i, "submitting")
<1>1. /\ Typed /\ Alone /\ AssessmentFits(i) /\ a # None /\ executions[i] # None
      /\ assessments' = [assessments EXCEPT ![i] = b] /\ call' = [call EXCEPT ![c] = k]
      /\ reconciled' = [reconciled EXCEPT ![i] = h]
  BY Zenon DEF ReconcileEvaluationReviews, PutAssessment, Begin, Begun, IInv, ExecutionFits
<1>2. a \in Assessment
  BY Zenon, <1>1 DEF Typed
<1>3. /\ reviews \in [Runs -> [Reviewers -> ReviewState \cup {None}]]
      /\ \A r \in Runs, v \in Reviewers :
           /\ a.reviews[r][v] = "UNKNOWN" => reviews[r][v] = "FAILED"
           /\ a.reviews[r][v] # "UNKNOWN" => reviews[r][v] = a.reviews[r][v]
  <2>1. "UNKNOWN" \in ReviewState /\ "FAILED" \in ReviewState
    BY Zenon DEF ReviewState
  <2> QED
    BY <1>2, <2>1, RemarkRow
<1> HIDE DEF reviews
<1>4. b \in Assessment /\ b.status = "REVIEWS_READY" /\ b.checks = a.checks /\ b.reviews = reviews
  BY Zenon, <1>2, <1>3 DEF Assessment, AssessmentState
<1> HIDE DEF b
<1>5. k \in CallRow /\ k.pc = "submitting" /\ k.iteration = i /\ k.actor = h
  <2>1. "submitting" \in CallState
    BY Zenon DEF CallState
  <2> QED
    BY <2>1, BegunRow
<1> HIDE DEF k
<1>6. assessments'[i] = b /\ b # None /\ call'[c] = k
  BY Zenon, <1>1, <1>4, NoneAssumption DEF Typed
<1>7. /\ UNCHANGED <<workflow, campaign, repairs, executions, batches, promotion>>
      /\ UNCHANGED <<recoveries, observed, sent>>
  BY Zenon DEF ReconcileEvaluationReviews
<1>8. KeepsAssessment(assessments[i], b)
  BY Zenon, <1>3, <1>4, <1>6 DEF KeepsAssessment
<1>9. AssessmentFits(i)'
  BY ZenonT(30), <1>1, <1>4, <1>6, <1>7 DEF AssessmentFits
<1>10. Alone'
  BY Zenon, <1>1, <1>5, StillAlone DEF Typed
<1>11. CallFits(c)'
  BY Zenon, <1>5, <1>6, AssessedFits
<1>12. \A d \in Calls : call[d].pc = "assessing" /\ call[d].iteration = i =>
         Unreviewed(i)' /\ \A r \in Runs : b.checks[r] \in {"PREPARED", "INTERRUPTED", None}
  <2>1. \A r \in Runs, v \in Reviewers : a.reviews[r][v] = None => b.reviews[r][v] = None
    BY Zenon, <1>3, <1>4, NoneAssumption DEF ReviewState
  <2> QED
    BY <1>4, <1>6, <1>7, <2>1, AssessingUndisturbed
<1>13. /\ recoveries' \in SUBSET (Iterations \X AssessmentState \X Humans)
       /\ reconciled' \in [Iterations -> Humans \cup {None}]
       /\ \A j \in Iterations \ {i} : reconciled'[j] = reconciled[j]
       /\ observed' \in SUBSET Iterations /\ sent' \in [Requests -> Nat] /\ sent' = sent
  BY Zenon, <1>1, <1>7 DEF Typed
<1>14. /\ b \in Assessment /\ k \in CallRow /\ executions[i] # None
       /\ assessments' = [assessments EXCEPT ![i] = b] /\ call' = [call EXCEPT ![c] = k]
  BY Zenon, <1>1, <1>4, <1>5
<1> QED
  BY ZenonT(30), <1>7, <1>8, <1>9, <1>10, <1>11, <1>12, <1>13, <1>14, AssessmentMoves

(* What recovery makes of an assessment that was interrupted *)
LEMMA RecoveredRow ==
  ASSUME IInv, NEW i \in Iterations, NEW a, a = assessments[i], a # None,
         a.status \in {"PREPARED", "RUNNING", "REVIEW_PREPARED", "REVIEWS_RUNNING"}
  PROVE  /\ Recovered(a) \in Assessment
         /\ Recovered(a).status \in {"CHECKS_READY", "REVIEWS_READY", "REVIEW_UNKNOWN"}
         /\ Recovered(a).status = "CHECKS_READY" =>
              a.status \in {"PREPARED", "RUNNING"} /\ Recovered(a).reviews = a.reviews
         /\ \A r \in Runs : \/ Recovered(a).checks[r] = a.checks[r]
                            \/ a.checks[r] \in {"PREPARED", "RUNNING"} /\ Recovered(a).checks[r] = "INTERRUPTED"
         /\ \A r \in Runs, v \in Reviewers :
              \/ Recovered(a).reviews[r][v] = a.reviews[r][v]
              \/ a.reviews[r][v] \in {"REVIEW_PREPARED", "REVIEWS_RUNNING"}
<1>1. a \in Assessment
  BY Zenon DEF IInv, Typed
<1>2. CASE a.status \in {"PREPARED", "RUNNING"}
  <2> DEFINE checks == [r \in Runs |-> IF a.checks[r] \in {"PREPARED", "RUNNING"} THEN "INTERRUPTED"
                                       ELSE a.checks[r]]
             b == [a EXCEPT !.status = "CHECKS_READY", !.checks = checks]
  <2>1. Recovered(a) = b
    BY Zenon, <1>2 DEF Recovered
  <2>2. b \in Assessment /\ b.status = "CHECKS_READY" /\ b.reviews = a.reviews /\ b.checks = checks
    BY Zenon, <1>1 DEF Assessment, AssessmentState, CheckState
  <2> HIDE DEF b
  <2> QED
    BY Zenon, <1>2, <2>1, <2>2
<1>3. CASE a.status = "REVIEW_PREPARED"
  <2> DEFINE reviews == Remark(a, "REVIEW_PREPARED", "FAILED")
             b == [a EXCEPT !.status = "REVIEWS_READY", !.reviews = reviews]
  <2>1. Recovered(a) = b
    BY Zenon, <1>3 DEF Recovered
  <2>2. /\ reviews \in [Runs -> [Reviewers -> ReviewState \cup {None}]]
        /\ \A r \in Runs, v \in Reviewers : a.reviews[r][v] # "REVIEW_PREPARED" => reviews[r][v] = a.reviews[r][v]
    <3>1. "REVIEW_PREPARED" \in ReviewState /\ "FAILED" \in ReviewState
      BY Zenon DEF ReviewState
    <3> QED
      BY <1>1, <3>1, RemarkRow
  <2> HIDE DEF reviews
  <2>3. b \in Assessment /\ b.status = "REVIEWS_READY" /\ b.checks = a.checks /\ b.reviews = reviews
    BY Zenon, <1>1, <2>2 DEF Assessment, AssessmentState
  <2> HIDE DEF b
  <2> QED
    BY Zenon, <2>1, <2>2, <2>3
<1>4. CASE a.status = "REVIEWS_RUNNING"
  <2> DEFINE reviews == Remark(a, "REVIEWS_RUNNING", "UNKNOWN")
             b == [a EXCEPT !.status = "REVIEW_UNKNOWN", !.reviews = reviews]
  <2>1. Recovered(a) = b
    BY Zenon, <1>4 DEF Recovered
  <2>2. /\ reviews \in [Runs -> [Reviewers -> ReviewState \cup {None}]]
        /\ \A r \in Runs, v \in Reviewers : a.reviews[r][v] # "REVIEWS_RUNNING" => reviews[r][v] = a.reviews[r][v]
    <3>1. "REVIEWS_RUNNING" \in ReviewState /\ "UNKNOWN" \in ReviewState
      BY Zenon DEF ReviewState
    <3> QED
      BY <1>1, <3>1, RemarkRow
  <2> HIDE DEF reviews
  <2>3. b \in Assessment /\ b.status = "REVIEW_UNKNOWN" /\ b.checks = a.checks /\ b.reviews = reviews
    BY Zenon, <1>1, <2>2 DEF Assessment, AssessmentState
  <2> HIDE DEF b
  <2> QED
    BY Zenon, <2>1, <2>2, <2>3
<1> QED
  BY Zenon, <1>2, <1>3, <1>4

LEMMA RecoverEvaluationAssessmentStep ==
  ASSUME IInv, NEW c \in Calls, NEW h \in Humans, NEW i \in Iterations, RecoverEvaluationAssessment(c, h, i)
  PROVE  IInv' /\ Keeps
<1> DEFINE a == assessments[i]
           b == Recovered(a)
           k == Begun(h, i, "resuming")
           undisturbed(d) == call[d].pc = "assessing" /\ call[d].iteration = i =>
             Unreviewed(i)' /\ \A r \in Runs : b.checks[r] \in {"PREPARED", "INTERRUPTED", None}
<1>1. /\ Typed /\ Alone /\ AssessmentFits(i) /\ a # None /\ executions[i] # None
      /\ a.status \in {"PREPARED", "RUNNING", "REVIEW_PREPARED", "REVIEWS_RUNNING"}
      /\ assessments' = [assessments EXCEPT ![i] = b]
      /\ recoveries' = recoveries \cup {<<i, a.status, h>>}
  BY Zenon DEF RecoverEvaluationAssessment, PutAssessment, IInv, ExecutionFits
<1>2. /\ b \in Assessment
      /\ b.status \in {"CHECKS_READY", "REVIEWS_READY", "REVIEW_UNKNOWN"}
      /\ b.status = "CHECKS_READY" => a.status \in {"PREPARED", "RUNNING"} /\ b.reviews = a.reviews
      /\ \A r \in Runs : \/ b.checks[r] = a.checks[r]
                         \/ a.checks[r] \in {"PREPARED", "RUNNING"} /\ b.checks[r] = "INTERRUPTED"
      /\ \A r \in Runs, v \in Reviewers : \/ b.reviews[r][v] = a.reviews[r][v]
                                          \/ a.reviews[r][v] \in {"REVIEW_PREPARED", "REVIEWS_RUNNING"}
  BY <1>1, RecoveredRow
<1> HIDE DEF b
<1>3. assessments'[i] = b /\ b # None
  BY Zenon, <1>1, <1>2, NoneAssumption DEF Typed
<1>4. /\ UNCHANGED <<workflow, campaign, repairs, executions, batches, promotion>>
      /\ reconciled' = reconciled /\ observed' = observed /\ sent' = sent
  BY Zenon DEF RecoverEvaluationAssessment
<1>5. KeepsAssessment(assessments[i], b)
  <2>1. \A r \in Runs : /\ b.checks[r] # None => a.checks[r] # None
                        /\ a.checks[r] = "PASSED" => b.checks[r] = "PASSED"
    BY Zenon, <1>2, NoneAssumption DEF CheckState
  <2>2. \A r \in Runs, v \in Reviewers :
          a.reviews[r][v] \in {"PASSED", "REJECTED", "FAILED", "UNKNOWN"} => b.reviews[r][v] = a.reviews[r][v]
    BY Zenon, <1>2
  <2> QED
    BY Zenon, <1>3, <2>1, <2>2 DEF KeepsAssessment
<1>6. AssessmentFits(i)'
  <2>1. b.status = "CHECKS_READY" => Unreviewed(i)'
    <3>1. b.status = "CHECKS_READY" => Unreviewed(i)
      BY Zenon, <1>1, <1>2 DEF AssessmentFits
    <3> QED
      BY <1>2, <1>3, <1>4, <3>1 DEF Unreviewed
  <2>2. \A r \in Runs : b.checks[r] # None => executions[i].runs[r] = "SUCCEEDED"
    BY Zenon, <1>1, <1>5 DEF AssessmentFits, KeepsAssessment
  <2> QED
    BY <1>1, <1>2, <1>3, <1>4, <2>1, <2>2 DEF AssessmentFits
<1>7. \A d \in Calls : undisturbed(d)
  <2>1. /\ \A r \in Runs : b.checks[r] = a.checks[r] \/ b.checks[r] = "INTERRUPTED"
        /\ \A r \in Runs, v \in Reviewers : a.reviews[r][v] = None => b.reviews[r][v] = None
    BY Zenon, <1>2, NoneAssumption DEF ReviewState
  <2> QED
    BY <1>3, <1>4, <2>1, AssessingUndisturbed
<1>8. recoveries' \in SUBSET (Iterations \X AssessmentState \X Humans)
  BY <1>1 DEF Typed, AssessmentState
<1>9. /\ reconciled' \in [Iterations -> Humans \cup {None}]
      /\ observed' \in SUBSET Iterations /\ sent' \in [Requests -> Nat]
  BY Zenon, <1>1, <1>4 DEF Typed
<1>10. CASE call' = call
  <2> DEFINE S == {d \in Calls : FALSE}
  <2>1. S \in SUBSET Calls /\ (\A d \in S : CallFits(d)') /\ \A d \in Calls \ S : undisturbed(d)
    BY Zenon, <1>7
  <2>2. call' \in [Calls -> CallRow] /\ \A d \in Calls \ S : call'[d] = call[d]
    BY Zenon, <1>1, <1>10 DEF Typed
  <2>3. Alone'
    BY Zenon, <1>1, <1>10 DEF Alone, Validates
  <2> HIDE DEF S
  <2> QED
    BY Zenon, <1>1, <1>2, <1>4, <1>5, <1>6, <1>8, <1>9, <2>1, <2>2, <2>3, OnlyAssessment
<1>11. CASE call' = [call EXCEPT ![c] = k]
  <2>1. k \in CallRow /\ k.pc = "resuming" /\ k.iteration = i /\ k.actor = h
    <3>1. "resuming" \in CallState
      BY Zenon DEF CallState
    <3> QED
      BY <3>1, BegunRow
  <2>2. call' = [call EXCEPT ![c] = k] /\ call'[c] = k
    BY Zenon, <1>1, <1>11 DEF Typed
  <2> HIDE DEF k
  <2>3. Alone'
    BY Zenon, <1>1, <2>1, <2>2, StillAlone DEF Typed
  <2>4. CallFits(c)'
    BY Zenon, <1>3, <2>1, <2>2, AssessedFits
  <2>5. \A d \in Calls : d # c /\ call[d].pc = "assessing" /\ call[d].iteration = i =>
          Unreviewed(i)' /\ \A r \in Runs : b.checks[r] \in {"PREPARED", "INTERRUPTED", None}
    BY Zenon, <1>7
  <2>6. /\ b \in Assessment /\ k \in CallRow /\ executions[i] # None
        /\ assessments' = [assessments EXCEPT ![i] = b] /\ call' = [call EXCEPT ![c] = k]
    BY Zenon, <1>1, <1>2, <2>1, <2>2
  <2> QED
    BY ZenonT(30), <1>4, <1>5, <1>6, <1>8, <1>9, <2>3, <2>4, <2>5, <2>6, AssessmentMoves
<1> QED
  BY Zenon, <1>10, <1>11 DEF RecoverEvaluationAssessment, Begin, Begun
-----------------------------------------------------------------------------
(* Theorems *)

LEMMA InitFits == Init => IInv
<1> SUFFICES ASSUME Init PROVE IInv
  BY Zenon
<1>1. Typed
  <2>1. workflow \in [active : BOOLEAN, version : 1..MaxVersion]
    BY BoundAssumption DEF Init
  <2>2. call \in [Calls -> CallRow]
    BY Zenon, NoCallRow DEF Init
  <2>3. sent \in [Requests -> Nat]
    BY Zenon DEF Init, Requests
  <2> QED
    BY Zenon, <2>1, <2>2, <2>3 DEF Init, Typed
<1>2. CampaignFits
  BY Zenon DEF Init, CampaignFits
<1>3. ASSUME NEW i \in Iterations PROVE ExecutionFits(i) /\ AssessmentFits(i) /\ BatchFits(i)
  <2>1. \A m \in Requests : sent[m] = 0
    BY Zenon DEF Init, Requests
  <2>2. /\ \A r \in Runs : <<i, r>> \in Requests
        /\ \A r \in Runs, v \in Reviewers : <<i, r, v>> \in Requests
    BY Zenon DEF Requests
  <2>3. executions[i] = None /\ assessments[i] = None /\ batches[i] = None /\ reconciled[i] = None
    BY Zenon DEF Init
  <2> QED
    BY <2>1, <2>2, <2>3 DEF ExecutionFits, AssessmentFits, BatchFits
<1>4. \A c \in Calls : CallFits(c)
  BY Zenon DEF Init, NoCall, CallFits
<1>5. Alone
  BY Zenon DEF Init, NoCall, Alone, Validates
<1>6. promotion = None
  BY Zenon DEF Init
<1> QED
  BY ZenonT(30), <1>1, <1>2, <1>3, <1>4, <1>5, <1>6 DEF IInv, PromotedWinnerIsProven

LEMMA CommandStep ==
  ASSUME IInv, NEW c \in Calls, NEW h \in Humans, Command(c, h)
  PROVE  IInv' /\ Keeps
BY Zenon, PrepareExecutionStep, PrepareAssessmentStep, ReplayValidationStep, ReconcileEvaluationReviewsStep,
   ReplayReconciliationStep, RecoverEvaluationAssessmentStep, ReplayRecoveryStep DEF Command

LEMMA StepStep ==
  ASSUME IInv, NEW c \in Calls, Step(c)
  PROVE  IInv' /\ Keeps
BY ZenonT(30), StartExecutionStep, FinishExecutionStep, StartChecksStep, FinishChecksStep, ResumeAssessmentStep,
   PrepareReviewsStep, FinishEmptyReviewsStep, StartReviewsStep, FinishReviewsStep, ReadEvidenceStep,
   DecideAssessmentStep, RecordDecisionStep DEF Step

LEMMA StutterStep ==
  ASSUME IInv, UNCHANGED vars
  PROVE  IInv' /\ Keeps
<1>1. UNCHANGED <<workflow, campaign, repairs, executions, assessments, recoveries, reconciled,
                  batches, promotion, observed, call, sent>>
  BY Zenon DEF vars
<1>2. Typed'
  BY Zenon, <1>1 DEF IInv, Typed
<1>3. CampaignFits'
  BY Zenon, <1>1 DEF IInv, CampaignFits
<1> QED
  BY Zenon, <1>1, <1>2, <1>3, BatchesStay, OnlyCampaign

LEMMA NextStep == IInv /\ [Next]_vars => IInv' /\ Keeps
<1> SUFFICES ASSUME IInv, [Next]_vars PROVE IInv' /\ Keeps
  BY Zenon
<1>1. CASE CreateEvaluationCampaign \/ PlanEvaluationRepair \/ WorkflowMoves
  BY Zenon, <1>1, CreateEvaluationCampaignStep, PlanEvaluationRepairStep, WorkflowMovesStep
<1>2. CASE \E h \in Humans : SubmitEvaluationEvidence(h)
  BY Zenon, <1>2, SubmitEvaluationEvidenceStep
<1>3. CASE \E i \in Iterations : ReconcileEvaluationExecution(i) \/ PromoteEvaluationWinner(i)
  BY Zenon, <1>3, ReconcileEvaluationExecutionStep, PromoteEvaluationWinnerStep
<1>4. CASE \E c \in Calls, h \in Humans : Command(c, h)
  BY Zenon, <1>4, CommandStep
<1>5. CASE \E c \in Calls : Step(c) \/ Crash(c)
  BY Zenon, <1>5, StepStep, CrashStep
<1>6. CASE UNCHANGED vars
  BY Zenon, <1>6, StutterStep
<1> QED
  BY Zenon, <1>1, <1>2, <1>3, <1>4, <1>5, <1>6 DEF Next

(* IInv holds of every state the commands of evaluation_campaigns.py, evaluation_pipeline.py and *)
(* evaluation_lifecycle.py reach.                                                                *)
THEOREM Inductive == Spec => []IInv
<1>1. IInv /\ [Next]_vars => IInv'
  BY Zenon, NextStep
<1> QED
  BY <1>1, InitFits, PTL DEF Spec

(* The rows of the campaign and what its commands hold keep their types *)
THEOREM TypeCorrect == Spec => []TypeOK
<1>1. IInv => TypeOK
  BY Zenon DEF IInv, Typed, TypeOK
<1> QED
  BY <1>1, Inductive, PTL

(* For any number of concurrent commands, reviewers, iterations and recoveries, what             *)
(* promote_evaluation_winner promotes succeeded, passed its checks and enough reviews, although  *)
(* it reads neither.                                                                             *)
THEOREM WinnerIsProven == Spec => []PromotedWinnerIsProven
<1>1. IInv => PromotedWinnerIsProven
  BY Zenon DEF IInv
<1> QED
  BY <1>1, Inductive, PTL

(* No provider and no reviewer receives a request twice, however commands are retried, resumed,  *)
(* recovered or reconciled.                                                                      *)
THEOREM SentOnce == Spec => []NeverReplayed
<1>1. IInv => NeverReplayed
  <2> SUFFICES ASSUME IInv, NEW m \in DOMAIN sent PROVE sent[m] <= 1
    BY Zenon DEF NeverReplayed
  <2>1. m \in Requests
    BY Zenon DEF IInv, Typed
  <2>2. CASE m \in Iterations \X Runs
    <3>1. PICK i \in Iterations, r \in Runs : m = <<i, r>>
      BY <2>2
    <3> QED
      BY Zenon, <3>1 DEF IInv, ExecutionFits
  <2>3. CASE m \in Iterations \X Runs \X Reviewers
    <3>1. PICK i \in Iterations, r \in Runs, v \in Reviewers : m = <<i, r, v>>
      BY <2>3
    <3> QED
      BY Zenon, <3>1 DEF IInv, AssessmentFits
  <2> QED
    BY Zenon, <2>1, <2>2, <2>3 DEF Requests
<1> QED
  BY <1>1, Inductive, PTL

(* The campaign row and its batches tell one history: submit_evaluation_evidence never overwrites *)
(* a batch nor leaves an iteration out, and a trusted batch names a run of its own iteration.    *)
THEOREM CampaignHistory == Spec => []CampaignFollowsBatches
<1>1. IInv => CampaignFollowsBatches
  <2> SUFFICES ASSUME IInv, campaign # None PROVE CampaignFollowsBatches
    BY Zenon DEF CampaignFollowsBatches
  <2>1. campaign.iteration \in Iterations
    BY Zenon DEF IInv, Typed, CampaignRow
  <2>2. ASSUME NEW i \in Iterations, batches[i] # None, batches[i].evidence # None, batches[i].winner # None
        PROVE  batches[i].winner[1] = i
    <3>1. \E r \in EligibleRuns(batches[i].evidence) : batches[i].winner = <<i, r>>
      BY Zenon, <2>2 DEF IInv, BatchFits
    <3> QED
      BY <3>1
  <2>3. CampaignFits
    BY Zenon DEF IInv
  <2> QED
    BY Zenon, <2>1, <2>2, <2>3 DEF CampaignFits, CampaignFollowsBatches, CampaignOpen
<1> QED
  BY <1>1, Inductive, PTL

(* The outcome of a run or of a review, once committed, is never overwritten: a late answer of   *)
(* execute_evaluation_campaign or of a reviewer finds the row settled and is dropped.            *)
THEOREM OutcomesNeverChange == Spec => OutcomesStand
<1> DEFINE Stand ==
      \A i \in Iterations, r \in Runs :
       /\ executions[i] # None =>
            LET was == executions[i].runs[r]
                is == executions[i]'.runs[r]
            IN  /\ was \in {"SUCCEEDED", "FAILED"} => is = was
                /\ was = "UNKNOWN" => is \in {"UNKNOWN", "FAILED"}
       /\ assessments[i] # None => \A v \in Reviewers :
            LET was == assessments[i].reviews[r][v]
                is == assessments[i]'.reviews[r][v]
            IN  /\ was \in {"PASSED", "REJECTED", "FAILED"} => is = was
                /\ was = "UNKNOWN" => is \in {"UNKNOWN", "FAILED"}
<1>1. IInv /\ [Next]_vars => [Stand]_vars
  <2> SUFFICES ASSUME IInv, [Next]_vars PROVE Stand
    BY Zenon
  <2>1. Keeps
    BY Zenon, NextStep
  <2> QED
    BY Zenon, <2>1 DEF Keeps, KeepsExecution, KeepsAssessment
<1> QED
  BY <1>1, Inductive, PTL DEF Spec, OutcomesStand
=============================================================================
