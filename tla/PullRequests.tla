---------------------------- MODULE PullRequests ----------------------------
(***************************************************************************)
(* GitPullRequestService (git_pull_requests.py) and the GitHubAppClient it *)
(* calls (github_app.py), for one workflow that awaits human approval: the *)
(* draft pull request, the readiness assessment, and the confirmation that *)
(* a human has merged.                                                     *)
(*                                                                         *)
(* Every command commits its intent (a RUNNING record under an idempotency *)
(* key), talks to GitHub without a transaction, and records the outcome in *)
(* a second one.  Any number of commands are in flight at once, each may   *)
(* die between two steps, and GitHub changes on its own: branches are      *)
(* pushed, pull requests are merged and closed.                            *)
(***************************************************************************)
EXTENDS WorkflowStates, Integers, Sequences, FiniteSets, TLC

CONSTANTS
  Calls,        \* API requests being served
  ProposalKeys, AssessmentKeys, ConfirmationKeys,   \* idempotency keys of one actor, by command
  Revisions,    \* commits the head branch can point to
  Candidate,    \* the workflow's candidate_revision, which no command of this stage changes
  None          \* SQL NULL

ASSUME CandidateAssumption == Candidate \in Revisions /\ None \notin Revisions

(* Of the keys that are ever sent there are finitely many *)
ASSUME KeysAssumption == IsFiniteSet(ProposalKeys)

VARIABLES
  state,        \* workflow.state
  approval,     \* the decision of the consumed MERGE Approval for the candidate
  merged,       \* workflow.merged_revision, as the number of the pull request whose merge commit it is
  proposal,     \* pull_request_proposals by idempotency key
  assessment,   \* merge_readiness_assessments by idempotency key
  confirmation, \* merge_confirmations by idempotency key
  call,         \* what each request holds in memory
  branch,       \* GitHub: the commit the head branch points to
  pulls         \* GitHub: the pull requests of the head branch by number

records == <<proposal, assessment, confirmation>>
github == <<branch, pulls>>
vars == <<state, approval, merged, proposal, assessment, confirmation, call, branch, pulls>>
-----------------------------------------------------------------------------
Numbers == 1 .. Cardinality(ProposalKeys)

Proposal ==
  [status : {"RUNNING", "UNKNOWN", "SUCCEEDED", "FAILED"}, pull_number : Numbers \cup {0}]

Assessment ==
  [status : {"RUNNING", "SUCCEEDED", "FAILED"}, proposal : ProposalKeys, ready : BOOLEAN]

Confirmation ==
  [status : {"RUNNING", "SUCCEEDED", "FAILED"}, proposal : ProposalKeys, assessment : AssessmentKeys]

(* NULL is no row of these tables *)
ASSUME NoneAssumption ==
  /\ None \notin [status : {"RUNNING", "UNKNOWN", "SUCCEEDED", "FAILED"}, pull_number : Nat]
  /\ None \notin Assessment /\ None \notin Confirmation

Pull == [state : {"open", "closed", "merged"}, head : Revisions]

Call ==
  [pc     : {"idle", "creating", "posting", "create_failed", "created", "finding",
             "none_found", "assess_pull", "assess_checks", "assessed", "confirming", "confirmed",
             "confirm_failed"},
   key    : ProposalKeys \cup AssessmentKeys \cup ConfirmationKeys \cup {None},  \* its record
   number : Numbers \cup {0},
   good   : BOOLEAN]                      \* no reason against the merge so far

NoCall == [pc |-> "idle", key |-> None, number |-> 0, good |-> FALSE]

Goto(c, pc) == call' = [call EXCEPT ![c].pc = pc]

Return(c) == call' = [call EXCEPT ![c] = NoCall]

Status(record) == IF record = None THEN "NULL" ELSE record.status

OpenPulls == {n \in DOMAIN pulls : pulls[n].state = "open"}

Init ==
  /\ state = "AWAITING_HUMAN_APPROVAL" /\ approval = "NULL" /\ merged = 0
  /\ proposal = [k \in ProposalKeys |-> None] /\ assessment = [k \in AssessmentKeys |-> None]
  /\ confirmation = [k \in ConfirmationKeys |-> None]
  /\ call = [c \in Calls |-> NoCall]
  /\ branch \in Revisions /\ pulls = <<>>
-----------------------------------------------------------------------------
(* propose_pull_request: the intent, for a key that has no record yet.  With  *)
(* one the call returns the SUCCEEDED proposal or raises.                     *)
ProposePullRequest(c, k) ==
  /\ call[c].pc = "idle"
  /\ state = "AWAITING_HUMAN_APPROVAL"
  /\ proposal[k] = None
  /\ proposal' = [proposal EXCEPT ![k] = [status |-> "RUNNING", pull_number |-> 0]]
  /\ call' = [call EXCEPT ![c] = [NoCall EXCEPT !.pc = "creating", !.key = k]]
  /\ UNCHANGED <<state, approval, merged, assessment, confirmation, github>>

(* create_draft_pull_request: the branch head is compared with the candidate. *)
(* The request for the token or for the head may also fail.                   *)
ReadBranchHead(c) ==
  /\ call[c].pc = "creating"
  /\ \/ branch = Candidate /\ Goto(c, "posting")
     \/ Goto(c, "create_failed")
  /\ UNCHANGED <<state, approval, merged, records, github>>

(* create_draft_pull_request: GitHub opens the pull request with the head the *)
(* branch has by now, unless one is open.  The answer may be lost; an answer  *)
(* with another head raises.                                                  *)
PostPullRequest(c, answered) ==
  LET number == Len(pulls) + 1
  IN /\ call[c].pc = "posting"
     /\ \/ /\ OpenPulls = {}
           /\ pulls' = Append(pulls, [state |-> "open", head |-> branch])
           /\ call' = [call EXCEPT ![c].pc = IF answered /\ branch = Candidate THEN "created" ELSE "create_failed",
                                   ![c].number = IF answered /\ branch = Candidate THEN number ELSE 0]
        \/ /\ OpenPulls # {} \/ ~answered
           /\ Goto(c, "create_failed")
           /\ UNCHANGED pulls
     /\ UNCHANGED <<state, approval, merged, records, branch>>

(* _mark_pull_request_unknown *)
MarkPullRequestUnknown(c) ==
  /\ call[c].pc = "create_failed"
  /\ proposal' = IF proposal[call[c].key].status = "RUNNING"
                 THEN [proposal EXCEPT ![call[c].key].status = "UNKNOWN"] ELSE proposal
  /\ Return(c)
  /\ UNCHANGED <<state, approval, merged, assessment, confirmation, github>>

(* _complete_pull_request: whatever the status of the record.  Its STALE      *)
(* branch needs a candidate that changes after IMPLEMENT, which none does.    *)
CompletePullRequest(c) ==
  /\ call[c].pc = "created"
  /\ proposal' = [proposal EXCEPT ![call[c].key] =
                    [status |-> "SUCCEEDED", pull_number |-> call[c].number]]
  /\ Return(c)
  /\ UNCHANGED <<state, approval, merged, assessment, confirmation, github>>

(* reconcile_pull_request: the reading transaction *)
ReconcilePullRequest(c, k) ==
  /\ call[c].pc = "idle"
  /\ Status(proposal[k]) \in {"RUNNING", "UNKNOWN", "FAILED"}
  /\ call' = [call EXCEPT ![c] = [NoCall EXCEPT !.pc = "finding", !.key = k]]
  /\ UNCHANGED <<state, approval, merged, records, github>>

(* find_pull_requests, in any state; more than one exact match raises *)
FindPullRequests(c) ==
  LET matches == {n \in DOMAIN pulls : pulls[n].head = Candidate}
  IN /\ call[c].pc = "finding"
     /\ \/ matches = {} /\ Goto(c, "none_found")
        \/ \E n \in matches : /\ matches = {n}
                              /\ call' = [call EXCEPT ![c].pc = "created", ![c].number = n]
        \/ Cardinality(matches) > 1 /\ Return(c)
     /\ UNCHANGED <<state, approval, merged, records, github>>

(* reconcile_pull_request: no match is recorded, whatever has become of the   *)
(* record since it was read                                                   *)
RecordNotFound(c) ==
  /\ call[c].pc = "none_found"
  /\ proposal' = [proposal EXCEPT ![call[c].key].status = "FAILED"]
  /\ Return(c)
  /\ UNCHANGED <<state, approval, merged, assessment, confirmation, github>>
-----------------------------------------------------------------------------
(* assess_merge_readiness: the intent, in any state of the workflow *)
AssessMergeReadiness(c, k, a) ==
  /\ call[c].pc = "idle"
  /\ Status(proposal[k]) = "SUCCEEDED"
  /\ assessment[a] = None
  /\ assessment' = [assessment EXCEPT ![a] = [status |-> "RUNNING", proposal |-> k, ready |-> FALSE]]
  /\ call' = [call EXCEPT ![c] = [NoCall EXCEPT !.pc = "assess_pull", !.key = a,
                                                !.number = proposal[k].pull_number]]
  /\ UNCHANGED <<state, approval, merged, proposal, confirmation, github>>

(* assess_merge_readiness of the client: what it finds against the pull       *)
(* request.  That it is a draft, or cannot be merged, is one of the reasons   *)
(* the next step is free to find.                                             *)
AssessPull(c) ==
  LET pull == pulls[call[c].number]
  IN /\ call[c].pc = "assess_pull"
     /\ call' = [call EXCEPT ![c].pc = "assess_checks",
                             ![c].good = pull.head = Candidate /\ pull.state = "open"]
     /\ UNCHANGED <<state, approval, merged, records, github>>

(* _assess_protection and _assess_checks: whatever GitHub answers, they can   *)
(* only add reasons (protection that cannot be read is one, and so are a      *)
(* required check that is missing or not green, and a draft)                  *)
AssessChecks(c) ==
  /\ call[c].pc = "assess_checks"
  /\ \E verified \in BOOLEAN :
       call' = [call EXCEPT ![c].pc = "assessed", ![c].good = @ /\ verified]
  /\ UNCHANGED <<state, approval, merged, records, github>>

(* Mutant: the outcome is recorded like that of a failed proposal *)
MarkReadinessUnknown(c) ==
  /\ call[c].pc \in {"assess_pull", "assess_checks"}
  /\ assessment' = [assessment EXCEPT ![call[c].key].status = "UNKNOWN"]
  /\ Return(c)
  /\ UNCHANGED <<state, approval, merged, proposal, confirmation, github>>

(* A GitHub request of the assessment fails: _mark_readiness_failed *)
MarkReadinessFailed(c) ==
  /\ call[c].pc \in {"assess_pull", "assess_checks"}
  /\ assessment' = IF assessment[call[c].key].status = "RUNNING"
                   THEN [assessment EXCEPT ![call[c].key].status = "FAILED"] ELSE assessment
  /\ Return(c)
  /\ UNCHANGED <<state, approval, merged, proposal, confirmation, github>>

(* _record_merge_readiness *)
RecordMergeReadiness(c) ==
  /\ call[c].pc = "assessed"
  /\ assessment' = [assessment EXCEPT ![call[c].key].status = "SUCCEEDED", ![call[c].key].ready = call[c].good]
  /\ Return(c)
  /\ UNCHANGED <<state, approval, merged, proposal, confirmation, github>>
-----------------------------------------------------------------------------
(* confirm_pull_request_merged: the intent, from an approved workflow with a  *)
(* confirmed proposal and a ready assessment of it                            *)
ConfirmPullRequestMerged(c, k, a, f) ==
  /\ call[c].pc = "idle"
  /\ state = "APPROVED"
  /\ Status(proposal[k]) = "SUCCEEDED"
  /\ Status(assessment[a]) = "SUCCEEDED" /\ assessment[a].proposal = k /\ assessment[a].ready
  /\ approval = "APPROVED"
  /\ confirmation[f] = None
  /\ confirmation' = [confirmation EXCEPT ![f] = [status |-> "RUNNING", proposal |-> k, assessment |-> a]]
  /\ call' = [call EXCEPT ![c] = [NoCall EXCEPT !.pc = "confirming", !.key = f,
                                                !.number = proposal[k].pull_number]]
  /\ UNCHANGED <<state, approval, merged, proposal, assessment, github>>

(* Mutant: the head that was merged is not compared with the candidate *)
ReadMergeAnyHead(c) ==
  /\ call[c].pc = "confirming"
  /\ Goto(c, IF pulls[call[c].number].state = "merged" THEN "confirmed" ELSE "confirm_failed")
  /\ UNCHANGED <<state, approval, merged, records, github>>

(* confirm_pull_request_merged of the client: closed, merged, with the expected head *)
ReadMerge(c) ==
  /\ call[c].pc = "confirming"
  /\ \/ /\ pulls[call[c].number].state = "merged" /\ pulls[call[c].number].head = Candidate
        /\ Goto(c, "confirmed")
     \/ Goto(c, "confirm_failed")
  /\ UNCHANGED <<state, approval, merged, records, github>>

(* Mutant: the pull request is not compared with the one the proposal is bound to by now *)
CompleteMergeUnbound(c) ==
  /\ call[c].pc = "confirmed"
  /\ confirmation[call[c].key].status = "RUNNING" /\ state = "APPROVED"
  /\ confirmation' = [confirmation EXCEPT ![call[c].key].status = "SUCCEEDED"]
  /\ merged' = call[c].number
  /\ state' = "MERGED"
  /\ Return(c)
  /\ UNCHANGED <<approval, proposal, assessment, github>>

(* Mutant: the state of the workflow is not checked again *)
CompleteMergeUnchecked(c) ==
  /\ call[c].pc = "confirmed"
  /\ confirmation' = [confirmation EXCEPT ![call[c].key].status = "SUCCEEDED"]
  /\ merged' = call[c].number
  /\ state' = "MERGED"
  /\ Return(c)
  /\ UNCHANGED <<approval, proposal, assessment, github>>

(* _complete_merge_confirmation, or the exception that _mark_merge_...failed  *)
(* then records: the workflow must still be approved and the proposal still   *)
(* be bound to the pull request that was read                                 *)
CompleteMergeConfirmation(c) ==
  LET record == confirmation[call[c].key]
      matches == /\ record.status = "RUNNING"
                 /\ state = "APPROVED"
                 /\ proposal[record.proposal].pull_number = call[c].number
  IN /\ call[c].pc = "confirmed"
     /\ \/ /\ matches
           /\ TransitionAllowed(state, "MERGED")
           /\ confirmation' = [confirmation EXCEPT ![call[c].key].status = "SUCCEEDED"]
           /\ merged' = call[c].number
           /\ state' = "MERGED"
           /\ Return(c)
        \/ /\ ~matches
           /\ Goto(c, "confirm_failed")
           /\ UNCHANGED <<confirmation, merged, state>>
     /\ UNCHANGED <<approval, proposal, assessment, github>>

(* _mark_merge_confirmation_failed *)
MarkMergeConfirmationFailed(c) ==
  /\ call[c].pc = "confirm_failed"
  /\ confirmation' = IF confirmation[call[c].key].status = "RUNNING"
                     THEN [confirmation EXCEPT ![call[c].key].status = "FAILED"] ELSE confirmation
  /\ Return(c)
  /\ UNCHANGED <<state, approval, merged, proposal, assessment, github>>
-----------------------------------------------------------------------------
(* approve with action MERGE, and cancel_workflow, of workflow_tasks.py *)
ApproveMerge(decision) ==
  /\ state = "AWAITING_HUMAN_APPROVAL"
  /\ approval' = decision
  /\ state' = IF decision = "APPROVED" THEN "APPROVED" ELSE "REJECTED"
  /\ UNCHANGED <<merged, records, call, github>>

CancelWorkflow ==
  /\ TransitionAllowed(state, "CANCELLED")
  /\ state' = "CANCELLED"
  /\ UNCHANGED <<approval, merged, records, call, github>>

(* The process that serves a request dies *)
Crash(c) ==
  /\ call[c].pc # "idle"
  /\ Return(c)
  /\ UNCHANGED <<state, approval, merged, records, github>>

(* GitHub on its own: a push to the head branch, a pull request merged or    *)
(* closed by a human, or reopened, with the head the branch has by now, while *)
(* no other is open                                                           *)
Push(revision) ==
  /\ revision # branch
  /\ branch' = revision
  /\ pulls' = [n \in DOMAIN pulls |-> IF n \in OpenPulls THEN [pulls[n] EXCEPT !.head = revision] ELSE pulls[n]]
  /\ UNCHANGED <<state, approval, merged, records, call>>

PullChanges(n) ==
  /\ \/ pulls[n].state = "open" /\ pulls' = [pulls EXCEPT ![n].state = "merged"]
     \/ pulls[n].state = "open" /\ pulls' = [pulls EXCEPT ![n].state = "closed"]
     \/ /\ pulls[n].state = "closed" /\ OpenPulls = {}
        /\ pulls' = [pulls EXCEPT ![n].state = "open", ![n].head = branch]
  /\ UNCHANGED <<state, approval, merged, records, call, branch>>
-----------------------------------------------------------------------------
CallStep(c) ==
  \/ \E k \in ProposalKeys : ProposePullRequest(c, k) \/ ReconcilePullRequest(c, k)
  \/ ReadBranchHead(c)
  \/ \E answered \in BOOLEAN : PostPullRequest(c, answered)
  \/ MarkPullRequestUnknown(c) \/ CompletePullRequest(c)
  \/ FindPullRequests(c) \/ RecordNotFound(c)
  \/ \E k \in ProposalKeys, a \in AssessmentKeys : AssessMergeReadiness(c, k, a)
  \/ AssessPull(c) \/ AssessChecks(c) \/ MarkReadinessFailed(c) \/ RecordMergeReadiness(c)
  \/ \E k \in ProposalKeys, a \in AssessmentKeys, f \in ConfirmationKeys :
       ConfirmPullRequestMerged(c, k, a, f)
  \/ ReadMerge(c) \/ CompleteMergeConfirmation(c) \/ MarkMergeConfirmationFailed(c)
  \/ Crash(c)

Next ==
  \/ \E c \in Calls : CallStep(c)
  \/ \E decision \in {"APPROVED", "REJECTED"} : ApproveMerge(decision)
  \/ CancelWorkflow
  \/ \E revision \in Revisions : Push(revision)
  \/ \E n \in DOMAIN pulls : PullChanges(n)

Spec == Init /\ [][Next]_vars
-----------------------------------------------------------------------------
(* Type correctness: every record keeps to the statuses of its own table, and *)
(* the workflow to the states of this stage                                   *)
TypeOK ==
  /\ state \in {"AWAITING_HUMAN_APPROVAL", "APPROVED", "REJECTED", "CANCELLED", "MERGED"}
  /\ approval \in {"NULL", "APPROVED", "REJECTED"}
  /\ merged \in Numbers \cup {0}
  /\ proposal \in [ProposalKeys -> Proposal \cup {None}]
  /\ assessment \in [AssessmentKeys -> Assessment \cup {None}]
  /\ confirmation \in [ConfirmationKeys -> Confirmation \cup {None}]
  /\ call \in [Calls -> Call]
  /\ branch \in Revisions /\ pulls \in Seq(Pull)

(* The merge invariant of docs/identity-and-merge-confirmation.md, across     *)
(* every race with pushes, merges and other commands: a workflow is MERGED    *)
(* only with a human approval of the candidate, a ready assessment of the     *)
(* proposal that was confirmed, and, as merged_revision, the merge of a pull  *)
(* request whose head was the candidate.  What they share is the revision.    *)
MergeInvariant ==
  state = "MERGED" =>
    /\ approval = "APPROVED"
    /\ merged \in DOMAIN pulls /\ pulls[merged].state = "merged" /\ pulls[merged].head = Candidate
    /\ \E f \in ConfirmationKeys : /\ Status(confirmation[f]) = "SUCCEEDED"
                       /\ assessment[confirmation[f].assessment].ready
                       /\ assessment[confirmation[f].assessment].proposal = confirmation[f].proposal

(* The step that makes a workflow MERGED (_complete_merge_confirmation) ends  *)
(* one pending confirmation, of a proposal that is bound at this step to the  *)
(* very pull request whose merge becomes merged_revision and with a ready     *)
(* assessment of the same proposal, although the proposal may be bound anew   *)
(* while GitHub is read.                                                      *)
MergesBoundPull ==
  [][state # "MERGED" /\ state' = "MERGED" =>
       \E f \in ConfirmationKeys :
         /\ Status(confirmation[f]) = "RUNNING" /\ Status(confirmation'[f]) = "SUCCEEDED"
         /\ proposal[confirmation[f].proposal].pull_number = merged'
         /\ assessment[confirmation[f].assessment].ready
         /\ assessment[confirmation[f].assessment].proposal = confirmation[f].proposal]_vars

(* A merge is confirmed once: of all confirmations in flight for one approved *)
(* workflow at most one succeeds, and one has exactly when it is MERGED.      *)
OneMergeConfirmed ==
  LET confirmed == {f \in ConfirmationKeys : Status(confirmation[f]) = "SUCCEEDED"}
  IN /\ Cardinality(confirmed) <= 1
     /\ state = "MERGED" <=> confirmed # {}

(* What docs/github-ci-integration.md says of reconciliation: it "either      *)
(* binds the exact remote PR or records that none exists", so a proposal that *)
(* is recorded FAILED has no pull request bound to it.                        *)
NotFoundMeansUnbound ==
  \A k \in ProposalKeys : Status(proposal[k]) = "FAILED" => proposal[k].pull_number = 0

(* What docs/identity-and-merge-confirmation.md calls "a durable, confirmed   *)
(* pull-request proposal": the one that was confirmed still names the pull    *)
(* request whose merge was recorded, which reconciliation may have bound to   *)
(* it as "the exact remote PR" (docs/github-ci-integration.md).               *)
ConfirmedProposalDurable ==
  \A f \in ConfirmationKeys : Status(confirmation[f]) = "SUCCEEDED" =>
    proposal[confirmation[f].proposal].pull_number = merged

(* Requests and the keys of one command are interchangeable *)
CommandSymmetry ==
  Permutations(Calls) \cup Permutations(ProposalKeys) \cup Permutations(AssessmentKeys)
    \cup Permutations(ConfirmationKeys)
=============================================================================
