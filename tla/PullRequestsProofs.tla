-------------------------- MODULE PullRequestsProofs --------------------------
(***************************************************************************)
(* Proofs about PullRequests, for any number of requests, keys and         *)
(* revisions.                                                              *)
(*                                                                         *)
(* The merge invariant rests on an approval, an assessment, a proposal and *)
(* a merge, each read in another transaction than the one that uses it and *)
(* bound to the others at the step that confirms (MergeBindsPull).  The    *)
(* inductive invariant says why none of them is stale by then: a record    *)
(* that a request is still to write is RUNNING and no other request's      *)
(* (Assessing, Confirming), a completed assessment is never written again, *)
(* and GitHub does not undo a merge (Merged).                              *)
(***************************************************************************)
EXTENDS PullRequests, FiniteSetTheorems, TLAPS

(* What the proofs use of the types; numbers of pull requests are not bounded *)
CallLike ==
  [pc     : {"idle", "creating", "posting", "create_failed", "created", "finding",
             "none_found", "assess_pull", "assess_checks", "assessed", "confirming", "confirmed",
             "confirm_failed"},
   key    : ProposalKeys \cup AssessmentKeys \cup ConfirmationKeys \cup {None},
   number : Nat,
   good   : BOOLEAN]

ProposalLike == [status : {"RUNNING", "UNKNOWN", "SUCCEEDED", "FAILED"}, pull_number : Nat]

Typed ==
  /\ state \in {"AWAITING_HUMAN_APPROVAL", "APPROVED", "REJECTED", "CANCELLED", "MERGED"}
  /\ proposal \in [ProposalKeys -> ProposalLike \cup {None}]
  /\ assessment \in [AssessmentKeys -> Assessment \cup {None}]
  /\ confirmation \in [ConfirmationKeys -> Confirmation \cup {None}]
  /\ call \in [Calls -> CallLike]
  /\ branch \in Revisions /\ pulls \in Seq(Pull)

(* The number a request or a completed proposal holds is one that GitHub gave *)
Numbered ==
  /\ \A c \in Calls : call[c].pc \in {"created", "assess_pull", "confirming", "confirmed"} =>
       call[c].number \in DOMAIN pulls
  /\ \A k \in ProposalKeys : Status(proposal[k]) = "SUCCEEDED" => proposal[k].pull_number \in DOMAIN pulls

(* The record of a proposal exists while a request works on it *)
Proposing ==
  \A c \in Calls : call[c].pc \in {"creating", "posting", "create_failed", "created", "finding", "none_found"} =>
    call[c].key \in ProposalKeys /\ proposal[call[c].key] # None

(* A running assessment is the business of one request *)
Assesses(c) == call[c].pc \in {"assess_pull", "assess_checks", "assessed"}

Assessing ==
  /\ \A c \in Calls : Assesses(c) => call[c].key \in AssessmentKeys /\ Status(assessment[call[c].key]) = "RUNNING"
  /\ \A c, d \in Calls : Assesses(c) /\ Assesses(d) /\ call[c].key = call[d].key => c = d

(* What a confirmation rests on is complete *)
Confirming ==
  /\ \A c \in Calls : call[c].pc \in {"confirming", "confirmed", "confirm_failed"} =>
       call[c].key \in ConfirmationKeys /\ confirmation[call[c].key] # None
  /\ \A f \in ConfirmationKeys : confirmation[f] # None =>
       /\ Status(assessment[confirmation[f].assessment]) = "SUCCEEDED"
       /\ assessment[confirmation[f].assessment].ready
       /\ assessment[confirmation[f].assessment].proposal = confirmation[f].proposal

IsMerge(n) == n \in DOMAIN pulls /\ pulls[n].state = "merged" /\ pulls[n].head = Candidate

(* What makes a workflow MERGED *)
Merged ==
  /\ state \in {"APPROVED", "MERGED"} => approval = "APPROVED"
  /\ \A c \in Calls : call[c].pc = "confirmed" => IsMerge(call[c].number)
  /\ state = "MERGED" => IsMerge(merged) /\ \E f \in ConfirmationKeys : Status(confirmation[f]) = "SUCCEEDED"
  /\ \A f \in ConfirmationKeys : Status(confirmation[f]) = "SUCCEEDED" => state = "MERGED"
  /\ \A f, g \in ConfirmationKeys :
       Status(confirmation[f]) = "SUCCEEDED" /\ Status(confirmation[g]) = "SUCCEEDED" => f = g

IInv == Typed /\ Numbered /\ Proposing /\ Assessing /\ Confirming /\ Merged
-----------------------------------------------------------------------------
(* The moves between the states of this stage that the allowlist permits *)
LEMMA Moves ==
  /\ TransitionAllowed("APPROVED", "MERGED")
  /\ ~TransitionAllowed("MERGED", "CANCELLED")
BY DEF TransitionAllowed, ALLOWED_TRANSITIONS, WorkflowState

(* A set whose elements are all equal has at most one *)
LEMMA AtMostOne ==
  ASSUME NEW S, \A a, b \in S : a = b
  PROVE  Cardinality(S) <= 1
<1>1. CASE S = {}
  BY <1>1, FS_EmptySet
<1>2. CASE S # {}
  <2>1. PICK a : S = {a}
    BY <1>2
  <2> QED
    BY <2>1, FS_Singleton
<1> QED
  BY <1>1, <1>2

LEMMA NoCallTyped == NoCall \in CallLike
BY DEF NoCall, CallLike

(* Writing single fields of what a request holds *)
LEMMA CallFields ==
  ASSUME NEW x \in CallLike
  PROVE  /\ \A pc \in {"idle", "creating", "posting", "create_failed", "created", "finding", "none_found",
                       "assess_pull", "assess_checks", "assessed", "confirming", "confirmed", "confirm_failed"} :
              [x EXCEPT !.pc = pc] \in CallLike
         /\ \A key \in ProposalKeys \cup AssessmentKeys \cup ConfirmationKeys : [x EXCEPT !.key = key] \in CallLike
         /\ \A number \in Nat : [x EXCEPT !.number = number] \in CallLike
         /\ \A good \in BOOLEAN : [x EXCEPT !.good = good] \in CallLike
BY DEF CallLike

(* A request goes on: what it may hold, given what it held and the records *)
Holds(c, x) ==
  /\ x.pc \in {"created", "assess_pull", "confirming", "confirmed"} => x.number \in DOMAIN pulls
  /\ x.pc \in {"creating", "posting", "create_failed", "created", "finding", "none_found"} =>
       x.key \in ProposalKeys /\ proposal[x.key] # None
  /\ x.pc \in {"assess_pull", "assess_checks", "assessed"} => Assesses(c) /\ x.key = call[c].key
  /\ x.pc \in {"confirming", "confirmed", "confirm_failed"} =>
       x.key \in ConfirmationKeys /\ confirmation[x.key] # None
  /\ x.pc = "confirmed" => IsMerge(x.number)

LEMMA CallGoesOn ==
  ASSUME IInv, NEW c \in Calls, NEW x \in CallLike, Holds(c, x), call' = [call EXCEPT ![c] = x],
         UNCHANGED <<state, approval, merged, records, github>>
  PROVE  IInv'
<1> USE DEF IInv, records, github
<1>1. /\ call' \in [Calls -> CallLike] /\ call'[c] = x
      /\ \A d \in Calls : d # c => call'[d] = call[d]
  BY DEF Typed
<1>2. Typed'
  BY <1>1 DEF Typed
<1>3. Numbered' /\ Proposing'
  BY <1>1 DEF Numbered, Proposing, Holds, Status
<1>4. Assessing'
  BY <1>1 DEF Assessing, Assesses, Holds, Status
<1>5. Confirming'
  BY <1>1 DEF Confirming, Holds, Status
<1>6. Merged'
  BY <1>1 DEF Merged, IsMerge, Holds, Status
<1> QED
  BY <1>2, <1>3, <1>4, <1>5, <1>6

(* A step that only moves the program counter *)
LEMMA GotoGoesOn ==
  ASSUME IInv, NEW c \in Calls, NEW pc, Goto(c, pc),
         pc \in {"posting", "create_failed", "none_found", "confirmed", "confirm_failed"},
         Holds(c, [call[c] EXCEPT !.pc = pc]),
         UNCHANGED <<state, approval, merged, records, github>>
  PROVE  IInv'
<1>1. call[c] \in CallLike
  BY DEF IInv, Typed
<1>2. [call[c] EXCEPT !.pc = pc] \in CallLike
  BY <1>1, CallFields
<1>3. call' = [call EXCEPT ![c] = [call[c] EXCEPT !.pc = pc]]
  BY DEF Goto
<1> QED
  BY <1>2, <1>3, CallGoesOn

(* A request that ends without a trace *)
LEMMA ReturnGoesOn ==
  ASSUME IInv, NEW c \in Calls, Return(c), UNCHANGED <<state, approval, merged, records, github>>
  PROVE  IInv'
<1>1. Holds(c, NoCall)
  BY DEF Holds, NoCall
<1> QED
  BY <1>1, NoCallTyped, CallGoesOn DEF Return
-----------------------------------------------------------------------------
LEMMA InitIInv == Init => IInv
<1> SUFFICES ASSUME Init PROVE IInv
  OBVIOUS
<1>1. Typed
  <2>1. pulls \in Seq(Pull)
    BY DEF Init
  <2>2. call \in [Calls -> CallLike]
    BY NoCallTyped DEF Init
  <2> QED
    BY <2>1, <2>2 DEF Init, Typed
<1>2. Numbered /\ Proposing /\ Assessing /\ Confirming /\ Merged
  BY DEF Init, Numbered, Proposing, Assessing, Assesses, Confirming, Merged, Status, NoCall
<1> QED
  BY <1>1, <1>2 DEF IInv

LEMMA ReadBranchHeadIInv ==
  ASSUME IInv, NEW c \in Calls, ReadBranchHead(c)
  PROVE  IInv'
<1>1. call[c] \in CallLike
  BY DEF IInv, Typed
<1>2. \A pc \in {"posting", "create_failed"} : Holds(c, [call[c] EXCEPT !.pc = pc])
  <2> SUFFICES ASSUME NEW pc \in {"posting", "create_failed"} PROVE Holds(c, [call[c] EXCEPT !.pc = pc])
    OBVIOUS
  <2>1. [call[c] EXCEPT !.pc = pc].pc = pc /\ [call[c] EXCEPT !.pc = pc].key = call[c].key
    BY <1>1 DEF CallLike
  <2> QED
    BY <2>1 DEF IInv, Proposing, Holds, ReadBranchHead
<1> QED
  BY <1>2, GotoGoesOn DEF ReadBranchHead

LEMMA ReadMergeIInv ==
  ASSUME IInv, NEW c \in Calls, ReadMerge(c)
  PROVE  IInv'
<1>1. call[c] \in CallLike /\ call[c].number \in DOMAIN pulls
  BY DEF IInv, Typed, Numbered, ReadMerge
<1>2. call[c].key \in ConfirmationKeys /\ confirmation[call[c].key] # None
  BY DEF IInv, Confirming, ReadMerge
<1>3. Holds(c, [call[c] EXCEPT !.pc = "confirm_failed"])
  BY <1>1, <1>2 DEF Holds, CallLike
<1>4. IsMerge(call[c].number) => Holds(c, [call[c] EXCEPT !.pc = "confirmed"])
  BY <1>1, <1>2 DEF Holds, CallLike
<1> QED
  BY <1>1, <1>3, <1>4, GotoGoesOn DEF ReadMerge, IsMerge

LEMMA FindIInv ==
  ASSUME IInv, NEW c \in Calls, FindPullRequests(c)
  PROVE  IInv'
<1>1. call[c] \in CallLike /\ call[c].key \in ProposalKeys /\ proposal[call[c].key] # None
  BY DEF IInv, Typed, Proposing, FindPullRequests
<1>2. CASE Goto(c, "none_found")
  <2>1. Holds(c, [call[c] EXCEPT !.pc = "none_found"])
    BY <1>1 DEF Holds, CallLike
  <2> QED
    BY <1>2, <2>1, GotoGoesOn DEF FindPullRequests
<1>3. ASSUME NEW n \in DOMAIN pulls, call' = [call EXCEPT ![c].pc = "created", ![c].number = n] PROVE IInv'
  <2>1. n \in Nat
    <3>1. pulls \in Seq(Pull)
      BY DEF IInv, Typed
    <3> QED
      BY <3>1
  <2>2. [call[c] EXCEPT !.pc = "created"] \in CallLike
    BY <1>1, CallFields
  <2> DEFINE x == [[call[c] EXCEPT !.pc = "created"] EXCEPT !.number = n]
  <2>3. x \in CallLike
    BY <2>1, <2>2, CallFields
  <2>4. x.pc = "created" /\ x.number = n /\ x.key = call[c].key
    BY <1>1 DEF CallLike
  <2>5. call' = [call EXCEPT ![c] = x]
    BY <1>3
  <2> HIDE DEF x
  <2>6. Holds(c, x)
    BY <1>1, <2>4 DEF Holds
  <2> QED
    BY <2>3, <2>5, <2>6, CallGoesOn DEF FindPullRequests
<1>4. CASE Return(c)
  BY <1>4, ReturnGoesOn DEF FindPullRequests
<1> QED
  BY <1>2, <1>3, <1>4 DEF FindPullRequests

(* reconcile_pull_request reads an existing record *)
LEMMA ReconcileIInv ==
  ASSUME IInv, NEW c \in Calls, NEW k \in ProposalKeys, ReconcilePullRequest(c, k)
  PROVE  IInv'
<1> DEFINE x == [[NoCall EXCEPT !.pc = "finding"] EXCEPT !.key = k]
<1>1. [NoCall EXCEPT !.pc = "finding"] \in CallLike
  BY NoCallTyped, CallFields
<1>2. x \in CallLike
  BY <1>1, CallFields
<1>3. x.pc = "finding" /\ x.key = k
  BY DEF NoCall
<1>4. proposal[k] # None
  BY DEF ReconcilePullRequest, Status
<1>5. call' = [call EXCEPT ![c] = x]
  BY DEF ReconcilePullRequest
<1> HIDE DEF x
<1>6. Holds(c, x)
  BY <1>3, <1>4 DEF Holds
<1> QED
  BY <1>2, <1>5, <1>6, CallGoesOn DEF ReconcilePullRequest

(* The two steps of the client's assessment that write nothing *)
LEMMA AssessIInv ==
  ASSUME IInv, NEW c \in Calls, AssessPull(c) \/ AssessChecks(c)
  PROVE  IInv'
<1>1. call[c] \in CallLike /\ Assesses(c)
  BY DEF IInv, Typed, Assesses, AssessPull, AssessChecks
<1>2. PICK pc \in {"assess_checks", "assessed"}, good \in BOOLEAN :
        call' = [call EXCEPT ![c].pc = pc, ![c].good = good]
  <2>1. CASE AssessPull(c)
    BY <2>1 DEF AssessPull
  <2>2. CASE AssessChecks(c)
    <3>1. PICK verified \in BOOLEAN : call' = [call EXCEPT ![c].pc = "assessed", ![c].good = @ /\ verified]
      BY <2>2 DEF AssessChecks
    <3>2. (call[c].good /\ verified) \in BOOLEAN
      OBVIOUS
    <3> QED
      BY <3>1, <3>2
  <2> QED
    BY <2>1, <2>2
<1> DEFINE x == [[call[c] EXCEPT !.pc = pc] EXCEPT !.good = good]
<1>3. [call[c] EXCEPT !.pc = pc] \in CallLike
  BY <1>1, CallFields
<1>4. x \in CallLike
  BY <1>3, CallFields
<1>5. x.pc = pc /\ x.key = call[c].key
  BY <1>1 DEF CallLike
<1>6. call' = [call EXCEPT ![c] = x]
  BY <1>2
<1> HIDE DEF x
<1>7. Holds(c, x)
  BY <1>1, <1>5 DEF Holds
<1> QED
  BY <1>4, <1>6, <1>7, CallGoesOn DEF AssessPull, AssessChecks
-----------------------------------------------------------------------------
(* A step that writes the record of a proposal *)
LEMMA ProposalWritten ==
  ASSUME IInv, NEW c \in Calls, NEW x \in CallLike, NEW k \in ProposalKeys, NEW row \in ProposalLike,
         row.status = "SUCCEEDED" => row.pull_number \in DOMAIN pulls,
         proposal' = [proposal EXCEPT ![k] = row],
         x.pc = "idle" \/ (x.pc = "creating" /\ x.key = k),
         call' = [call EXCEPT ![c] = x],
         UNCHANGED <<state, approval, merged, assessment, confirmation, github>>
  PROVE  IInv'
<1> USE DEF IInv, github
<1>1. /\ call' \in [Calls -> CallLike] /\ call'[c] = x
      /\ \A d \in Calls : d # c => call'[d] = call[d]
  BY DEF Typed
<1>2. row # None
  BY NoneAssumption DEF ProposalLike
<1>3. /\ proposal' \in [ProposalKeys -> ProposalLike \cup {None}] /\ proposal'[k] = row
      /\ \A j \in ProposalKeys : j # k => proposal'[j] = proposal[j]
  BY DEF Typed
<1>4. Typed'
  BY <1>1, <1>3 DEF Typed
<1>5. Numbered' /\ Proposing'
  BY <1>1, <1>2, <1>3 DEF Numbered, Proposing, Status
<1>6. Assessing' /\ Confirming'
  BY <1>1 DEF Assessing, Assesses, Confirming, Status
<1>7. Merged'
  BY <1>1 DEF Merged, IsMerge, Status
<1> QED
  BY <1>4, <1>5, <1>6, <1>7

(* propose_pull_request *)
LEMMA ProposeIInv ==
  ASSUME IInv, NEW c \in Calls, NEW k \in ProposalKeys, ProposePullRequest(c, k)
  PROVE  IInv'
<1> DEFINE x == [[NoCall EXCEPT !.pc = "creating"] EXCEPT !.key = k]
           row == [status |-> "RUNNING", pull_number |-> 0]
<1>1. [NoCall EXCEPT !.pc = "creating"] \in CallLike
  BY NoCallTyped, CallFields
<1>2. x \in CallLike
  BY <1>1, CallFields
<1>3. x.pc = "creating" /\ x.key = k
  BY DEF NoCall
<1>4. row \in ProposalLike /\ row.status # "SUCCEEDED"
  BY DEF ProposalLike
<1>5. call' = [call EXCEPT ![c] = x] /\ proposal' = [proposal EXCEPT ![k] = row]
  BY DEF ProposePullRequest
<1>6. UNCHANGED <<state, approval, merged, assessment, confirmation, github>>
  BY DEF ProposePullRequest
<1> HIDE DEF x, row
<1> QED
  BY <1>2, <1>3, <1>4, <1>5, <1>6, ProposalWritten

(* The three ends of a request about a proposal *)
LEMMA ProposalEndsIInv ==
  ASSUME IInv, NEW c \in Calls,
         MarkPullRequestUnknown(c) \/ CompletePullRequest(c) \/ RecordNotFound(c)
  PROVE  IInv'
<1> DEFINE k == call[c].key
<1>1. k \in ProposalKeys /\ proposal[k] # None /\ call[c] \in CallLike
  BY DEF IInv, Typed, Proposing, MarkPullRequestUnknown, CompletePullRequest, RecordNotFound
<1>2. proposal[k] \in ProposalLike
  BY <1>1 DEF IInv, Typed
<1>3. NoCall \in CallLike /\ NoCall.pc = "idle" /\ call' = [call EXCEPT ![c] = NoCall]
  BY NoCallTyped DEF NoCall, Return, MarkPullRequestUnknown, CompletePullRequest, RecordNotFound
<1>4. UNCHANGED <<state, approval, merged, assessment, confirmation, github>>
  BY DEF MarkPullRequestUnknown, CompletePullRequest, RecordNotFound
<1>5. CASE \E status \in {"UNKNOWN", "FAILED"} : proposal' = [proposal EXCEPT ![k].status = status]
  <2>1. PICK status \in {"UNKNOWN", "FAILED"} : proposal' = [proposal EXCEPT ![k].status = status]
    BY <1>5
  <2> DEFINE row == [proposal[k] EXCEPT !.status = status]
  <2>2. row \in ProposalLike /\ row.status # "SUCCEEDED"
    BY <1>2 DEF ProposalLike
  <2>3. proposal' = [proposal EXCEPT ![k] = row]
    BY <2>1
  <2> HIDE DEF row, k
  <2> QED
    BY <1>1, <1>3, <1>4, <2>2, <2>3, ProposalWritten
<1>6. CASE CompletePullRequest(c)
  <2> DEFINE row == [status |-> "SUCCEEDED", pull_number |-> call[c].number]
  <2>1. row \in ProposalLike
    BY <1>1 DEF ProposalLike, CallLike
  <2>2. row.pull_number \in DOMAIN pulls
    BY <1>6 DEF IInv, Numbered, CompletePullRequest
  <2>3. proposal' = [proposal EXCEPT ![k] = row]
    BY <1>6 DEF CompletePullRequest
  <2> HIDE DEF row, k
  <2> QED
    BY <1>1, <1>3, <1>4, <2>1, <2>2, <2>3, ProposalWritten
<1>7. CASE MarkPullRequestUnknown(c) /\ proposal' = proposal
  BY <1>4, <1>7, ReturnGoesOn DEF MarkPullRequestUnknown, records
<1> QED
  BY <1>5, <1>6, <1>7 DEF MarkPullRequestUnknown, RecordNotFound
-----------------------------------------------------------------------------
(* A step of GitHub, with the request that asked for it if one did: pull      *)
(* requests are only added, and a merged one stays as it is                   *)
LEMMA PullsChanged ==
  ASSUME IInv, branch' \in Revisions, pulls' \in Seq(Pull), DOMAIN pulls \subseteq DOMAIN pulls',
         \A n \in DOMAIN pulls : pulls[n].state = "merged" => pulls'[n] = pulls[n],
         call' \in [Calls -> CallLike],
         \A c \in Calls : \/ call'[c] = call[c]
                          \/ /\ call[c].pc = "posting" /\ call'[c].key = call[c].key
                             /\ \/ call'[c].pc = "create_failed"
                                \/ call'[c].pc = "created" /\ call'[c].number \in DOMAIN pulls',
         UNCHANGED <<state, approval, merged, records>>
  PROVE  IInv'
<1> USE DEF IInv, records
<1>1. Typed'
  BY DEF Typed
<1>2. \A n : IsMerge(n) => IsMerge(n)'
  BY DEF IsMerge
<1>3. Numbered'
  BY DEF Numbered, Status
<1>4. Proposing'
  BY DEF Proposing
<1>5. \A c \in Calls : Assesses(c)' => Assesses(c) /\ call'[c] = call[c]
  BY DEF Assesses
<1>6. Assessing'
  BY <1>5 DEF Assessing, Status
<1>7. Confirming'
  BY DEF Confirming, Status
<1>8. \A c \in Calls : call'[c].pc = "confirmed" => call'[c] = call[c]
  OBVIOUS
<1>9. Merged'
  BY <1>2, <1>8 DEF Merged, Status
<1> QED
  BY <1>1, <1>3, <1>4, <1>6, <1>7, <1>9

(* create_draft_pull_request *)
LEMMA PostIInv ==
  ASSUME IInv, NEW c \in Calls, NEW answered \in BOOLEAN, PostPullRequest(c, answered)
  PROVE  IInv'
<1>1. /\ call \in [Calls -> CallLike] /\ branch \in Revisions /\ pulls \in Seq(Pull)
      /\ call[c].pc = "posting"
  BY DEF IInv, Typed, PostPullRequest
<1>2. CASE pulls' = pulls
  <2>1. CASE Goto(c, "create_failed")
    <3>1. Holds(c, [call[c] EXCEPT !.pc = "create_failed"])
      BY <1>1 DEF Holds, CallLike, IInv, Proposing
    <3> QED
      BY <1>2, <2>1, <3>1, GotoGoesOn DEF PostPullRequest, github
  <2>2. CASE pulls' = Append(pulls, [state |-> "open", head |-> branch])
    BY <1>1, <1>2, <2>2
  <2> QED
    BY <2>1, <2>2 DEF PostPullRequest
<1>3. CASE pulls' # pulls
  <2> DEFINE pull == [state |-> "open", head |-> branch]
             number == Len(pulls) + 1
             pc == IF answered /\ branch = Candidate THEN "created" ELSE "create_failed"
             given == IF answered /\ branch = Candidate THEN number ELSE 0
             x == [[call[c] EXCEPT !.pc = pc] EXCEPT !.number = given]
  <2>1. pull \in Pull
    BY <1>1 DEF Pull
  <2>2. pulls' = Append(pulls, pull) /\ call' = [call EXCEPT ![c] = x]
    BY <1>3 DEF PostPullRequest
  <2> HIDE DEF pull
  <2>3. /\ pulls' \in Seq(Pull) /\ number \in DOMAIN pulls' /\ number \in Nat
        /\ DOMAIN pulls \subseteq DOMAIN pulls'
        /\ \A n \in DOMAIN pulls : pulls'[n] = pulls[n]
    BY <1>1, <2>1, <2>2
  <2>4. given \in Nat /\ pc \in {"created", "create_failed"} /\ (pc = "created" => given = number)
    BY <2>3
  <2>5. [call[c] EXCEPT !.pc = pc] \in CallLike
    BY <1>1, <2>4, CallFields
  <2>6. x \in CallLike
    BY <2>4, <2>5, CallFields
  <2>7. x.pc = pc /\ x.key = call[c].key /\ x.number = given
    BY <1>1 DEF CallLike
  <2> HIDE DEF x, pc, given
  <2>8. /\ call' \in [Calls -> CallLike] /\ call'[c] = x
        /\ \A d \in Calls : d # c => call'[d] = call[d]
    BY <1>1, <2>2, <2>6
  <2>9. UNCHANGED <<state, approval, merged, records, branch>>
    BY DEF PostPullRequest
  <2> QED
    BY <1>1, <2>3, <2>4, <2>7, <2>8, <2>9, PullsChanged
<1> QED
  BY <1>2, <1>3

(* A push moves the branch and the heads of open pull requests *)
LEMMA PushIInv ==
  ASSUME IInv, NEW revision \in Revisions, Push(revision)
  PROVE  IInv'
<1>1. call \in [Calls -> CallLike] /\ pulls \in Seq(Pull)
  BY DEF IInv, Typed
<1>2. \A n \in DOMAIN pulls : pulls[n] \in Pull /\ [pulls[n] EXCEPT !.head = revision] \in Pull
  <2>1. \A n \in DOMAIN pulls : pulls[n] \in Pull
    BY <1>1
  <2>2. \A pull \in Pull : [pull EXCEPT !.head = revision] \in Pull
    BY DEF Pull
  <2> QED
    BY <2>1, <2>2
<1>3. /\ DOMAIN pulls' = DOMAIN pulls
      /\ \A n \in DOMAIN pulls : pulls'[n] \in Pull /\ (pulls[n].state = "merged" => pulls'[n] = pulls[n])
  BY <1>2 DEF Push, OpenPulls
<1>4. pulls' \in Seq(Pull)
  <2>1. DOMAIN pulls = 1 .. Len(pulls) /\ Len(pulls) \in Nat
    BY <1>1
  <2>2. pulls' \in [1 .. Len(pulls) -> Pull]
    BY <1>3, <2>1 DEF Push
  <2> QED
    BY <2>1, <2>2
<1> QED
  BY <1>1, <1>3, <1>4, PullsChanged DEF Push

(* A human merges, closes or reopens a pull request *)
LEMMA PullChangesIInv ==
  ASSUME IInv, NEW n \in DOMAIN pulls, PullChanges(n)
  PROVE  IInv'
<1>1. call \in [Calls -> CallLike] /\ pulls \in Seq(Pull) /\ branch \in Revisions
  BY DEF IInv, Typed
<1>2. pulls[n] \in Pull
  BY <1>1
<1>3. PICK pull \in Pull : pulls' = [pulls EXCEPT ![n] = pull]
  <2>1. /\ [pulls[n] EXCEPT !.state = "merged"] \in Pull
        /\ [pulls[n] EXCEPT !.state = "closed"] \in Pull
        /\ [pulls[n] EXCEPT !.state = "open", !.head = branch] \in Pull
    BY <1>1, <1>2 DEF Pull
  <2> QED
    BY <2>1 DEF PullChanges
<1>4. pulls' \in Seq(Pull) /\ DOMAIN pulls' = DOMAIN pulls
  BY <1>1, <1>3
<1>5. \A m \in DOMAIN pulls : pulls[m].state = "merged" => pulls'[m] = pulls[m]
  BY <1>1, <1>3 DEF PullChanges
<1> QED
  BY <1>1, <1>4, <1>5, PullsChanged DEF PullChanges
-----------------------------------------------------------------------------
(* A new assessment, of a key that no request works on *)
LEMMA AssessMergeReadinessIInv ==
  ASSUME IInv, NEW c \in Calls, NEW k \in ProposalKeys, NEW a \in AssessmentKeys, AssessMergeReadiness(c, k, a)
  PROVE  IInv'
<1> USE DEF IInv
<1> DEFINE row == [status |-> "RUNNING", proposal |-> k, ready |-> FALSE]
           x == [[[NoCall EXCEPT !.pc = "assess_pull"] EXCEPT !.key = a] EXCEPT !.number = proposal[k].pull_number]
<1>1. proposal[k].pull_number \in DOMAIN pulls /\ proposal[k] # None /\ assessment[a] = None
  BY DEF Numbered, Status, AssessMergeReadiness
<1>2. proposal[k].pull_number \in Nat
  BY <1>1 DEF Typed, ProposalLike
<1>3. [NoCall EXCEPT !.pc = "assess_pull"] \in CallLike
  BY NoCallTyped, CallFields
<1>4. [[NoCall EXCEPT !.pc = "assess_pull"] EXCEPT !.key = a] \in CallLike
  BY <1>3, CallFields
<1>5. x \in CallLike
  BY <1>2, <1>4, CallFields
<1>6. x.pc = "assess_pull" /\ x.key = a /\ x.number = proposal[k].pull_number
  BY DEF NoCall
<1>7. row \in Assessment /\ row.status = "RUNNING"
  BY DEF Assessment
<1>8. call' = [call EXCEPT ![c] = x] /\ assessment' = [assessment EXCEPT ![a] = row]
  BY DEF AssessMergeReadiness
<1>9. UNCHANGED <<state, approval, merged, proposal, confirmation, branch, pulls>>
  BY DEF AssessMergeReadiness, github
<1> HIDE DEF x, row
<1>10. /\ call' \in [Calls -> CallLike] /\ call'[c] = x
       /\ \A d \in Calls : d # c => call'[d] = call[d]
  BY <1>5, <1>8 DEF Typed
<1>11. /\ assessment' \in [AssessmentKeys -> Assessment \cup {None}] /\ assessment'[a] = row /\ row # None
       /\ \A b \in AssessmentKeys : b # a => assessment'[b] = assessment[b]
  BY <1>7, <1>8, NoneAssumption DEF Typed
<1>12. Typed'
  BY <1>9, <1>10, <1>11 DEF Typed
<1>13. Numbered' /\ Proposing'
  BY <1>1, <1>6, <1>9, <1>10 DEF Numbered, Proposing, Status
<1>14. \A d \in Calls : Assesses(d) => call[d].key # a
  BY <1>1 DEF Assessing, Status
<1>15. Assessing'
  BY <1>6, <1>7, <1>10, <1>11, <1>14 DEF Assessing, Assesses, Status
<1>16. Confirming'
  BY <1>1, <1>6, <1>9, <1>10, <1>11 DEF Confirming, Status, Typed, Confirmation
<1>17. Merged'
  BY <1>6, <1>9, <1>10 DEF Merged, IsMerge, Status
<1> QED
  BY <1>12, <1>13, <1>15, <1>16, <1>17

(* The one request that works on an assessment ends it; no confirmation rests *)
(* on it yet                                                                  *)
LEMMA AssessmentEnds ==
  ASSUME IInv, NEW c \in Calls, Assesses(c), NEW row \in Assessment,
         assessment' = [assessment EXCEPT ![call[c].key] = row], Return(c),
         UNCHANGED <<state, approval, merged, proposal, confirmation, github>>
  PROVE  IInv'
<1> USE DEF IInv, github
<1> DEFINE a == call[c].key
<1>1. a \in AssessmentKeys /\ Status(assessment[a]) = "RUNNING"
  BY DEF Assessing
<1>2. /\ call' \in [Calls -> CallLike] /\ call'[c] = NoCall
      /\ \A d \in Calls : d # c => call'[d] = call[d]
  BY NoCallTyped DEF Typed, Return
<1>3. /\ assessment' \in [AssessmentKeys -> Assessment \cup {None}]
      /\ \A b \in AssessmentKeys : b # a => assessment'[b] = assessment[b]
  BY <1>1 DEF Typed
<1>4. Typed'
  BY <1>2, <1>3 DEF Typed
<1>5. Numbered' /\ Proposing'
  BY <1>2 DEF Numbered, Proposing, Status, NoCall
<1>6. Assessing'
  <2>1. \A d \in Calls : Assesses(d)' => d # c /\ Assesses(d) /\ call'[d] = call[d]
    BY <1>2 DEF Assesses, NoCall
  <2>2. \A d \in Calls : Assesses(d) /\ d # c => call[d].key \in AssessmentKeys /\ call[d].key # a
    BY DEF Assessing
  <2> QED
    BY <1>3, <2>1, <2>2 DEF Assessing, Status
<1>7. \A f \in ConfirmationKeys : confirmation[f] # None =>
        confirmation[f].assessment \in AssessmentKeys /\ confirmation[f].assessment # a
  BY <1>1 DEF Confirming, Typed, Confirmation
<1>8. Confirming'
  <2>1. ASSUME NEW d \in Calls, call'[d].pc \in {"confirming", "confirmed", "confirm_failed"}
        PROVE  call'[d].key \in ConfirmationKeys /\ confirmation'[call'[d].key] # None
    <3>1. call'[d] = call[d]
      BY <1>2, <2>1 DEF NoCall
    <3> QED
      BY <2>1, <3>1 DEF Confirming
  <2>2. ASSUME NEW f \in ConfirmationKeys, confirmation[f] # None
        PROVE  assessment'[confirmation[f].assessment] = assessment[confirmation[f].assessment]
    BY <1>3, <1>7, <2>2
  <2> QED
    BY <2>1, <2>2 DEF Confirming, Status
<1>9. Merged'
  BY <1>2 DEF Merged, IsMerge, Status, NoCall
<1> QED
  BY <1>4, <1>5, <1>6, <1>8, <1>9

LEMMA AssessmentEndsIInv ==
  ASSUME IInv, NEW c \in Calls, MarkReadinessFailed(c) \/ RecordMergeReadiness(c)
  PROVE  IInv'
<1> DEFINE a == call[c].key
<1>1. Assesses(c) /\ call[c] \in CallLike
  BY DEF IInv, Typed, Assesses, MarkReadinessFailed, RecordMergeReadiness
<1>2. a \in AssessmentKeys /\ assessment[a] # None /\ assessment[a].status = "RUNNING"
  BY <1>1 DEF IInv, Assessing, Status
<1>3. assessment[a] \in Assessment /\ call[c].good \in BOOLEAN
  BY <1>1, <1>2 DEF IInv, Typed, CallLike
<1>4. PICK row \in Assessment : assessment' = [assessment EXCEPT ![a] = row]
  <2>1. CASE MarkReadinessFailed(c)
    <3>1. [assessment[a] EXCEPT !.status = "FAILED"] \in Assessment
      BY <1>3 DEF Assessment
    <3> QED
      BY <1>2, <2>1, <3>1 DEF MarkReadinessFailed
  <2>2. CASE RecordMergeReadiness(c)
    <3>1. [assessment[a] EXCEPT !.status = "SUCCEEDED"] \in Assessment
      BY <1>3 DEF Assessment
    <3>2. [[assessment[a] EXCEPT !.status = "SUCCEEDED"] EXCEPT !.ready = call[c].good] \in Assessment
      BY <1>3, <3>1 DEF Assessment
    <3>3. assessment' = [assessment EXCEPT ![a] = [[assessment[a] EXCEPT !.status = "SUCCEEDED"]
                                                      EXCEPT !.ready = call[c].good]]
      BY <2>2 DEF RecordMergeReadiness
    <3> QED
      BY <3>2, <3>3
  <2> QED
    BY <2>1, <2>2
<1> QED
  BY <1>1, <1>4, AssessmentEnds DEF MarkReadinessFailed, RecordMergeReadiness
-----------------------------------------------------------------------------
(* confirm_pull_request_merged: a new confirmation, with what it rests on *)
LEMMA ConfirmIInv ==
  ASSUME IInv, NEW c \in Calls, NEW k \in ProposalKeys, NEW a \in AssessmentKeys, NEW f \in ConfirmationKeys,
         ConfirmPullRequestMerged(c, k, a, f)
  PROVE  IInv'
<1> USE DEF IInv
<1> DEFINE row == [status |-> "RUNNING", proposal |-> k, assessment |-> a]
           x == [[[NoCall EXCEPT !.pc = "confirming"] EXCEPT !.key = f] EXCEPT !.number = proposal[k].pull_number]
<1>1. proposal[k].pull_number \in DOMAIN pulls /\ proposal[k] # None /\ confirmation[f] = None
  BY DEF Numbered, Status, ConfirmPullRequestMerged
<1>2. proposal[k].pull_number \in Nat
  BY <1>1 DEF Typed, ProposalLike
<1>3. [NoCall EXCEPT !.pc = "confirming"] \in CallLike
  BY NoCallTyped, CallFields
<1>4. [[NoCall EXCEPT !.pc = "confirming"] EXCEPT !.key = f] \in CallLike
  BY <1>3, CallFields
<1>5. x \in CallLike
  BY <1>2, <1>4, CallFields
<1>6. x.pc = "confirming" /\ x.key = f /\ x.number = proposal[k].pull_number
  BY DEF NoCall
<1>7. row \in Confirmation /\ row.status = "RUNNING" /\ row.proposal = k /\ row.assessment = a
  BY DEF Confirmation
<1>8. call' = [call EXCEPT ![c] = x] /\ confirmation' = [confirmation EXCEPT ![f] = row]
  BY DEF ConfirmPullRequestMerged
<1>9. /\ UNCHANGED <<state, approval, merged, proposal, assessment, branch, pulls>>
      /\ Status(assessment[a]) = "SUCCEEDED" /\ assessment[a].proposal = k /\ assessment[a].ready
  BY DEF ConfirmPullRequestMerged, github
<1> HIDE DEF x, row
<1>10. /\ call' \in [Calls -> CallLike] /\ call'[c] = x
       /\ \A d \in Calls : d # c => call'[d] = call[d]
  BY <1>5, <1>8 DEF Typed
<1>11. /\ confirmation' \in [ConfirmationKeys -> Confirmation \cup {None}] /\ confirmation'[f] = row /\ row # None
       /\ \A g \in ConfirmationKeys : g # f => confirmation'[g] = confirmation[g]
  BY <1>7, <1>8, NoneAssumption DEF Typed
<1>12. Typed'
  BY <1>9, <1>10, <1>11 DEF Typed
<1>13. Numbered' /\ Proposing'
  BY <1>1, <1>6, <1>9, <1>10 DEF Numbered, Proposing, Status
<1>14. Assessing'
  BY <1>6, <1>9, <1>10 DEF Assessing, Assesses, Status
<1>15. Confirming'
  BY <1>6, <1>7, <1>9, <1>10, <1>11 DEF Confirming, Status
<1>16. \A g \in ConfirmationKeys : Status(confirmation[g])' = IF g = f THEN "RUNNING" ELSE Status(confirmation[g])
  BY <1>7, <1>11 DEF Status
<1>17. Status(confirmation[f]) # "SUCCEEDED"
  BY <1>1 DEF Status
<1>18. Merged'
  BY <1>6, <1>9, <1>10, <1>16, <1>17 DEF Merged, IsMerge
<1> QED
  BY <1>12, <1>13, <1>14, <1>15, <1>18

(* How a running confirmation ends: only the one that finds the workflow      *)
(* APPROVED succeeds, and it moves the workflow in the same transaction       *)
LEMMA ConfirmationEnds ==
  ASSUME IInv, NEW c \in Calls, NEW f \in ConfirmationKeys, NEW row \in Confirmation,
         confirmation[f] # None, confirmation[f].status = "RUNNING",
         row.proposal = confirmation[f].proposal, row.assessment = confirmation[f].assessment,
         confirmation' = [confirmation EXCEPT ![f] = row], Return(c),
         \/ row.status = "FAILED" /\ UNCHANGED <<state, merged>>
         \/ /\ row.status = "SUCCEEDED" /\ state = "APPROVED" /\ state' = "MERGED"
            /\ call[c].pc = "confirmed" /\ merged' = call[c].number,
         UNCHANGED <<approval, proposal, assessment, github>>
  PROVE  IInv'
<1> USE DEF IInv, github
<1>1. /\ call' \in [Calls -> CallLike] /\ call'[c] = NoCall
      /\ \A d \in Calls : d # c => call'[d] = call[d]
  BY NoCallTyped DEF Typed, Return
<1>2. /\ confirmation' \in [ConfirmationKeys -> Confirmation \cup {None}]
      /\ confirmation'[f] = row /\ row # None
      /\ \A g \in ConfirmationKeys : g # f => confirmation'[g] = confirmation[g]
  BY NoneAssumption DEF Typed
<1>3. Typed'
  BY <1>1, <1>2 DEF Typed
<1>4. Numbered' /\ Proposing'
  BY <1>1 DEF Numbered, Proposing, Status, NoCall
<1>5. Assessing'
  BY <1>1 DEF Assessing, Assesses, Status, NoCall
<1>6. Confirming'
  BY <1>1, <1>2 DEF Confirming, Status, NoCall
<1>7. /\ \A g \in ConfirmationKeys : Status(confirmation[g])' = IF g = f THEN row.status ELSE Status(confirmation[g])
      /\ Status(confirmation[f]) # "SUCCEEDED"
  BY <1>2 DEF Status
<1>8. Merged'
  BY <1>1, <1>7 DEF Merged, IsMerge, NoCall
<1> QED
  BY <1>3, <1>4, <1>5, <1>6, <1>8

(* _complete_merge_confirmation *)
LEMMA CompleteIInv ==
  ASSUME IInv, NEW c \in Calls, CompleteMergeConfirmation(c)
  PROVE  IInv'
<1> DEFINE f == call[c].key
<1>1. f \in ConfirmationKeys /\ confirmation[f] # None /\ call[c] \in CallLike
  BY DEF IInv, Typed, Confirming, CompleteMergeConfirmation
<1>2. CASE Goto(c, "confirm_failed") /\ UNCHANGED <<confirmation, merged, state>>
  <2>1. Holds(c, [call[c] EXCEPT !.pc = "confirm_failed"])
    BY <1>1 DEF Holds, CallLike
  <2> QED
    BY <1>2, <2>1, GotoGoesOn DEF CompleteMergeConfirmation, records
<1>3. CASE ~(Goto(c, "confirm_failed") /\ UNCHANGED <<confirmation, merged, state>>)
  <2> DEFINE row == [confirmation[f] EXCEPT !.status = "SUCCEEDED"]
  <2>1. confirmation[f] \in Confirmation
    BY <1>1 DEF IInv, Typed
  <2>2. /\ row \in Confirmation /\ row.status = "SUCCEEDED"
        /\ row.proposal = confirmation[f].proposal /\ row.assessment = confirmation[f].assessment
    BY <2>1 DEF Confirmation
  <2>3. /\ confirmation[f].status = "RUNNING" /\ state = "APPROVED" /\ state' = "MERGED"
        /\ merged' = call[c].number /\ call[c].pc = "confirmed" /\ Return(c)
        /\ confirmation' = [confirmation EXCEPT ![f] = row]
        /\ UNCHANGED <<approval, proposal, assessment, github>>
    BY <1>3 DEF CompleteMergeConfirmation
  <2> HIDE DEF f, row
  <2> QED
    BY <1>1, <2>2, <2>3, ConfirmationEnds
<1> QED
  BY <1>2, <1>3

(* _mark_merge_confirmation_failed *)
LEMMA MarkFailedIInv ==
  ASSUME IInv, NEW c \in Calls, MarkMergeConfirmationFailed(c)
  PROVE  IInv'
<1> DEFINE f == call[c].key
           row == [confirmation[f] EXCEPT !.status = "FAILED"]
<1>1. f \in ConfirmationKeys /\ confirmation[f] # None
  BY DEF IInv, Confirming, MarkMergeConfirmationFailed
<1>2. CASE confirmation[f].status = "RUNNING"
  <2>1. confirmation[f] \in Confirmation
    BY <1>1 DEF IInv, Typed
  <2>2. /\ row \in Confirmation /\ row.status = "FAILED"
        /\ row.proposal = confirmation[f].proposal /\ row.assessment = confirmation[f].assessment
    BY <2>1 DEF Confirmation
  <2>3. /\ Return(c) /\ confirmation' = [confirmation EXCEPT ![f] = row]
        /\ UNCHANGED <<state, approval, merged, proposal, assessment, github>>
    BY <1>2 DEF MarkMergeConfirmationFailed
  <2> HIDE DEF f, row
  <2> QED
    BY <1>1, <1>2, <2>2, <2>3, ConfirmationEnds
<1>3. CASE confirmation[f].status # "RUNNING"
  BY <1>3, ReturnGoesOn DEF MarkMergeConfirmationFailed, records
<1> QED
  BY <1>2, <1>3

(* A human decides, or the workflow is cancelled: neither is possible any     *)
(* more once it is MERGED                                                     *)
LEMMA HumanIInv ==
  ASSUME IInv, CancelWorkflow \/ \E decision \in {"APPROVED", "REJECTED"} : ApproveMerge(decision)
  PROVE  IInv'
<1> USE DEF IInv
<1>1. UNCHANGED <<merged, proposal, assessment, confirmation, call, branch, pulls>>
  BY DEF CancelWorkflow, ApproveMerge, records, github
<1>2. /\ state # "MERGED" /\ state' \in {"APPROVED", "REJECTED", "CANCELLED"}
      /\ state' = "APPROVED" => approval' = "APPROVED"
  BY Moves DEF CancelWorkflow, ApproveMerge
<1>3. Typed'
  BY <1>1, <1>2 DEF Typed
<1>4. Numbered' /\ Proposing' /\ Assessing' /\ Confirming'
  BY <1>1 DEF Numbered, Proposing, Assessing, Assesses, Confirming, Status
<1>5. Merged'
  BY <1>1, <1>2 DEF Merged, IsMerge, Status
<1> QED
  BY <1>3, <1>4, <1>5
-----------------------------------------------------------------------------
(* Every step of the system keeps the invariant *)
LEMMA NextIInv == IInv /\ [Next]_vars => IInv'
<1> SUFFICES ASSUME IInv, [Next]_vars PROVE IInv'
  OBVIOUS
<1>1. ASSUME NEW c \in Calls, CallStep(c) PROVE IInv'
  <2>1. CASE \E k \in ProposalKeys : ProposePullRequest(c, k)
    BY <2>1, ProposeIInv
  <2>2. CASE \E k \in ProposalKeys : ReconcilePullRequest(c, k)
    BY <2>2, ReconcileIInv
  <2>3. CASE ReadBranchHead(c)
    BY <2>3, ReadBranchHeadIInv
  <2>4. CASE \E answered \in BOOLEAN : PostPullRequest(c, answered)
    BY <2>4, PostIInv
  <2>5. CASE MarkPullRequestUnknown(c) \/ CompletePullRequest(c) \/ RecordNotFound(c)
    BY <2>5, ProposalEndsIInv
  <2>6. CASE FindPullRequests(c)
    BY <2>6, FindIInv
  <2>7. CASE \E k \in ProposalKeys, a \in AssessmentKeys : AssessMergeReadiness(c, k, a)
    BY <2>7, AssessMergeReadinessIInv
  <2>8. CASE AssessPull(c) \/ AssessChecks(c)
    BY <2>8, AssessIInv
  <2>9. CASE MarkReadinessFailed(c) \/ RecordMergeReadiness(c)
    BY <2>9, AssessmentEndsIInv
  <2>10. CASE \E k \in ProposalKeys, a \in AssessmentKeys, f \in ConfirmationKeys :
                ConfirmPullRequestMerged(c, k, a, f)
    BY <2>10, ConfirmIInv
  <2>11. CASE ReadMerge(c)
    BY <2>11, ReadMergeIInv
  <2>12. CASE CompleteMergeConfirmation(c)
    BY <2>12, CompleteIInv
  <2>13. CASE MarkMergeConfirmationFailed(c)
    BY <2>13, MarkFailedIInv
  <2>14. CASE Crash(c)
    BY <2>14, ReturnGoesOn DEF Crash
  <2> QED
    BY <1>1, <2>1, <2>2, <2>3, <2>4, <2>5, <2>6, <2>7, <2>8, <2>9, <2>10, <2>11, <2>12, <2>13, <2>14
    DEF CallStep
<1>2. CASE CancelWorkflow \/ \E decision \in {"APPROVED", "REJECTED"} : ApproveMerge(decision)
  BY <1>2, HumanIInv
<1>3. CASE \E revision \in Revisions : Push(revision)
  BY <1>3, PushIInv
<1>4. CASE \E n \in DOMAIN pulls : PullChanges(n)
  BY <1>4, PullChangesIInv
<1>5. CASE UNCHANGED vars
  <2>1. Typed'
    BY <1>5 DEF vars, IInv, Typed
  <2>2. Numbered'
    BY <1>5 DEF vars, IInv, Numbered
  <2>3. Proposing'
    BY <1>5 DEF vars, IInv, Proposing
  <2>4. Assessing'
    BY <1>5 DEF vars, IInv, Assessing, Assesses
  <2>5. Confirming'
    BY <1>5 DEF vars, IInv, Confirming
  <2>6. Merged'
    BY <1>5 DEF vars, IInv, Merged, IsMerge
  <2> QED
    BY <2>1, <2>2, <2>3, <2>4, <2>5, <2>6 DEF IInv
<1> QED
  BY <1>1, <1>2, <1>3, <1>4, <1>5 DEF Next

(* IInv is an inductive invariant of the pull request stage *)
THEOREM Inductive == Spec => []IInv
BY InitIInv, NextIInv, PTL DEF Spec

(* The merge invariant, for any number of requests in flight and whatever     *)
(* GitHub does in between: the workflow is MERGED only with a human approval, *)
(* a ready assessment of the confirmed proposal and, as merged_revision, the  *)
(* merge of a pull request whose head was the candidate                       *)
(* (_complete_merge_confirmation).                                            *)
THEOREM MergeHolds == Spec => []MergeInvariant
<1>1. IInv => MergeInvariant
  <2> SUFFICES ASSUME IInv, state = "MERGED" PROVE MergeInvariant
    BY DEF MergeInvariant
  <2>1. approval = "APPROVED" /\ IsMerge(merged)
    BY DEF IInv, Merged
  <2>2. PICK f \in ConfirmationKeys : Status(confirmation[f]) = "SUCCEEDED"
    BY DEF IInv, Merged
  <2>3. confirmation[f] # None
    BY <2>2 DEF Status
  <2>4. /\ assessment[confirmation[f].assessment].ready
        /\ assessment[confirmation[f].assessment].proposal = confirmation[f].proposal
    BY <2>3 DEF IInv, Confirming
  <2> QED
    BY <2>1, <2>2, <2>4 DEF MergeInvariant, IsMerge
<1> QED
  BY <1>1, Inductive, PTL

(* Whatever was bound anew while GitHub was read, the step that makes the     *)
(* workflow MERGED ends one pending confirmation whose proposal is bound to   *)
(* the pull request it records and whose ready assessment is of the same      *)
(* proposal (_complete_merge_confirmation).                                   *)
THEOREM MergeBindsPull == Spec => MergesBoundPull
<1> DEFINE Binds(f) == /\ Status(confirmation[f]) = "RUNNING" /\ Status(confirmation'[f]) = "SUCCEEDED"
                       /\ proposal[confirmation[f].proposal].pull_number = merged'
                       /\ assessment[confirmation[f].assessment].ready
                       /\ assessment[confirmation[f].assessment].proposal = confirmation[f].proposal
<1>1. IInv /\ [Next]_vars =>
        [state # "MERGED" /\ state' = "MERGED" => \E f \in ConfirmationKeys : Binds(f)]_vars
  <2> SUFFICES ASSUME IInv, Next, state # "MERGED", state' = "MERGED"
               PROVE  \E f \in ConfirmationKeys : Binds(f)
    BY DEF vars
  <2>1. PICK c \in Calls : CompleteMergeConfirmation(c)
    <3>1. ~CancelWorkflow /\ \A decision \in {"APPROVED", "REJECTED"} : ~ApproveMerge(decision)
      BY DEF CancelWorkflow, ApproveMerge
    <3>2. /\ \A revision \in Revisions : ~Push(revision)
          /\ \A n \in DOMAIN pulls : ~PullChanges(n)
      BY DEF Push, PullChanges
    <3>3. PICK c \in Calls : CallStep(c)
      BY <3>1, <3>2 DEF Next
    <3>4. /\ \A k \in ProposalKeys : ~ProposePullRequest(c, k) /\ ~ReconcilePullRequest(c, k)
          /\ ~ReadBranchHead(c) /\ \A answered \in BOOLEAN : ~PostPullRequest(c, answered)
          /\ ~MarkPullRequestUnknown(c) /\ ~CompletePullRequest(c)
          /\ ~FindPullRequests(c) /\ ~RecordNotFound(c)
      BY DEF ProposePullRequest, ReconcilePullRequest, ReadBranchHead, PostPullRequest,
             MarkPullRequestUnknown, CompletePullRequest, FindPullRequests, RecordNotFound
    <3>5. /\ \A k \in ProposalKeys, a \in AssessmentKeys : ~AssessMergeReadiness(c, k, a)
          /\ ~AssessPull(c) /\ ~AssessChecks(c) /\ ~MarkReadinessFailed(c) /\ ~RecordMergeReadiness(c)
      BY DEF AssessMergeReadiness, AssessPull, AssessChecks, MarkReadinessFailed, RecordMergeReadiness
    <3>6. /\ \A k \in ProposalKeys, a \in AssessmentKeys, f \in ConfirmationKeys :
               ~ConfirmPullRequestMerged(c, k, a, f)
          /\ ~ReadMerge(c) /\ ~MarkMergeConfirmationFailed(c) /\ ~Crash(c)
      BY DEF ConfirmPullRequestMerged, ReadMerge, MarkMergeConfirmationFailed, Crash
    <3> QED
      BY <3>3, <3>4, <3>5, <3>6 DEF CallStep
  <2> DEFINE f == call[c].key
  <2>2. f \in ConfirmationKeys /\ confirmation[f] # None
    BY <2>1 DEF IInv, Confirming, CompleteMergeConfirmation
  <2>3. /\ assessment[confirmation[f].assessment].ready
        /\ assessment[confirmation[f].assessment].proposal = confirmation[f].proposal
    BY <2>2 DEF IInv, Confirming
  <2>4. /\ confirmation[f].status = "RUNNING" /\ merged' = call[c].number
        /\ proposal[confirmation[f].proposal].pull_number = call[c].number
        /\ confirmation' = [confirmation EXCEPT ![f].status = "SUCCEEDED"]
    BY <2>1 DEF CompleteMergeConfirmation
  <2>5. confirmation \in [ConfirmationKeys -> Confirmation \cup {None}] /\ confirmation[f] \in Confirmation
    BY <2>2 DEF IInv, Typed
  <2>6. confirmation'[f] = [confirmation[f] EXCEPT !.status = "SUCCEEDED"]
    BY <2>2, <2>4, <2>5
  <2>7. [confirmation[f] EXCEPT !.status = "SUCCEEDED"] \in Confirmation
    BY <2>5 DEF Confirmation
  <2>8. confirmation'[f] # None /\ confirmation'[f].status = "SUCCEEDED"
    BY <2>5, <2>6, <2>7, NoneAssumption DEF Confirmation
  <2>9. Binds(f)
    BY <2>2, <2>3, <2>4, <2>8 DEF Status
  <2> QED
    BY <2>2, <2>9
<1> QED
  BY <1>1, Inductive, PTL DEF Spec, MergesBoundPull

(* Of any number of confirmations in flight at most one succeeds, and one has *)
(* exactly when the workflow is MERGED: each re-reads the state under its     *)
(* lock (_complete_merge_confirmation).                                       *)
THEOREM ConfirmedOnce == Spec => []OneMergeConfirmed
<1>1. IInv => OneMergeConfirmed
  <2> SUFFICES ASSUME IInv PROVE OneMergeConfirmed
    OBVIOUS
  <2> DEFINE confirmed == {f \in ConfirmationKeys : Status(confirmation[f]) = "SUCCEEDED"}
  <2>1. \A f, g \in confirmed : f = g
    BY DEF IInv, Merged
  <2>2. state = "MERGED" <=> confirmed # {}
    BY DEF IInv, Merged
  <2>3. Cardinality(confirmed) <= 1
    <3> HIDE DEF confirmed
    <3> QED
      BY <2>1, AtMostOne
  <2> QED
    BY <2>2, <2>3 DEF OneMergeConfirmed
<1> QED
  BY <1>1, Inductive, PTL
-----------------------------------------------------------------------------
(* Type correctness.  The numbers of pull requests are bounded because a key  *)
(* opens at most one: only the request that made the record posts, once.      *)
Posts(c) == call[c].pc \in {"creating", "posting"}

(* Keys whose request has posted, failed or died *)
Spent == {k \in ProposalKeys : proposal[k] # None /\ \A c \in Calls : Posts(c) => call[c].key # k}

Given(n) == n = 0 \/ n \in DOMAIN pulls

OnePoster == \A c, d \in Calls : Posts(c) /\ Posts(d) /\ call[c].key = call[d].key => c = d

PInv ==
  /\ approval \in {"NULL", "APPROVED", "REJECTED"}
  /\ OnePoster
  /\ Len(pulls) <= Cardinality(Spent)
  /\ Given(merged)
  /\ \A c \in Calls : Given(call[c].number)
  /\ \A k \in ProposalKeys : proposal[k] # None => Given(proposal[k].pull_number)

LEMMA SpentFinite == IsFiniteSet(Spent) /\ Cardinality(Spent) \in Nat /\ Cardinality(Spent) <= Cardinality(ProposalKeys)
<1>1. Spent \subseteq ProposalKeys
  BY DEF Spent
<1> QED
  BY <1>1, KeysAssumption, FS_Subset, FS_CardinalityType

(* No step makes a spent key fresh again, so there are ever more of them *)
LEMMA SpentGrows ==
  ASSUME Spent \subseteq Spent'
  PROVE  Cardinality(Spent) <= Cardinality(Spent')
<1>1. IsFiniteSet(Spent')
  <2>1. Spent' \subseteq ProposalKeys
    BY DEF Spent
  <2> QED
    BY <2>1, KeysAssumption, FS_Subset
<1> QED
  BY <1>1, FS_Subset

(* A step in which nobody posts *)
LEMMA NobodyPosts ==
  ASSUME IInv, PInv, IInv', Len(pulls') = Len(pulls),
         approval' \in {"NULL", "APPROVED", "REJECTED"}, OnePoster',
         \A c \in Calls : Posts(c)' => \/ Posts(c) /\ call'[c].key = call[c].key
                                       \/ proposal[call'[c].key] = None,
         \A k \in ProposalKeys : proposal[k] # None => proposal'[k] # None,
         Given(merged'), \A c \in Calls : Given(call'[c].number),
         \A k \in ProposalKeys : proposal'[k] # None => Given(proposal'[k].pull_number)
  PROVE  PInv'
<1>1. Spent \subseteq Spent'
  BY DEF Spent
<1>2. Cardinality(Spent) <= Cardinality(Spent')
  BY <1>1, SpentGrows
<1>3. Cardinality(Spent) \in Nat /\ Cardinality(Spent') \in Nat
  <2>1. Spent \subseteq ProposalKeys /\ Spent' \subseteq ProposalKeys
    BY DEF Spent
  <2> QED
    BY <2>1, KeysAssumption, FS_Subset, FS_CardinalityType
<1>4. pulls \in Seq(Pull) /\ pulls' \in Seq(Pull)
  BY DEF IInv, Typed
<1>5. DOMAIN pulls' = DOMAIN pulls /\ Len(pulls) \in Nat
  BY <1>4
<1>6. Len(pulls') <= Cardinality(Spent')
  BY <1>2, <1>3, <1>5 DEF PInv
<1> QED
  BY <1>5, <1>6 DEF PInv, Given

(* A request goes on, ends or dies, or writes its record *)
LEMMA RequestPInv ==
  ASSUME IInv, PInv, IInv', NEW c \in Calls, NEW x, call' = [call EXCEPT ![c] = x],
         \/ x.pc \notin {"creating", "posting"}
         \/ Posts(c) /\ x.key = call[c].key,
         Given(x.number), approval' = approval, Given(merged'),
         \A k \in ProposalKeys : proposal[k] # None => proposal'[k] # None,
         \A k \in ProposalKeys : proposal'[k] # None => Given(proposal'[k].pull_number),
         pulls' = pulls
  PROVE  PInv'
<1>1. /\ call'[c] = x
      /\ \A d \in Calls : d # c => call'[d] = call[d]
  BY DEF IInv, Typed
<1>2. \A d \in Calls : Posts(d)' => Posts(d) /\ call'[d].key = call[d].key
  BY <1>1 DEF Posts
<1>3. OnePoster'
  BY <1>2 DEF PInv, OnePoster
<1>4. \A d \in Calls : Given(call'[d].number)
  BY <1>1 DEF PInv
<1>5. approval' \in {"NULL", "APPROVED", "REJECTED"} /\ Len(pulls') = Len(pulls)
  BY DEF PInv
<1> QED
  BY <1>2, <1>3, <1>4, <1>5, NobodyPosts

LEMMA GoesOnPInv ==
  ASSUME IInv, PInv, IInv', NEW c \in Calls, NEW x, call' = [call EXCEPT ![c] = x],
         \/ x.pc \notin {"creating", "posting"}
         \/ Posts(c) /\ x.key = call[c].key,
         Given(x.number), UNCHANGED <<approval, merged, proposal, pulls>>
  PROVE  PInv'
<1>1. Given(merged') /\ approval' = approval /\ pulls' = pulls
  BY DEF PInv
<1>2. \A k \in ProposalKeys : proposal'[k] # None => Given(proposal'[k].pull_number)
  BY DEF PInv
<1> QED
  BY <1>1, <1>2, RequestPInv

LEMMA ReturnPInv ==
  ASSUME IInv, PInv, IInv', NEW c \in Calls, Return(c), UNCHANGED <<approval, merged, proposal, pulls>>
  PROVE  PInv'
<1>1. NoCall.pc = "idle" /\ Given(NoCall.number)
  BY DEF NoCall, Given
<1> QED
  BY <1>1, GoesOnPInv DEF Return

LEMMA GotoPInv ==
  ASSUME IInv, PInv, IInv', NEW c \in Calls, NEW pc, Goto(c, pc),
         pc \in {"posting", "create_failed", "none_found", "confirmed", "confirm_failed"},
         pc = "posting" => Posts(c), UNCHANGED <<approval, merged, proposal, pulls>>
  PROVE  PInv'
<1> DEFINE x == [call[c] EXCEPT !.pc = pc]
<1>1. call[c] \in CallLike
  BY DEF IInv, Typed
<1>2. x.pc = pc /\ x.key = call[c].key /\ x.number = call[c].number
  BY <1>1 DEF CallLike
<1>3. call' = [call EXCEPT ![c] = x]
  BY DEF Goto
<1>4. Given(call[c].number)
  BY DEF PInv
<1> HIDE DEF x
<1> QED
  BY <1>2, <1>3, <1>4, GoesOnPInv

LEMMA InitPInv == Init => PInv
<1> SUFFICES ASSUME Init PROVE PInv
  OBVIOUS
<1>1. \A c \in Calls : ~Posts(c) /\ call[c].number = 0
  BY DEF Init, Posts, NoCall
<1>2. Len(pulls) = 0 /\ merged = 0 /\ approval = "NULL" /\ \A k \in ProposalKeys : proposal[k] = None
  BY DEF Init
<1>3. Len(pulls) <= Cardinality(Spent)
  BY <1>2, SpentFinite
<1> QED
  BY <1>1, <1>2, <1>3 DEF PInv, OnePoster, Given

(* propose_pull_request: the key had no record, so nobody else posts for it *)
LEMMA ProposePInv ==
  ASSUME IInv, PInv, IInv', NEW c \in Calls, NEW k \in ProposalKeys, ProposePullRequest(c, k)
  PROVE  PInv'
<1> DEFINE x == [NoCall EXCEPT !.pc = "creating", !.key = k]
           row == [status |-> "RUNNING", pull_number |-> 0]
<1>1. x.key = k /\ x.number = 0 /\ row.pull_number = 0
  BY DEF NoCall
<1>2. row # None
  BY NoneAssumption
<1>3. /\ call' = [call EXCEPT ![c] = x] /\ proposal' = [proposal EXCEPT ![k] = row]
      /\ proposal[k] = None /\ UNCHANGED <<approval, merged, pulls>>
  BY DEF ProposePullRequest, github
<1> HIDE DEF x, row
<1>4. /\ call'[c] = x
      /\ \A d \in Calls : d # c => call'[d] = call[d]
  BY <1>3 DEF IInv, Typed
<1>5. /\ proposal'[k] = row
      /\ \A j \in ProposalKeys : j # k => proposal'[j] = proposal[j]
  BY <1>3 DEF IInv, Typed
<1>6. \A d \in Calls : Posts(d) => call[d].key # k
  BY <1>3 DEF IInv, Proposing, Posts
<1>7. \A d \in Calls : d # c /\ Posts(d)' => Posts(d) /\ call'[d].key = call[d].key
  BY <1>4 DEF Posts
<1>8. OnePoster'
  BY <1>1, <1>4, <1>6, <1>7 DEF PInv, OnePoster
<1>9. \A d \in Calls : Posts(d)' => \/ Posts(d) /\ call'[d].key = call[d].key
                                    \/ proposal[call'[d].key] = None
  BY <1>1, <1>3, <1>4, <1>7
<1>10. \A d \in Calls : Given(call'[d].number)
  BY <1>1, <1>4 DEF PInv, Given
<1>11. \A j \in ProposalKeys : proposal[j] # None => proposal'[j] # None
  BY <1>2, <1>5
<1>12. \A j \in ProposalKeys : proposal'[j] # None => Given(proposal'[j].pull_number)
  BY <1>1, <1>5 DEF PInv, Given
<1>13. Given(merged') /\ approval' \in {"NULL", "APPROVED", "REJECTED"} /\ Len(pulls') = Len(pulls)
  BY <1>3 DEF PInv
<1> QED
  BY <1>8, <1>9, <1>10, <1>11, <1>12, <1>13, NobodyPosts

(* create_draft_pull_request: a pull request for a key that is spent by it *)
LEMMA PostPInv ==
  ASSUME IInv, PInv, IInv', NEW c \in Calls, NEW answered \in BOOLEAN, PostPullRequest(c, answered)
  PROVE  PInv'
<1>1. /\ call \in [Calls -> CallLike] /\ pulls \in Seq(Pull) /\ pulls' \in Seq(Pull) /\ Posts(c)
      /\ call[c].key \in ProposalKeys /\ proposal[call[c].key] # None
  BY DEF IInv, Typed, Proposing, PostPullRequest, Posts
<1>2. UNCHANGED <<approval, merged, proposal>>
  BY DEF PostPullRequest, records
<1>3. CASE Goto(c, "create_failed") /\ UNCHANGED pulls
  BY <1>2, <1>3, GotoPInv
<1>4. CASE ~(Goto(c, "create_failed") /\ UNCHANGED pulls)
  <2> DEFINE pull == [state |-> "open", head |-> branch]
             made == answered /\ branch = Candidate
             x == [call[c] EXCEPT !.pc = IF made THEN "created" ELSE "create_failed",
                                  !.number = IF made THEN Len(pulls) + 1 ELSE 0]
             k == call[c].key
  <2>1. pulls' = Append(pulls, pull) /\ call' = [call EXCEPT ![c] = x]
    BY <1>4 DEF PostPullRequest
  <2>2. x.pc \in {"created", "create_failed"} /\ x.number \in {0, Len(pulls) + 1}
    BY <1>1 DEF CallLike
  <2> HIDE DEF x, pull
  <2>3. /\ call'[c] = x
        /\ \A d \in Calls : d # c => call'[d] = call[d]
    BY <1>1, <2>1
  <2>4. /\ Len(pulls) \in Nat /\ Len(pulls') = Len(pulls) + 1
        /\ DOMAIN pulls = 1 .. Len(pulls) /\ DOMAIN pulls' = 1 .. Len(pulls) + 1
    BY <1>1, <2>1
  <2>5. \A n : Given(n) => Given(n)'
    BY <2>4 DEF Given
  <2>6. \A d \in Calls : Posts(d)' => d # c /\ Posts(d) /\ call'[d].key = call[d].key
    BY <2>2, <2>3 DEF Posts
  <2>7. OnePoster'
    BY <2>6 DEF PInv, OnePoster
  <2>8. k \in Spent' /\ k \notin Spent /\ Spent \subseteq Spent'
    BY <1>1, <1>2, <2>6 DEF PInv, OnePoster, Spent
  <2>9. Len(pulls') <= Cardinality(Spent')
    <3>1. IsFiniteSet(Spent) /\ Cardinality(Spent) \in Nat /\ IsFiniteSet(Spent') /\ Cardinality(Spent') \in Nat
      <4>1. Spent \subseteq ProposalKeys /\ Spent' \subseteq ProposalKeys
        BY DEF Spent
      <4> QED
        BY <4>1, KeysAssumption, FS_Subset, FS_CardinalityType
    <3>2. Cardinality(Spent \cup {k}) = Cardinality(Spent) + 1
      BY <2>8, <3>1, FS_AddElement
    <3>3. Spent \cup {k} \subseteq Spent'
      BY <2>8
    <3>4. Cardinality(Spent \cup {k}) <= Cardinality(Spent')
      BY <3>1, <3>3, FS_Subset
    <3>5. Len(pulls) <= Cardinality(Spent)
      BY DEF PInv
    <3> QED
      BY <2>4, <3>1, <3>2, <3>4, <3>5
  <2>10. \A d \in Calls : Given(call[d].number)'
    <3>1. \A d \in Calls : d # c => Given(call[d].number)'
      BY <2>3, <2>5 DEF PInv
    <3>2. Given(call[c].number)'
      BY <2>2, <2>3, <2>4 DEF Given
    <3> QED
      BY <3>1, <3>2
  <2> QED
    BY <1>2, <2>5, <2>7, <2>9, <2>10 DEF PInv
<1> QED
  BY <1>3, <1>4

(* The ends of a request about a proposal: the number recorded is the one it holds *)
LEMMA ProposalEndsPInv ==
  ASSUME IInv, PInv, IInv', NEW c \in Calls,
         MarkPullRequestUnknown(c) \/ CompletePullRequest(c) \/ RecordNotFound(c)
  PROVE  PInv'
<1> DEFINE k == call[c].key
<1>1. k \in ProposalKeys /\ proposal[k] # None
  BY DEF IInv, Proposing, MarkPullRequestUnknown, CompletePullRequest, RecordNotFound
<1>2. proposal \in [ProposalKeys -> ProposalLike \cup {None}] /\ proposal[k] \in ProposalLike
  BY <1>1 DEF IInv, Typed
<1>3. UNCHANGED <<approval, merged, pulls>> /\ Return(c)
  BY DEF MarkPullRequestUnknown, CompletePullRequest, RecordNotFound, github
<1>4. PICK row \in ProposalLike : proposal' = [proposal EXCEPT ![k] = row] /\ Given(row.pull_number)
  <2>1. CASE CompletePullRequest(c)
    <3> DEFINE row == [status |-> "SUCCEEDED", pull_number |-> call[c].number]
    <3>1. call[c] \in CallLike /\ Given(call[c].number)
      BY DEF IInv, Typed, PInv
    <3>2. row \in ProposalLike /\ row.pull_number = call[c].number
      BY <3>1 DEF ProposalLike, CallLike
    <3>3. proposal' = [proposal EXCEPT ![k] = row]
      BY <2>1 DEF CompletePullRequest
    <3> QED
      BY <3>1, <3>2, <3>3
  <2>2. CASE proposal' = proposal
    <3>1. Given(proposal[k].pull_number) /\ proposal' = [proposal EXCEPT ![k] = proposal[k]]
      BY <1>1, <1>2, <2>2 DEF PInv
    <3> QED
      BY <1>2, <3>1
  <2>3. CASE \E status \in {"UNKNOWN", "FAILED"} : proposal' = [proposal EXCEPT ![k].status = status]
    <3>1. PICK status \in {"UNKNOWN", "FAILED"} : proposal' = [proposal EXCEPT ![k].status = status]
      BY <2>3
    <3> DEFINE row == [proposal[k] EXCEPT !.status = status]
    <3>2. row \in ProposalLike /\ row.pull_number = proposal[k].pull_number
      BY <1>2 DEF ProposalLike
    <3>3. Given(proposal[k].pull_number) /\ proposal' = [proposal EXCEPT ![k] = row]
      BY <1>1, <3>1 DEF PInv
    <3> QED
      BY <3>2, <3>3
  <2> QED
    BY <2>1, <2>2, <2>3 DEF MarkPullRequestUnknown, RecordNotFound
<1> HIDE DEF k
<1>5. row # None
  BY NoneAssumption DEF ProposalLike
<1>6. /\ proposal'[k] = row
      /\ \A j \in ProposalKeys : j # k => proposal'[j] = proposal[j]
  BY <1>1, <1>2, <1>4
<1>7. \A j \in ProposalKeys : proposal[j] # None => proposal'[j] # None
  BY <1>5, <1>6
<1>8. \A j \in ProposalKeys : proposal'[j] # None => Given(proposal'[j].pull_number)
  BY <1>4, <1>6 DEF PInv
<1>9. Given(merged') /\ NoCall.pc = "idle" /\ Given(NoCall.number)
  BY <1>3 DEF PInv, NoCall, Given
<1> QED
  BY <1>3, <1>7, <1>8, <1>9, RequestPInv DEF Return

(* find_pull_requests, the reads of an assessment, and what begins with a     *)
(* record: a request holds no number but one that GitHub gave                 *)
LEMMA ReadsPInv ==
  ASSUME IInv, PInv, IInv', NEW c \in Calls,
         \/ \E k \in ProposalKeys : ReconcilePullRequest(c, k)
         \/ FindPullRequests(c) \/ AssessPull(c) \/ AssessChecks(c)
  PROVE  PInv'
<1>1. UNCHANGED <<approval, merged, proposal, pulls>>
  BY DEF ReconcilePullRequest, FindPullRequests, AssessPull, AssessChecks, records, github
<1>2. call[c] \in CallLike /\ Given(call[c].number)
  BY DEF IInv, Typed, PInv
<1>3. ASSUME NEW k \in ProposalKeys, ReconcilePullRequest(c, k) PROVE PInv'
  <2> DEFINE x == [NoCall EXCEPT !.pc = "finding", !.key = k]
  <2>1. x.pc = "finding" /\ Given(x.number) /\ call' = [call EXCEPT ![c] = x]
    BY <1>3 DEF NoCall, Given, ReconcilePullRequest
  <2> HIDE DEF x
  <2> QED
    BY <1>1, <2>1, GoesOnPInv
<1>4. ASSUME NEW n \in DOMAIN pulls, call' = [call EXCEPT ![c].pc = "created", ![c].number = n] PROVE PInv'
  <2> DEFINE x == [call[c] EXCEPT !.pc = "created", !.number = n]
  <2>1. x.pc = "created" /\ Given(x.number) /\ call' = [call EXCEPT ![c] = x]
    BY <1>2, <1>4 DEF CallLike, Given
  <2> HIDE DEF x
  <2> QED
    BY <1>1, <2>1, GoesOnPInv
<1>5. ASSUME NEW pc \in {"assess_checks", "assessed"}, NEW good,
             call' = [call EXCEPT ![c].pc = pc, ![c].good = good]
      PROVE  PInv'
  <2> DEFINE x == [call[c] EXCEPT !.pc = pc, !.good = good]
  <2>1. x.pc = pc /\ x.number = call[c].number /\ call' = [call EXCEPT ![c] = x]
    BY <1>2, <1>5 DEF CallLike
  <2> HIDE DEF x
  <2> QED
    BY <1>1, <1>2, <2>1, GoesOnPInv
<1>6. CASE FindPullRequests(c)
  <2>1. CASE Goto(c, "none_found")
    BY <1>1, <2>1, GotoPInv
  <2>2. CASE Return(c)
    BY <1>1, <2>2, ReturnPInv
  <2> QED
    BY <1>4, <1>6, <2>1, <2>2 DEF FindPullRequests
<1>7. CASE AssessPull(c) \/ AssessChecks(c)
  BY <1>5, <1>7 DEF AssessPull, AssessChecks
<1> QED
  BY <1>3, <1>6, <1>7

(* assess_merge_readiness and confirm_pull_request_merged, from a bound proposal *)
LEMMA BoundPInv ==
  ASSUME IInv, PInv, IInv', NEW c \in Calls, NEW k \in ProposalKeys,
         \/ \E a \in AssessmentKeys : AssessMergeReadiness(c, k, a)
         \/ \E a \in AssessmentKeys, f \in ConfirmationKeys : ConfirmPullRequestMerged(c, k, a, f)
  PROVE  PInv'
<1>1. proposal[k] # None /\ UNCHANGED <<approval, merged, proposal, pulls>>
  BY DEF AssessMergeReadiness, ConfirmPullRequestMerged, Status, github
<1>2. Given(proposal[k].pull_number)
  BY <1>1 DEF PInv
<1>3. PICK pc \in {"assess_pull", "confirming"}, key \in AssessmentKeys \cup ConfirmationKeys :
        call' = [call EXCEPT ![c] = [NoCall EXCEPT !.pc = pc, !.key = key, !.number = proposal[k].pull_number]]
  BY DEF AssessMergeReadiness, ConfirmPullRequestMerged
<1> DEFINE x == [NoCall EXCEPT !.pc = pc, !.key = key, !.number = proposal[k].pull_number]
<1>4. x.pc = pc /\ x.number = proposal[k].pull_number
  BY DEF NoCall
<1>5. call' = [call EXCEPT ![c] = x]
  BY <1>3
<1> HIDE DEF x
<1> QED
  BY <1>1, <1>2, <1>4, <1>5, GoesOnPInv

(* _complete_merge_confirmation: the merge recorded is the one that was read *)
LEMMA CompletePInv ==
  ASSUME IInv, PInv, IInv', NEW c \in Calls, CompleteMergeConfirmation(c)
  PROVE  PInv'
<1>1. UNCHANGED <<approval, proposal, pulls>>
  BY DEF CompleteMergeConfirmation, github
<1>2. CASE Goto(c, "confirm_failed") /\ UNCHANGED merged
  BY <1>1, <1>2, GotoPInv
<1>3. CASE Return(c) /\ merged' = call[c].number
  <2>1. Given(merged') /\ NoCall.pc = "idle" /\ Given(NoCall.number)
    BY <1>3 DEF PInv, NoCall, Given
  <2>2. \A j \in ProposalKeys : proposal'[j] # None => Given(proposal'[j].pull_number)
    BY <1>1 DEF PInv
  <2> QED
    BY <1>1, <1>3, <2>1, <2>2, RequestPInv DEF Return
<1> QED
  BY <1>2, <1>3 DEF CompleteMergeConfirmation

(* Steps of humans and of GitHub on its own, which add no pull request *)
LEMMA OthersPInv ==
  ASSUME IInv, PInv, IInv', UNCHANGED <<call, proposal, merged>>, Len(pulls') = Len(pulls),
         approval' \in {"NULL", "APPROVED", "REJECTED"}
  PROVE  PInv'
<1>1. OnePoster' /\ \A c \in Calls : Posts(c)' => Posts(c) /\ call'[c].key = call[c].key
  BY DEF PInv, OnePoster, Posts
<1>2. /\ Given(merged') /\ \A c \in Calls : Given(call'[c].number)
      /\ \A k \in ProposalKeys : proposal'[k] # None => Given(proposal'[k].pull_number)
  BY DEF PInv
<1> QED
  BY <1>1, <1>2, NobodyPosts

LEMMA NextPInv == IInv /\ PInv /\ [Next]_vars => PInv'
<1> SUFFICES ASSUME IInv, PInv, [Next]_vars PROVE PInv'
  OBVIOUS
<1>1. IInv'
  BY NextIInv
<1>2. ASSUME NEW c \in Calls, CallStep(c) PROVE PInv'
  <2>1. CASE \E k \in ProposalKeys : ProposePullRequest(c, k)
    BY <1>1, <2>1, ProposePInv
  <2>2. CASE ReadBranchHead(c)
    <3>1. Posts(c) /\ UNCHANGED <<approval, merged, proposal, pulls>>
      BY <2>2 DEF ReadBranchHead, Posts, records, github
    <3> QED
      BY <1>1, <2>2, <3>1, GotoPInv DEF ReadBranchHead
  <2>3. CASE \E answered \in BOOLEAN : PostPullRequest(c, answered)
    BY <1>1, <2>3, PostPInv
  <2>4. CASE MarkPullRequestUnknown(c) \/ CompletePullRequest(c) \/ RecordNotFound(c)
    BY <1>1, <2>4, ProposalEndsPInv
  <2>5. CASE \/ \E k \in ProposalKeys : ReconcilePullRequest(c, k)
             \/ FindPullRequests(c) \/ AssessPull(c) \/ AssessChecks(c)
    BY <1>1, <2>5, ReadsPInv
  <2>6. CASE \E k \in ProposalKeys, a \in AssessmentKeys : AssessMergeReadiness(c, k, a)
    BY <1>1, <2>6, BoundPInv
  <2>7. CASE \E k \in ProposalKeys, a \in AssessmentKeys, f \in ConfirmationKeys :
               ConfirmPullRequestMerged(c, k, a, f)
    BY <1>1, <2>7, BoundPInv
  <2>8. CASE \/ MarkReadinessFailed(c) \/ RecordMergeReadiness(c)
             \/ MarkMergeConfirmationFailed(c) \/ Crash(c)
    <3>1. Return(c) /\ UNCHANGED <<approval, merged, proposal, pulls>>
      BY <2>8 DEF MarkReadinessFailed, RecordMergeReadiness, MarkMergeConfirmationFailed, Crash, records, github
    <3> QED
      BY <1>1, <3>1, ReturnPInv
  <2>9. CASE ReadMerge(c)
    <3>1. UNCHANGED <<approval, merged, proposal, pulls>>
      BY <2>9 DEF ReadMerge, records, github
    <3> QED
      BY <1>1, <2>9, <3>1, GotoPInv DEF ReadMerge
  <2>10. CASE CompleteMergeConfirmation(c)
    BY <1>1, <2>10, CompletePInv
  <2> QED
    BY <1>2, <2>1, <2>2, <2>3, <2>4, <2>5, <2>6, <2>7, <2>8, <2>9, <2>10 DEF CallStep
<1>3. approval \in {"NULL", "APPROVED", "REJECTED"} /\ pulls \in Seq(Pull) /\ pulls' \in Seq(Pull)
  BY <1>1 DEF PInv, IInv, Typed
<1>4. CASE CancelWorkflow \/ \E decision \in {"APPROVED", "REJECTED"} : ApproveMerge(decision)
  <2>1. /\ UNCHANGED <<call, proposal, merged>> /\ Len(pulls') = Len(pulls)
        /\ approval' \in {"NULL", "APPROVED", "REJECTED"}
    BY <1>3, <1>4 DEF CancelWorkflow, ApproveMerge, records, github
  <2> QED
    BY <1>1, <2>1, OthersPInv
<1>5. CASE \/ \E revision \in Revisions : Push(revision)
           \/ \E n \in DOMAIN pulls : PullChanges(n)
  <2>1. DOMAIN pulls' = DOMAIN pulls
    BY <1>3, <1>5 DEF Push, PullChanges
  <2>2. Len(pulls') = Len(pulls)
    BY <1>3, <2>1
  <2>3. UNCHANGED <<approval, call, proposal, merged>>
    BY <1>5 DEF Push, PullChanges, records
  <2> QED
    BY <1>1, <1>3, <2>2, <2>3, OthersPInv
<1>6. CASE UNCHANGED vars
  BY <1>1, <1>3, <1>6, OthersPInv DEF vars
<1> QED
  BY <1>2, <1>4, <1>5, <1>6 DEF Next

(* Records keep to their tables for any number of requests and keys, and no   *)
(* key opens two pull requests: whatever answers are lost, however often the  *)
(* outcome is reconciled, GitHub has at most one per idempotency key          *)
(* (propose_pull_request commits its intent before it posts, and posts once). *)
THEOREM TypeCorrect == Spec => []TypeOK
<1>1. Spec => [](IInv /\ PInv)
  BY InitIInv, InitPInv, NextIInv, NextPInv, PTL DEF Spec
<1>2. IInv /\ PInv => TypeOK
  <2> SUFFICES ASSUME IInv, PInv PROVE TypeOK
    OBVIOUS
  <2>1. pulls \in Seq(Pull) /\ Len(pulls) <= Cardinality(ProposalKeys) /\ Cardinality(ProposalKeys) \in Nat
    <3>1. pulls \in Seq(Pull) /\ Len(pulls) <= Cardinality(Spent)
      BY DEF IInv, Typed, PInv
    <3>2. Len(pulls) \in Nat /\ Cardinality(ProposalKeys) \in Nat
      BY <3>1, KeysAssumption, FS_CardinalityType
    <3> QED
      BY <3>1, <3>2, SpentFinite
  <2>2. \A n : Given(n) => n \in Numbers \cup {0}
    BY <2>1 DEF Given, Numbers
  <2>3. proposal \in [ProposalKeys -> Proposal \cup {None}]
    <3>1. /\ proposal \in [ProposalKeys -> ProposalLike \cup {None}]
          /\ \A k \in ProposalKeys : proposal[k] # None => proposal[k].pull_number \in Numbers \cup {0}
      BY <2>2 DEF IInv, Typed, PInv
    <3>2. \A k \in ProposalKeys : proposal[k] \in Proposal \cup {None}
      BY <3>1 DEF ProposalLike, Proposal
    <3> QED
      BY <3>1, <3>2
  <2>4. call \in [Calls -> Call]
    <3>1. call \in [Calls -> CallLike] /\ \A c \in Calls : call[c].number \in Numbers \cup {0}
      BY <2>2 DEF IInv, Typed, PInv
    <3>2. \A c \in Calls : call[c] \in Call
      BY <3>1 DEF CallLike, Call
    <3> QED
      BY <3>1, <3>2
  <2>5. merged \in Numbers \cup {0} /\ approval \in {"NULL", "APPROVED", "REJECTED"}
    BY <2>2 DEF PInv
  <2> QED
    BY <2>3, <2>4, <2>5 DEF IInv, Typed, TypeOK
<1> QED
  BY <1>1, <1>2, PTL
=============================================================================
