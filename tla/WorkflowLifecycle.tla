-------------------------- MODULE WorkflowLifecycle --------------------------
(***************************************************************************)
(* What the control plane promises about workflows, without their tasks,   *)
(* leases, attempts or workers: docs/workflow.md as a state machine.       *)
(*                                                                         *)
(*  - The delivery stages come in one fixed order, none skipped.           *)
(*  - A candidate revision appears exactly when implementation ends and    *)
(*    never changes afterwards.                                            *)
(*  - A blocked workflow resumes, if it may resume at all, in the stage it *)
(*    was blocked in; contained input resumes in PLANNING.                 *)
(*  - A merge decision is about the one candidate revision.                *)
(*  - version counts the transitions, so an unchanged version means an     *)
(*    unchanged state.                                                     *)
(*                                                                         *)
(* WorkflowTasks is shown to implement this specification.                 *)
(***************************************************************************)
EXTENDS WorkflowStates, Naturals

CONSTANTS Workflows, Revisions, None

VARIABLES
  state,       \* workflow |-> its state, None before it exists
  version,     \* workflow |-> 1 + the transitions it has made
  candidate,   \* workflow |-> candidate revision or None
  hold,        \* workflow |-> where a blocked workflow may resume, None: nowhere
  approved     \* workflow |-> revision a human approved for merge, or None

vars == <<state, version, candidate, hold, approved>>

(* The stage that follows each stage, and the transitions that takes *)
Successor ==
  [s \in WorkState |->
    CASE s = "PLANNING"            -> "ARCHITECTURE_REVIEW"
      [] s = "ARCHITECTURE_REVIEW" -> "IMPLEMENTING"
      [] s = "IMPLEMENTING"        -> "TESTING"
      [] s = "TESTING"             -> "SECURITY_REVIEW"
      [] s = "SECURITY_REVIEW"     -> "CODE_REVIEW"
      [] s = "CODE_REVIEW"         -> "AWAITING_HUMAN_APPROVAL"]

Steps(s) == IF s = "ARCHITECTURE_REVIEW" THEN 2 ELSE 1

Init ==
  /\ state = [w \in Workflows |-> None]
  /\ version = [w \in Workflows |-> 0]
  /\ candidate = [w \in Workflows |-> None]
  /\ hold = [w \in Workflows |-> None]
  /\ approved = [w \in Workflows |-> None]

MoveBy(w, target, n) ==
  /\ state' = [state EXCEPT ![w] = target]
  /\ version' = [version EXCEPT ![w] = @ + n]

Move(w, target) == MoveBy(w, target, 1) /\ TransitionAllowed(state[w], target)

Create(w) ==
  /\ state[w] = None
  /\ \/ MoveBy(w, "PLANNING", 2) /\ UNCHANGED hold
     \/ MoveBy(w, "BLOCKED", 2) /\ hold' = [hold EXCEPT ![w] = "PLANNING"]
  /\ UNCHANGED <<candidate, approved>>

Advance(w) ==
  /\ state[w] \in WorkState
  /\ MoveBy(w, Successor[state[w]], Steps(state[w]))
  /\ IF state[w] = "IMPLEMENTING"
     THEN \E revision \in Revisions : candidate[w] = None /\ candidate' = [candidate EXCEPT ![w] = revision]
     ELSE UNCHANGED candidate
  /\ UNCHANGED <<hold, approved>>

(* One sweep blocks every workflow whose lease ran out, all in one step *)
Block(ws) ==
  /\ \A w \in ws : state[w] \in WorkState /\ TransitionAllowed(state[w], "BLOCKED")
  /\ state' = [w \in Workflows |-> IF w \in ws THEN "BLOCKED" ELSE state[w]]
  /\ version' = [w \in Workflows |-> IF w \in ws THEN version[w] + 1 ELSE version[w]]
  /\ \E resumable \in BOOLEAN :
       hold' = [w \in Workflows |-> IF w \notin ws THEN hold[w] ELSE IF resumable THEN state[w] ELSE None]
  /\ UNCHANGED <<candidate, approved>>

Resume(w) ==
  /\ state[w] = "BLOCKED"
  /\ hold[w] # None
  /\ Move(w, hold[w])
  /\ hold' = [hold EXCEPT ![w] = None]
  /\ UNCHANGED <<candidate, approved>>

End(w) ==
  /\ \E target \in {"FAILED", "REJECTED", "CANCELLED"} :
       /\ target = "FAILED" => state[w] \in WorkState \cup {"BLOCKED"}
       /\ Move(w, target)
  /\ hold' = [hold EXCEPT ![w] = None]
  /\ UNCHANGED <<candidate, approved>>

Approve(w) ==
  /\ state[w] = "AWAITING_HUMAN_APPROVAL"
  /\ candidate[w] # None
  /\ Move(w, "APPROVED")
  /\ approved' = [approved EXCEPT ![w] = candidate[w]]
  /\ UNCHANGED <<candidate, hold>>

Next ==
  \/ \E w \in Workflows :
       Create(w) \/ Advance(w) \/ Resume(w) \/ Approve(w) \/ (state[w] # None /\ End(w))
  \/ \E ws \in (SUBSET Workflows) \ {{}} : Block(ws)

Spec == Init /\ [][Next]_vars
=============================================================================
