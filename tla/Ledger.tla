------------------------------- MODULE Ledger -------------------------------
(* The records every command shares: the audit chain of a workflow (audit.py, audit_export.py),  *)
(* the idempotency records of create_workflow and the check runs GitHub delivers.  Transactions  *)
(* are modelled statement by statement at READ COMMITTED, because these three read first and     *)
(* rely on a unique constraint when they commit; only some commands lock the workflow row.       *)
EXTENDS Integers, Sequences, FiniteSets, SequencesExt

CONSTANTS
  Transactions, \* database sessions
  Workflows,    \* identifiers new_id hands out
  Keys,         \* (principal, idempotency key) of create_workflow
  Digests,      \* request contents
  Deliveries,   \* X-GitHub-Delivery
  CheckRuns,    \* check runs, each with its payload
  MaxEvents,    \* bound on the events of a workflow
  None

ASSUME MaxEventsAssumption == MaxEvents \in Nat \ {0, 1}

(* NULL is no identifier and no idempotency record *)
ASSUME NoneAssumption ==
  /\ None \notin Workflows /\ None \notin Keys /\ None \notin Deliveries
  /\ None \notin [digest : Digests, workflow : Workflows]

VARIABLES
  chain,     \* workflow -> rows of audit_events; empty before the workflow exists
  keys,      \* key -> None or [digest, workflow]: idempotency_records
  evidence,  \* rows of ci_check_evidence
  lock,      \* workflow -> None or the transaction with the row locked
  tx,        \* the transactions in progress
  exported,  \* workflow -> None or the last bundle exported
  answers    \* what create_workflow returned: <<key, digest, workflow>>

vars == <<chain, keys, evidence, lock, tx, exported, answers>>

Event == [type : {"workflow.created", "workflow.transition", "ci.check_recorded", "command"},
          of : Deliveries \cup {None}]

GENESIS_HASH == <<>>

(* The digest of an event: injective in what it covers *)
EventHash(sequence, event, previous) == <<sequence, event, previous>>

Created == {w \in Workflows : chain[w] # {}}

CheckEvidence == [delivery : Deliveries, run : CheckRuns, workflow : Workflows]

TxState == {"idle", "creating", "delivering", "matched", "open", "exporting", "collecting"}

NoTx == [pc |-> "idle", workflow |-> None, key |-> None, digest |-> None, delivery |-> None,
         run |-> None, rows |-> {}]

Begin(t, new) == tx' = [tx EXCEPT ![t] = new]

(* COMMIT and ROLLBACK give the row locks back *)
Release(t) == lock' = [w \in Workflows |-> IF lock[w] = t THEN None ELSE lock[w]]

-----------------------------------------------------------------------------
(* The audit chain *)

Latest(rows) == CHOOSE row \in rows : \A other \in rows : other.sequence <= row.sequence

(* Mutant: the first event of a workflow is numbered from zero *)
NextRowFromZero(rows, event) ==
  LET sequence == IF rows = {} THEN 0 ELSE Latest(rows).sequence + 1
      previous == IF rows = {} THEN GENESIS_HASH ELSE Latest(rows).event_hash
  IN  [sequence |-> sequence, event |-> event, previous_hash |-> previous,
       event_hash |-> EventHash(sequence, event, previous)]

(* The row append_audit_event adds after these *)
NextRow(rows, event) ==
  LET sequence == IF rows = {} THEN 1 ELSE Latest(rows).sequence + 1
      previous == IF rows = {} THEN GENESIS_HASH ELSE Latest(rows).event_hash
  IN  [sequence |-> sequence, event |-> event, previous_hash |-> previous,
       event_hash |-> EventHash(sequence, event, previous)]

(* The rows ordered by sequence *)
InSequence(rows) ==
  CHOOSE events \in [1 .. Cardinality(rows) -> rows] :
    /\ IsInjective(events)
    /\ \A i, j \in 1 .. Cardinality(rows) : i < j => events[i].sequence <= events[j].sequence

(* verify_audit_chain, and the same recomputation in verify_audit_export *)
VerifyAuditChain(rows) ==
  LET events == InSequence(rows)
  IN  /\ rows # {}
      /\ \A n \in DOMAIN events :
           /\ events[n].sequence = n
           /\ events[n].previous_hash = IF n = 1 THEN GENESIS_HASH ELSE events[n - 1].event_hash
           /\ events[n].event_hash = EventHash(n, events[n].event, events[n].previous_hash)

(* append_audit_event: the latest event is read without a lock, from what is committed and what  *)
(* the transaction itself has flushed.                                                           *)
AppendAuditEvent(t, event) ==
  LET rows == chain[tx[t].workflow] \cup tx[t].rows
      row == NextRow(rows, event)
  IN  /\ row.sequence <= MaxEvents
      /\ tx' = [tx EXCEPT ![t].rows = @ \cup {row}, ![t].pc = "open"]
      /\ UNCHANGED <<chain, keys, evidence, lock, exported, answers>>

(* A command on a workflow: some lock its row first, some only read it *)
OpenLocked(t, w) ==
  /\ tx[t].pc = "idle" /\ w \in Created /\ lock[w] = None
  /\ lock' = [lock EXCEPT ![w] = t]
  /\ Begin(t, [NoTx EXCEPT !.pc = "open", !.workflow = w])
  /\ UNCHANGED <<chain, keys, evidence, exported, answers>>

OpenUnlocked(t, w) ==
  /\ tx[t].pc = "idle" /\ w \in Created
  /\ Begin(t, [NoTx EXCEPT !.pc = "open", !.workflow = w])
  /\ UNCHANGED <<chain, keys, evidence, lock, exported, answers>>

AppendCommandEvent(t) ==
  /\ tx[t].pc = "open" /\ tx[t].key = None /\ tx[t].delivery = None
  /\ AppendAuditEvent(t, [type |-> "command", of |-> None])

-----------------------------------------------------------------------------
(* create_workflow *)

(* The idempotency record is read; found, it answers or raises, and nothing is written *)
LookupKey(t, k, d) ==
  /\ tx[t].pc = "idle"
  /\ \/ /\ keys[k] = None
        /\ Begin(t, [NoTx EXCEPT !.pc = "creating", !.key = k, !.digest = d])
        /\ UNCHANGED answers
     \/ /\ keys[k] # None /\ keys[k].digest = d
        /\ answers' = answers \cup {<<k, d, keys[k].workflow>>}
        /\ UNCHANGED tx
  /\ UNCHANGED <<chain, keys, evidence, lock, exported>>

(* The workflow row under a new identifier, its creation event and its first transition *)
InsertWorkflow(t) ==
  /\ tx[t].pc = "creating"
  /\ \E w \in Workflows \ Created :
       /\ \A u \in Transactions : tx[u].workflow # w
       /\ LET first == NextRow({}, [type |-> "workflow.created", of |-> None])
              second == NextRow({first}, [type |-> "workflow.transition", of |-> None])
          IN  tx' = [tx EXCEPT ![t].pc = "open", ![t].workflow = w, ![t].rows = {first, second}]
  /\ UNCHANGED <<chain, keys, evidence, lock, exported, answers>>

-----------------------------------------------------------------------------
(* ingest_ci_check_evidence *)

(* A delivery that is already recorded is answered or refused, and nothing is written *)
LookupDelivery(t, d, r) ==
  /\ tx[t].pc = "idle"
  /\ \A row \in evidence : row.delivery # d
  /\ Begin(t, [NoTx EXCEPT !.pc = "delivering", !.delivery = d, !.run = r])
  /\ UNCHANGED <<chain, keys, evidence, lock, exported, answers>>

(* The one workflow whose candidate the check ran on is locked *)
MatchWorkflow(t) ==
  /\ tx[t].pc = "delivering"
  /\ \E w \in Created :
       /\ lock[w] = None
       /\ lock' = [lock EXCEPT ![w] = t]
       /\ tx' = [tx EXCEPT ![t].pc = "matched", ![t].workflow = w]
  /\ UNCHANGED <<chain, keys, evidence, exported, answers>>

(* A run recorded by another delivery, or by this one in the meantime, is refused *)
InsertEvidence(t) ==
  /\ tx[t].pc = "matched"
  /\ \A row \in evidence : row.run # tx[t].run
  /\ AppendAuditEvent(t, [type |-> "ci.check_recorded", of |-> tx[t].delivery])

-----------------------------------------------------------------------------
(* The end of a transaction *)

(* What the transaction would write besides its events *)
NewEvidence(t) ==
  IF tx[t].delivery = None THEN {}
  ELSE {[delivery |-> tx[t].delivery, run |-> tx[t].run, workflow |-> tx[t].workflow]}

(* Mutant: no unique constraint on (workflow, sequence) *)
UniqueButSequence(t) ==
  /\ tx[t].key # None => keys[tx[t].key] = None
  /\ \A new \in NewEvidence(t), row \in evidence : new.delivery # row.delivery /\ new.run # row.run

(* Mutant: no unique constraint on (principal, command, key) *)
UniqueButKey(t) ==
  /\ \A new \in tx[t].rows, row \in chain[tx[t].workflow] : new.sequence # row.sequence
  /\ \A new \in NewEvidence(t), row \in evidence : new.delivery # row.delivery /\ new.run # row.run

(* Mutant: no unique constraint on the delivery and the check run *)
UniqueButEvidence(t) ==
  /\ \A new \in tx[t].rows, row \in chain[tx[t].workflow] : new.sequence # row.sequence
  /\ tx[t].key # None => keys[tx[t].key] = None

(* The unique constraints of the tables it writes *)
Unique(t) ==
  /\ \A new \in tx[t].rows, row \in chain[tx[t].workflow] : new.sequence # row.sequence
  /\ tx[t].key # None => keys[tx[t].key] = None
  /\ \A new \in NewEvidence(t), row \in evidence : new.delivery # row.delivery /\ new.run # row.run

(* Effects and events are one transaction *)
Commit(t) ==
  LET x == tx[t]
  IN  /\ x.pc = "open" /\ x.rows # {}
      /\ Unique(t)
      /\ chain' = [chain EXCEPT ![x.workflow] = @ \cup x.rows]
      /\ evidence' = evidence \cup NewEvidence(t)
      /\ IF x.key = None THEN UNCHANGED <<keys, answers>>
         ELSE /\ keys' = [keys EXCEPT ![x.key] = [digest |-> x.digest, workflow |-> x.workflow]]
              /\ answers' = answers \cup {<<x.key, x.digest, x.workflow>>}
      /\ Begin(t, NoTx)
      /\ Release(t)
      /\ UNCHANGED exported

(* An IntegrityError, a refusal, or the death of the process *)
Rollback(t) ==
  /\ tx[t].pc # "idle"
  /\ Begin(t, NoTx)
  /\ Release(t)
  /\ UNCHANGED <<chain, keys, evidence, exported, answers>>

-----------------------------------------------------------------------------
(* build_audit_export: the chain is verified, read again, then the checks are read *)

ExportVerify(t, w) ==
  /\ tx[t].pc = "idle"
  /\ VerifyAuditChain(chain[w])
  /\ Begin(t, [NoTx EXCEPT !.pc = "exporting", !.workflow = w])
  /\ UNCHANGED <<chain, keys, evidence, lock, exported, answers>>

ExportEvents(t) ==
  /\ tx[t].pc = "exporting"
  /\ tx' = [tx EXCEPT ![t].pc = "collecting", ![t].rows = chain[tx[t].workflow]]
  /\ UNCHANGED <<chain, keys, evidence, lock, exported, answers>>

ExportBundle(t) ==
  LET w == tx[t].workflow
      events == InSequence(tx[t].rows)
  IN  /\ tx[t].pc = "collecting"
      /\ exported' = [exported EXCEPT ![w] =
           [event_count |-> Len(events), head_event_hash |-> Last(events).event_hash,
            events |-> tx[t].rows, ci_checks |-> {row \in evidence : row.workflow = w}]]
      /\ Begin(t, NoTx)
      /\ UNCHANGED <<chain, keys, evidence, lock, answers>>

VerifyAuditExport(bundle) ==
  /\ VerifyAuditChain(bundle.events)
  /\ bundle.event_count = Cardinality(bundle.events)
  /\ bundle.head_event_hash = Last(InSequence(bundle.events)).event_hash

-----------------------------------------------------------------------------
Init ==
  /\ chain = [w \in Workflows |-> {}]
  /\ keys = [k \in Keys |-> None]
  /\ evidence = {}
  /\ lock = [w \in Workflows |-> None]
  /\ tx = [t \in Transactions |-> NoTx]
  /\ exported = [w \in Workflows |-> None]
  /\ answers = {}

Next ==
  \E t \in Transactions :
    \/ \E k \in Keys, d \in Digests : LookupKey(t, k, d)
    \/ InsertWorkflow(t)
    \/ \E w \in Workflows : OpenLocked(t, w) \/ OpenUnlocked(t, w) \/ ExportVerify(t, w)
    \/ AppendCommandEvent(t)
    \/ \E d \in Deliveries, r \in CheckRuns : LookupDelivery(t, d, r)
    \/ MatchWorkflow(t) \/ InsertEvidence(t)
    \/ Commit(t) \/ Rollback(t)
    \/ ExportEvents(t) \/ ExportBundle(t)

Spec == Init /\ [][Next]_vars

-----------------------------------------------------------------------------
(* Properties *)

(* Type correctness; the rows of a chain are those append_audit_event builds *)
TypeOK ==
  /\ \A w \in Workflows : \A row \in chain[w] :
       /\ row.sequence \in 1..MaxEvents /\ row.event \in Event
       /\ row.event_hash = EventHash(row.sequence, row.event, row.previous_hash)
  /\ \A k \in Keys : keys[k] = None \/ keys[k] \in [digest : Digests, workflow : Workflows]
  /\ evidence \subseteq CheckEvidence
  /\ lock \in [Workflows -> Transactions \cup {None}]
  /\ \A t \in Transactions : tx[t].pc \in TxState
  /\ answers \subseteq Keys \X Digests \X Workflows

(* The audit chain of every workflow verifies, whichever commands append to it at the same time, *)
(* locked or not; so does every bundle exported meanwhile, and it stays a part of the chain.     *)
AuditChainVerifies ==
  \A w \in Workflows :
    /\ w \in Created => VerifyAuditChain(chain[w])
    /\ exported[w] # None => VerifyAuditExport(exported[w]) /\ exported[w].events \subseteq chain[w]

(* One idempotency key makes one workflow: whoever sent it, however often and at the same time,  *)
(* got the same workflow for the same request, and no workflow is left that no key answers for.  *)
OneWorkflowPerKey ==
  /\ \A a, b \in answers : a[1] = b[1] => a = b
  /\ \A w \in Created : \E k \in Keys : keys[k] # None /\ keys[k].workflow = w

(* A check run is recorded once however often it is delivered, and every record has one event    *)
(* in the chain of the workflow it names.                                                        *)
EvidenceRecordedOnce ==
  /\ \A a, b \in evidence : a.delivery = b.delivery \/ a.run = b.run => a = b
  /\ \A w \in Workflows :
       Cardinality({row \in chain[w] : row.event.type = "ci.check_recorded"})
         = Cardinality({row \in evidence : row.workflow = w})

LedgerSymmetry ==
  Permutations(Transactions) \cup Permutations(Workflows) \cup Permutations(Keys)
    \cup Permutations(Digests) \cup Permutations(Deliveries) \cup Permutations(CheckRuns)
=============================================================================
