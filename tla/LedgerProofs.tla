---------------------------- MODULE LedgerProofs ----------------------------
(***************************************************************************)
(* Proofs about Ledger, for any number of transactions, workflows, keys,   *)
(* deliveries and events.                                                  *)
(*                                                                         *)
(* The audit chain is written by transactions that read its latest event   *)
(* without a lock.  What keeps it a chain is the unique constraint on      *)
(* (workflow, sequence): the events a transaction has flushed either clash *)
(* with an event that was committed meanwhile, and it cannot commit, or    *)
(* they still continue the chain (Continues).                              *)
(***************************************************************************)
EXTENDS Ledger, FiniteSetTheorems, TLAPS

(* A chain of n events: numbered 1 .. n, each once, each with the hash of the one before *)
LinkedTo(rows, n) ==
  /\ \A row \in rows : /\ row.sequence \in 1 .. n
                       /\ row.event_hash = EventHash(row.sequence, row.event, row.previous_hash)
                       /\ row.sequence = 1 => row.previous_hash = GENESIS_HASH
  /\ \A m \in 1 .. n : \E row \in rows : row.sequence = m
  /\ \A a, b \in rows : a.sequence = b.sequence => a = b
  /\ \A a, b \in rows : b.sequence = a.sequence + 1 => b.previous_hash = a.event_hash

Linked(rows) == \E n \in Nat : LinkedTo(rows, n)

(* What a transaction has flushed: it clashes with what is committed, or continues it *)
Clash(rows, committed) == \E new \in rows, row \in committed : new.sequence = row.sequence

Continues(rows, committed) == Clash(rows, committed) \/ Linked(committed \cup rows)

TxRecord(rows) ==
  [pc : TxState, workflow : Workflows \cup {None}, key : Keys \cup {None}, digest : Digests \cup {None},
   delivery : Deliveries \cup {None}, run : CheckRuns \cup {None}, rows : {rows}]

Shape ==
  /\ chain = [w \in Workflows |-> chain[w]]
  /\ keys \in [Keys -> [digest : Digests, workflow : Workflows] \cup {None}]
  /\ tx = [t \in Transactions |-> tx[t]]
  /\ \A t \in Transactions : tx[t] \in TxRecord(tx[t].rows)
  /\ exported = [w \in Workflows |-> exported[w]]

IsCheck(row) == row.event.type = "ci.check_recorded"

(* What a transaction in progress holds *)
Fits(x) ==
  /\ x.pc = "creating" => x.key \in Keys /\ x.digest \in Digests /\ x.delivery = None
  /\ x.pc \in {"delivering", "matched"} => x.delivery \in Deliveries /\ x.key = None /\ x.rows = {}
  /\ x.pc \in {"matched", "exporting", "collecting"} => x.workflow \in Created
  /\ x.pc = "open" =>
       /\ x.workflow \in Workflows /\ Continues(x.rows, chain[x.workflow])
       /\ IF x.key = None THEN x.workflow \in Created ELSE x.digest \in Digests
       /\ IF x.delivery = None THEN \A row \in x.rows : ~IsCheck(row)
          ELSE \E row \in x.rows : x.rows = {row} /\ IsCheck(row)
  /\ x.pc = "collecting" => x.rows \subseteq chain[x.workflow] /\ x.rows # {} /\ Linked(x.rows)

(* The chains, and the bundles exported from them *)
ChainsFit ==
  \A w \in Workflows :
    /\ Linked(chain[w])
    /\ exported[w] # None =>
         /\ exported[w].events \subseteq chain[w] /\ exported[w].events # {} /\ Linked(exported[w].events)
         /\ exported[w].event_count = Len(InSequence(exported[w].events))
         /\ exported[w].head_event_hash = Last(InSequence(exported[w].events)).event_hash

(* An answer is what the key's record says *)
KeysFit ==
  /\ \A a \in answers : \E k \in Keys : keys[k] # None /\ a = <<k, keys[k].digest, keys[k].workflow>>
  /\ \A w \in Created : \E k \in Keys : keys[k] # None /\ keys[k].workflow = w

Checks(w) == {row \in chain[w] : IsCheck(row)}

EvidenceOf(w) == {row \in evidence : row.workflow = w}

EvidenceFits ==
  /\ \A a, b \in evidence : a.delivery = b.delivery \/ a.run = b.run => a = b
  /\ \A w \in Workflows : /\ IsFiniteSet(Checks(w)) /\ IsFiniteSet(EvidenceOf(w))
                           /\ Cardinality(Checks(w)) = Cardinality(EvidenceOf(w))

IInv == Shape /\ ChainsFit /\ KeysFit /\ EvidenceFits /\ \A t \in Transactions : Fits(tx[t])
-----------------------------------------------------------------------------
(* A chain of n events has n of them *)
LEMMA LinkedCardinality ==
  ASSUME NEW rows, NEW n \in Nat, LinkedTo(rows, n)
  PROVE  IsFiniteSet(rows) /\ Cardinality(rows) = n
<1> DEFINE f == [m \in 1 .. n |-> CHOOSE row \in rows : row.sequence = m]
<1>1. \A m \in 1 .. n : f[m] \in rows /\ f[m].sequence = m
  BY DEF LinkedTo
<1>2. f \in [1 .. n -> rows]
  BY <1>1
<1> HIDE DEF f
<1>3. \A a, b \in 1 .. n : f[a] = f[b] => a = b
  BY <1>1
<1>4. \A row \in rows : row.sequence \in 1 .. n /\ f[row.sequence] = row
  BY <1>1 DEF LinkedTo
<1>5. f \in Bijection(1 .. n, rows)
  BY <1>2, <1>3, <1>4 DEF Bijection, Injection, Surjection, IsInjective
<1>6. ExistsBijection(1 .. n, rows)
  BY <1>5 DEF ExistsBijection
<1>7. IsFiniteSet(1 .. n) /\ Cardinality(1 .. n) = n
  BY FS_Interval
<1> QED
  BY <1>6, <1>7, FS_Bijection

(* The order of the rows of a chain is their numbering *)
LEMMA LinkedOrder ==
  ASSUME NEW rows, NEW n \in Nat, LinkedTo(rows, n)
  PROVE  /\ InSequence(rows) \in [1 .. n -> rows]
         /\ \A i \in 1 .. n : InSequence(rows)[i].sequence = i
<1> DEFINE Ordered(events) ==
             /\ IsInjective(events)
             /\ \A i, j \in 1 .. n : i < j => events[i].sequence <= events[j].sequence
           e == CHOOSE events \in [1 .. n -> rows] : Ordered(events)
<1>1. IsFiniteSet(rows) /\ Cardinality(rows) = n
  BY LinkedCardinality
<1>2. InSequence(rows) = e
  BY <1>1 DEF InSequence
<1>3. \E events \in [1 .. n -> rows] : Ordered(events)
  <2> DEFINE f == [m \in 1 .. n |-> CHOOSE row \in rows : row.sequence = m]
  <2>1. \A m \in 1 .. n : f[m] \in rows /\ f[m].sequence = m
    BY DEF LinkedTo
  <2>2. f \in [1 .. n -> rows]
    BY <2>1
  <2> HIDE DEF f
  <2>3. Ordered(f)
    BY <2>1, <2>2 DEF IsInjective
  <2> QED
    BY <2>2, <2>3
<1>4. e \in [1 .. n -> rows] /\ Ordered(e)
  BY <1>3
<1> HIDE DEF e
<1>5. \A i, j \in 1 .. n : e[i].sequence = e[j].sequence => i = j
  BY <1>4 DEF LinkedTo, IsInjective
<1>6. \A i \in 1 .. n : e[i].sequence \in 1 .. n
  BY <1>4 DEF LinkedTo
<1>7. \A i, j \in 1 .. n : i < j => e[i].sequence < e[j].sequence
  <2> SUFFICES ASSUME NEW i \in 1 .. n, NEW j \in 1 .. n, i < j PROVE e[i].sequence < e[j].sequence
    OBVIOUS
  <2>1. e[i].sequence <= e[j].sequence /\ e[i].sequence # e[j].sequence
    BY <1>4, <1>5
  <2> QED
    BY <1>6, <2>1
<1>8. \A row \in rows : \E i \in 1 .. n : e[i] = row
  <2>1. e \in Injection(1 .. n, rows)
    BY <1>4 DEF Injection
  <2>2. Cardinality(1 .. n) = n
    BY FS_Interval
  <2>3. e \in Surjection(1 .. n, rows)
    BY <1>1, <2>1, <2>2, FS_Injection
  <2> QED
    BY <2>3 DEF Surjection
<1>9. ASSUME NEW i \in 1 .. n PROVE e[i].sequence = i
  <2> DEFINE m == e[i].sequence
             g == [j \in 1 .. i - 1 |-> e[j].sequence]
  <2>1. m \in 1 .. n
    BY <1>6
  <2>2. \A j \in 1 .. i - 1 : j \in 1 .. n /\ j < i
    OBVIOUS
  <2>3. g \in [1 .. i - 1 -> 1 .. m - 1]
    BY <1>6, <1>7, <2>1, <2>2
  <2>4. \A a, b \in 1 .. i - 1 : g[a] = g[b] => a = b
    BY <1>5, <2>2
  <2>5. \A k \in 1 .. m - 1 : \E j \in 1 .. i - 1 : g[j] = k
    <3> SUFFICES ASSUME NEW k \in 1 .. m - 1 PROVE \E j \in 1 .. i - 1 : g[j] = k
      OBVIOUS
    <3>1. k \in 1 .. n
      BY <2>1
    <3>2. PICK row \in rows : row.sequence = k
      BY <3>1 DEF LinkedTo
    <3>3. PICK j \in 1 .. n : e[j] = row
      BY <1>8
    <3>4. e[j].sequence < e[i].sequence
      BY <2>1, <3>2, <3>3
    <3>5. ~(j > i) /\ j # i
      BY <1>6, <1>7, <3>4
    <3>6. j \in 1 .. i - 1
      BY <3>5
    <3> QED
      BY <3>2, <3>3, <3>6
  <2>6. g \in Bijection(1 .. i - 1, 1 .. m - 1)
    BY <2>3, <2>4, <2>5 DEF Bijection, Injection, Surjection, IsInjective
  <2>7. ExistsBijection(1 .. i - 1, 1 .. m - 1)
    BY <2>6 DEF ExistsBijection
  <2>8. /\ IsFiniteSet(1 .. i - 1) /\ Cardinality(1 .. i - 1) = i - 1
        /\ Cardinality(1 .. m - 1) = m - 1
    <3>1. \A k \in 1 .. n : IsFiniteSet(1 .. k - 1) /\ Cardinality(1 .. k - 1) = k - 1
      <4> SUFFICES ASSUME NEW k \in 1 .. n PROVE IsFiniteSet(1 .. k - 1) /\ Cardinality(1 .. k - 1) = k - 1
        OBVIOUS
      <4>1. 1 \in Int /\ k - 1 \in Int
        OBVIOUS
      <4>2. IsFiniteSet(1 .. k - 1) /\ Cardinality(1 .. k - 1) = IF 1 > k - 1 THEN 0 ELSE (k - 1) - 1 + 1
        BY <4>1, FS_Interval
      <4> QED
        BY <4>2
    <3> QED
      BY <2>1, <3>1
  <2>9. Cardinality(1 .. m - 1) = Cardinality(1 .. i - 1)
    BY <2>7, <2>8, FS_Bijection
  <2> QED
    BY <2>1, <2>8, <2>9
<1> QED
  BY <1>2, <1>4, <1>9

(* A chain that has an event verifies, and its order has as many entries as it has rows *)
LEMMA LinkedVerifies ==
  ASSUME NEW rows, Linked(rows), rows # {}
  PROVE  VerifyAuditChain(rows) /\ Len(InSequence(rows)) = Cardinality(rows)
<1>1. PICK n \in Nat : LinkedTo(rows, n)
  BY DEF Linked
<1> DEFINE e == InSequence(rows)
<1>2. e \in [1 .. n -> rows] /\ \A i \in 1 .. n : e[i].sequence = i
  BY <1>1, LinkedOrder
<1> HIDE DEF e
<1>3. DOMAIN e = 1 .. n /\ Len(e) = n
  BY <1>2
<1>4. Cardinality(rows) = n
  BY <1>1, LinkedCardinality
<1>5. ASSUME NEW i \in 1 .. n
      PROVE  /\ e[i].sequence = i
             /\ e[i].previous_hash = IF i = 1 THEN GENESIS_HASH ELSE e[i - 1].event_hash
             /\ e[i].event_hash = EventHash(i, e[i].event, e[i].previous_hash)
  <2>1. e[i] \in rows /\ e[i].sequence = i
    BY <1>2
  <2>2. e[i].event_hash = EventHash(i, e[i].event, e[i].previous_hash)
    BY <1>1, <2>1 DEF LinkedTo
  <2>3. CASE i = 1
    BY <1>1, <2>1, <2>2, <2>3 DEF LinkedTo
  <2>4. CASE i # 1
    <3>1. i - 1 \in 1 .. n
      BY <2>4
    <3>2. e[i - 1] \in rows /\ e[i - 1].sequence = i - 1
      BY <1>2, <3>1
    <3>3. e[i].sequence = e[i - 1].sequence + 1
      BY <2>1, <3>2
    <3>4. e[i].previous_hash = e[i - 1].event_hash
      BY <1>1, <2>1, <3>2, <3>3 DEF LinkedTo
    <3> QED
      BY <2>1, <2>2, <2>4, <3>4
  <2> QED
    BY <2>3, <2>4
<1>6. VerifyAuditChain(rows)
  BY <1>3, <1>5 DEF VerifyAuditChain, e
<1> QED
  BY <1>3, <1>4, <1>6 DEF e

(* append_audit_event continues a chain *)
LEMMA NextRowLinks ==
  ASSUME NEW rows, NEW n \in Nat, LinkedTo(rows, n), NEW event
  PROVE  /\ NextRow(rows, event).sequence = n + 1
         /\ NextRow(rows, event).event = event
         /\ LinkedTo(rows \cup {NextRow(rows, event)}, n + 1)
<1> DEFINE row == NextRow(rows, event)
<1>1. rows = {} <=> n = 0
  BY DEF LinkedTo
<1>2. rows # {} => Latest(rows) \in rows /\ Latest(rows).sequence = n
  <2> SUFFICES ASSUME rows # {} PROVE Latest(rows) \in rows /\ Latest(rows).sequence = n
    OBVIOUS
  <2>1. PICK last \in rows : last.sequence = n
    BY <1>1 DEF LinkedTo
  <2>2. \A other \in rows : other.sequence <= last.sequence
    BY <2>1 DEF LinkedTo
  <2>3. Latest(rows) \in rows /\ \A other \in rows : other.sequence <= Latest(rows).sequence
    BY <2>1, <2>2 DEF Latest
  <2> HIDE DEF Latest
  <2>4. Latest(rows).sequence \in 1 .. n /\ n <= Latest(rows).sequence
    BY <2>1, <2>3 DEF LinkedTo
  <2> QED
    BY <2>3, <2>4
<1>3. /\ row.sequence = n + 1 /\ row.event = event
      /\ row.event_hash = EventHash(row.sequence, row.event, row.previous_hash)
      /\ n = 0 => row.previous_hash = GENESIS_HASH
      /\ n # 0 => row.previous_hash = Latest(rows).event_hash
  <2>1. CASE rows = {}
    BY <1>1, <2>1 DEF NextRow
  <2>2. CASE rows # {}
    BY <1>1, <1>2, <2>2 DEF NextRow
  <2> QED
    BY <2>1, <2>2
<1> HIDE DEF row
<1>4. \A a \in rows : a.sequence \in 1 .. n /\ (a.sequence = n => a.event_hash = Latest(rows).event_hash)
  BY <1>2 DEF LinkedTo
<1>5. LinkedTo(rows \cup {row}, n + 1)
  <2>1. \A a \in rows \cup {row} :
          /\ a.sequence \in 1 .. n + 1
          /\ a.event_hash = EventHash(a.sequence, a.event, a.previous_hash)
          /\ a.sequence = 1 => a.previous_hash = GENESIS_HASH
    BY <1>3 DEF LinkedTo
  <2>2. \A m \in 1 .. n + 1 : \E a \in rows \cup {row} : a.sequence = m
    BY <1>3 DEF LinkedTo
  <2>3. \A a, b \in rows \cup {row} : a.sequence = b.sequence => a = b
    BY <1>3, <1>4 DEF LinkedTo
  <2>4. \A a, b \in rows \cup {row} : b.sequence = a.sequence + 1 => b.previous_hash = a.event_hash
    BY <1>3, <1>4 DEF LinkedTo
  <2> QED
    BY <2>1, <2>2, <2>3, <2>4 DEF LinkedTo
<1> QED
  BY <1>3, <1>5 DEF row

(* What a transaction flushes next, it flushes after what it sees *)
LEMMA AppendContinues ==
  ASSUME NEW rows, NEW committed, Continues(rows, committed), NEW event
  PROVE  Continues(rows \cup {NextRow(committed \cup rows, event)}, committed)
<1> DEFINE row == NextRow(committed \cup rows, event)
<1>1. CASE Clash(rows, committed)
  BY <1>1 DEF Continues, Clash
<1>2. CASE Linked(committed \cup rows)
  <2>1. PICK n \in Nat : LinkedTo(committed \cup rows, n)
    BY <1>2 DEF Linked
  <2>2. LinkedTo((committed \cup rows) \cup {row}, n + 1)
    BY <2>1, NextRowLinks
  <2> HIDE DEF row
  <2>3. (committed \cup rows) \cup {row} = committed \cup (rows \cup {row})
    OBVIOUS
  <2>4. Linked(committed \cup (rows \cup {row}))
    BY <2>2, <2>3 DEF Linked
  <2> QED
    BY <2>4 DEF Continues, row
<1> QED
  BY <1>1, <1>2 DEF Continues

(* The first event after a chain has the next number *)
LEMMA FirstNew ==
  ASSUME NEW committed, NEW n \in Nat, LinkedTo(committed, n),
         NEW rows, rows # {}, Linked(committed \cup rows), ~Clash(rows, committed)
  PROVE  \E row \in rows : row.sequence = n + 1
<1>1. PICK m \in Nat : LinkedTo(committed \cup rows, m)
  BY DEF Linked
<1>2. PICK new \in rows : TRUE
  OBVIOUS
<1>3. new.sequence \in 1 .. m /\ new.sequence \notin 1 .. n
  BY <1>1 DEF LinkedTo, Clash
<1>4. n + 1 \in 1 .. m
  BY <1>3
<1>5. PICK row \in committed \cup rows : row.sequence = n + 1
  BY <1>1, <1>4 DEF LinkedTo
<1>6. row \notin committed
  BY <1>5 DEF LinkedTo
<1> QED
  BY <1>5, <1>6

(* A commit makes whatever another transaction has flushed for that workflow clash *)
LEMMA CommitContinues ==
  ASSUME NEW committed, Linked(committed), NEW mine, mine # {}, ~Clash(mine, committed),
         Continues(mine, committed), NEW rows, Continues(rows, committed)
  PROVE  Continues(rows, committed \cup mine)
<1>1. Linked(committed \cup mine)
  BY DEF Continues
<1>2. CASE rows = {}
  BY <1>1, <1>2 DEF Continues
<1>3. CASE Clash(rows, committed)
  BY <1>3 DEF Clash, Continues
<1>4. CASE rows # {} /\ ~Clash(rows, committed)
  <2>1. PICK n \in Nat : LinkedTo(committed, n)
    BY DEF Linked
  <2>2. Linked(committed \cup rows)
    BY <1>4 DEF Continues
  <2>3. \E row \in mine : row.sequence = n + 1
    BY <1>1, <2>1, FirstNew
  <2>4. \E row \in rows : row.sequence = n + 1
    BY <1>4, <2>1, <2>2, FirstNew
  <2> QED
    BY <2>3, <2>4 DEF Continues, Clash
<1> QED
  BY <1>2, <1>3, <1>4
-----------------------------------------------------------------------------
LEMMA NoTxTyped == NoTx \in TxRecord({}) /\ NoTx.pc = "idle" /\ NoTx.rows = {}
BY DEF NoTx, TxRecord, TxState

(* A step that only one transaction sees *)
LEMMA TxGoesOn ==
  ASSUME IInv, NEW t \in Transactions, NEW x, x \in TxRecord(x.rows), Fits(x),
         tx' = [tx EXCEPT ![t] = x], UNCHANGED <<chain, keys, evidence, exported, answers>>
  PROVE  IInv'
<1>1. /\ tx' = [u \in Transactions |-> tx'[u]] /\ tx'[t] = x
      /\ \A u \in Transactions : u # t => tx'[u] = tx[u]
  BY DEF IInv, Shape
<1>2. Shape'
  BY <1>1 DEF IInv, Shape, TxRecord
<1>3. ChainsFit' /\ KeysFit' /\ EvidenceFits'
  BY DEF IInv, ChainsFit, KeysFit, EvidenceFits, Created, Checks, EvidenceOf
<1>4. \A u \in Transactions : Fits(tx[u])'
  BY <1>1 DEF IInv, Fits, Created
<1> QED
  BY <1>2, <1>3, <1>4 DEF IInv

LEMMA InitIInv == Init => IInv
<1> SUFFICES ASSUME Init PROVE IInv
  OBVIOUS
<1>1. Shape
  BY NoTxTyped DEF Init, Shape
<1>2. LinkedTo({}, 0)
  BY DEF LinkedTo
<1>3. ChainsFit
  BY <1>2 DEF Init, ChainsFit, Linked
<1>4. KeysFit
  BY DEF Init, KeysFit, Created
<1>5. EvidenceFits
  BY FS_EmptySet DEF Init, EvidenceFits, Checks, EvidenceOf
<1>6. \A t \in Transactions : Fits(tx[t])
  BY NoTxTyped DEF Init, Fits
<1> QED
  BY <1>1, <1>3, <1>4, <1>5, <1>6 DEF IInv

(* A command opens its transaction *)
LEMMA OpenIInv ==
  ASSUME IInv, NEW t \in Transactions, NEW w \in Workflows, OpenLocked(t, w) \/ OpenUnlocked(t, w)
  PROVE  IInv'
<1> DEFINE x == [NoTx EXCEPT !.pc = "open", !.workflow = w]
<1>1. /\ x \in TxRecord({}) /\ x.rows = {} /\ x.pc = "open" /\ x.workflow = w
      /\ x.key = None /\ x.delivery = None
  BY DEF NoTx, TxRecord, TxState
<1>2. tx' = [tx EXCEPT ![t] = x] /\ w \in Created /\ UNCHANGED <<chain, keys, evidence, exported, answers>>
  BY DEF OpenLocked, OpenUnlocked, Begin
<1> HIDE DEF x
<1>3. Continues({}, chain[w])
  BY DEF IInv, ChainsFit, Continues
<1>4. Fits(x)
  BY <1>1, <1>2, <1>3 DEF Fits
<1> QED
  BY <1>1, <1>2, <1>4, TxGoesOn

(* The end of a transaction that does not commit *)
LEMMA RollbackIInv ==
  ASSUME IInv, NEW t \in Transactions, Rollback(t)
  PROVE  IInv'
<1>1. Fits(NoTx)
  BY NoTxTyped DEF Fits
<1> QED
  BY <1>1, NoTxTyped, TxGoesOn DEF Rollback, Begin

(* append_audit_event, by a command or for a delivery *)
LEMMA AppendIInv ==
  ASSUME IInv, NEW t \in Transactions, AppendCommandEvent(t) \/ InsertEvidence(t)
  PROVE  IInv'
<1>1. PICK event : /\ AppendAuditEvent(t, event)
                   /\ \/ /\ tx[t].pc = "open" /\ tx[t].key = None /\ tx[t].delivery = None
                         /\ event.type = "command"
                      \/ tx[t].pc = "matched" /\ event.type = "ci.check_recorded"
  <2>1. [type |-> "command", of |-> None].type = "command"
    OBVIOUS
  <2>2. [type |-> "ci.check_recorded", of |-> tx[t].delivery].type = "ci.check_recorded"
    OBVIOUS
  <2> QED
    BY <2>1, <2>2 DEF AppendCommandEvent, InsertEvidence
<1> DEFINE w == tx[t].workflow
           row == NextRow(chain[w] \cup tx[t].rows, event)
           x == [[tx[t] EXCEPT !.rows = @ \cup {row}] EXCEPT !.pc = "open"]
<1>2. tx[t] \in TxRecord(tx[t].rows) /\ Fits(tx[t])
  BY DEF IInv, Shape
<1>3. w \in Workflows /\ Continues(tx[t].rows, chain[w])
  <2>1. CASE tx[t].pc = "open"
    BY <1>2, <2>1 DEF Fits
  <2>2. CASE tx[t].pc = "matched"
    <3>1. w \in Workflows /\ tx[t].rows = {}
      BY <1>2, <2>2 DEF Fits, Created
    <3> QED
      BY <3>1 DEF IInv, ChainsFit, Continues
  <2> QED
    BY <1>1, <2>1, <2>2
<1>4. row.event = event
  BY DEF NextRow
<1>5. Continues(tx[t].rows \cup {row}, chain[w])
  BY <1>3, AppendContinues
<1>6. tx' = [tx EXCEPT ![t] = x] /\ UNCHANGED <<chain, keys, evidence, exported, answers>>
  BY <1>1 DEF AppendAuditEvent
<1> HIDE DEF row
<1>7. /\ x \in TxRecord(tx[t].rows \cup {row}) /\ x.rows = tx[t].rows \cup {row} /\ x.pc = "open"
      /\ x.workflow = w /\ x.key = tx[t].key /\ x.digest = tx[t].digest /\ x.delivery = tx[t].delivery
  BY <1>2 DEF TxRecord, TxState
<1> HIDE DEF x
<1>8. Fits(x)
  <2>1. CASE tx[t].pc = "open"
    <3>1. tx[t].key = None /\ tx[t].delivery = None /\ w \in Created /\ \A old \in tx[t].rows : ~IsCheck(old)
      BY <1>1, <1>2, <2>1 DEF Fits
    <3>2. ~IsCheck(row)
      BY <1>1, <1>4, <2>1 DEF IsCheck
    <3> QED
      BY <1>3, <1>5, <1>7, <3>1, <3>2 DEF Fits
  <2>2. CASE tx[t].pc = "matched"
    <3>1. tx[t].key = None /\ tx[t].delivery # None /\ w \in Created /\ tx[t].rows = {}
      BY <1>2, <2>2, NoneAssumption DEF Fits
    <3>2. IsCheck(row) /\ x.rows = {row}
      BY <1>1, <1>4, <1>7, <2>2, <3>1 DEF IsCheck
    <3> QED
      BY <1>3, <1>5, <1>7, <3>1, <3>2 DEF Fits
  <2> QED
    BY <1>1, <2>1, <2>2
<1> QED
  BY <1>6, <1>7, <1>8, TxGoesOn

(* create_workflow reads the key: a new one, or a record that answers *)
LEMMA LookupKeyIInv ==
  ASSUME IInv, NEW t \in Transactions, NEW k \in Keys, NEW d \in Digests, LookupKey(t, k, d)
  PROVE  IInv'
<1>1. CASE answers' = answers
  <2> DEFINE x == [NoTx EXCEPT !.pc = "creating", !.key = k, !.digest = d]
  <2>1. /\ x \in TxRecord({}) /\ x.rows = {} /\ x.pc = "creating"
        /\ x.key = k /\ x.digest = d /\ x.delivery = None
    BY DEF NoTx, TxRecord, TxState
  <2> HIDE DEF x
  <2>2. Fits(x)
    BY <2>1 DEF Fits
  <2>3. CASE tx' = [tx EXCEPT ![t] = x]
    BY <1>1, <2>1, <2>2, <2>3, TxGoesOn DEF LookupKey
  <2>4. CASE tx' = tx
    <3>1. tx' = [tx EXCEPT ![t] = tx[t]]
      BY <2>4 DEF IInv, Shape
    <3> QED
      BY <1>1, <3>1, TxGoesOn DEF LookupKey, IInv, Shape
  <2> QED
    BY <2>3, <2>4 DEF LookupKey, Begin, x
<1>2. CASE answers' # answers
  <2>1. /\ keys[k] # None /\ keys[k].digest = d /\ answers' = answers \cup {<<k, d, keys[k].workflow>>}
        /\ UNCHANGED <<tx, chain, keys, evidence, exported>>
    BY <1>2 DEF LookupKey
  <2>2. Shape' /\ ChainsFit' /\ EvidenceFits'
    BY <2>1 DEF IInv, Shape, ChainsFit, EvidenceFits, Checks, EvidenceOf
  <2>3. KeysFit'
    BY <2>1 DEF IInv, KeysFit, Created
  <2>4. \A u \in Transactions : Fits(tx[u])'
    BY <2>1 DEF IInv, Fits, Created
  <2> QED
    BY <2>2, <2>3, <2>4 DEF IInv
<1> QED
  BY <1>1, <1>2

(* The first two events of a workflow *)
LEMMA InsertWorkflowIInv ==
  ASSUME IInv, NEW t \in Transactions, InsertWorkflow(t)
  PROVE  IInv'
<1> DEFINE first == NextRow({}, [type |-> "workflow.created", of |-> None])
           second == NextRow({first}, [type |-> "workflow.transition", of |-> None])
<1>1. PICK w \in Workflows \ Created :
        tx' = [tx EXCEPT ![t].pc = "open", ![t].workflow = w, ![t].rows = {first, second}]
  BY DEF InsertWorkflow
<1>2. chain[w] = {}
  BY DEF Created
<1>3. LinkedTo({}, 0)
  BY DEF LinkedTo
<1>4. LinkedTo({first}, 1) /\ first.event = [type |-> "workflow.created", of |-> None]
  <2>1. LinkedTo({} \cup {first}, 0 + 1) /\ first.event = [type |-> "workflow.created", of |-> None]
    BY <1>3, NextRowLinks
  <2> HIDE DEF first
  <2>2. {} \cup {first} = {first} /\ 0 + 1 = 1
    OBVIOUS
  <2> QED
    BY <2>1, <2>2
<1> HIDE DEF first
<1>5. LinkedTo({first, second}, 2) /\ second.event = [type |-> "workflow.transition", of |-> None]
  <2>1. LinkedTo({first} \cup {second}, 1 + 1) /\ second.event = [type |-> "workflow.transition", of |-> None]
    BY <1>4, NextRowLinks
  <2> HIDE DEF second
  <2>2. {first} \cup {second} = {first, second} /\ 1 + 1 = 2
    OBVIOUS
  <2> QED
    BY <2>1, <2>2
<1> HIDE DEF second
<1> DEFINE rows == {first, second}
           x == [[[tx[t] EXCEPT !.pc = "open"] EXCEPT !.workflow = w] EXCEPT !.rows = rows]
<1>6. tx[t] \in TxRecord(tx[t].rows) /\ Fits(tx[t]) /\ tx[t].pc = "creating"
  BY DEF IInv, Shape, InsertWorkflow
<1>7. tx[t].key \in Keys /\ tx[t].digest \in Digests /\ tx[t].delivery = None
  BY <1>6 DEF Fits
<1>8. Linked(rows) /\ \A row \in rows : ~IsCheck(row)
  BY <1>4, <1>5 DEF Linked, IsCheck
<1>9. tx' = [tx EXCEPT ![t] = x] /\ UNCHANGED <<chain, keys, evidence, exported, answers>>
  BY <1>1 DEF InsertWorkflow
<1> HIDE DEF rows
<1>10. /\ x \in TxRecord(rows) /\ x.rows = rows /\ x.pc = "open" /\ x.workflow = w
       /\ x.key = tx[t].key /\ x.digest = tx[t].digest /\ x.delivery = tx[t].delivery
  BY <1>6 DEF TxRecord, TxState
<1> HIDE DEF x
<1>11. chain[w] \cup rows = rows
  BY <1>2
<1>12. Continues(rows, chain[w])
  BY <1>8, <1>11 DEF Continues
<1>13. Fits(x)
  BY <1>7, <1>8, <1>10, <1>12, NoneAssumption DEF Fits
<1> QED
  BY <1>9, <1>10, <1>13, TxGoesOn

(* A delivery is looked up, and its workflow locked *)
LEMMA DeliveryIInv ==
  ASSUME IInv, NEW t \in Transactions,
         MatchWorkflow(t) \/ \E d \in Deliveries, r \in CheckRuns : LookupDelivery(t, d, r)
  PROVE  IInv'
<1>1. ASSUME NEW d \in Deliveries, NEW r \in CheckRuns, LookupDelivery(t, d, r) PROVE IInv'
  <2> DEFINE x == [NoTx EXCEPT !.pc = "delivering", !.delivery = d, !.run = r]
  <2>1. x \in TxRecord({}) /\ x.rows = {} /\ x.pc = "delivering" /\ x.key = None /\ x.delivery = d
    BY DEF NoTx, TxRecord, TxState
  <2>2. tx' = [tx EXCEPT ![t] = x] /\ UNCHANGED <<chain, keys, evidence, exported, answers>>
    BY <1>1 DEF LookupDelivery, Begin
  <2> HIDE DEF x
  <2>3. Fits(x)
    BY <2>1 DEF Fits
  <2> QED
    BY <2>1, <2>2, <2>3, TxGoesOn
<1>2. CASE MatchWorkflow(t)
  <2>1. PICK w \in Created : tx' = [tx EXCEPT ![t].pc = "matched", ![t].workflow = w]
    BY <1>2 DEF MatchWorkflow
  <2> DEFINE x == [[tx[t] EXCEPT !.pc = "matched"] EXCEPT !.workflow = w]
  <2>2. tx[t] \in TxRecord(tx[t].rows) /\ Fits(tx[t]) /\ tx[t].pc = "delivering" /\ w \in Workflows
    BY <1>2 DEF IInv, Shape, MatchWorkflow, Created
  <2>3. tx' = [tx EXCEPT ![t] = x] /\ UNCHANGED <<chain, keys, evidence, exported, answers>>
    BY <1>2, <2>1 DEF MatchWorkflow
  <2>4. /\ x \in TxRecord(tx[t].rows) /\ x.rows = tx[t].rows /\ x.pc = "matched" /\ x.workflow = w
        /\ x.key = tx[t].key /\ x.delivery = tx[t].delivery
    BY <2>2 DEF TxRecord, TxState
  <2> HIDE DEF x
  <2>5. Fits(x)
    BY <2>2, <2>4 DEF Fits
  <2> QED
    BY <2>3, <2>4, <2>5, TxGoesOn
<1> QED
  BY <1>1, <1>2

(* build_audit_export verifies, then reads the events *)
LEMMA ExportReadIInv ==
  ASSUME IInv, NEW t \in Transactions, ExportEvents(t) \/ \E w \in Workflows : ExportVerify(t, w)
  PROVE  IInv'
<1>1. ASSUME NEW w \in Workflows, ExportVerify(t, w) PROVE IInv'
  <2> DEFINE x == [NoTx EXCEPT !.pc = "exporting", !.workflow = w]
  <2>1. x \in TxRecord({}) /\ x.rows = {} /\ x.pc = "exporting" /\ x.workflow = w
    BY DEF NoTx, TxRecord, TxState
  <2>2. tx' = [tx EXCEPT ![t] = x] /\ UNCHANGED <<chain, keys, evidence, exported, answers>>
    BY <1>1 DEF ExportVerify, Begin
  <2>3. w \in Created
    BY <1>1 DEF ExportVerify, VerifyAuditChain, Created
  <2> HIDE DEF x
  <2>4. Fits(x)
    BY <2>1, <2>3 DEF Fits
  <2> QED
    BY <2>1, <2>2, <2>4, TxGoesOn
<1>2. CASE ExportEvents(t)
  <2> DEFINE w == tx[t].workflow
             x == [[tx[t] EXCEPT !.pc = "collecting"] EXCEPT !.rows = chain[w]]
  <2>1. tx[t] \in TxRecord(tx[t].rows) /\ w \in Created
    BY <1>2 DEF IInv, Shape, Fits, ExportEvents
  <2>2. tx' = [tx EXCEPT ![t] = x] /\ UNCHANGED <<chain, keys, evidence, exported, answers>>
    BY <1>2 DEF ExportEvents
  <2>3. x \in TxRecord(chain[w]) /\ x.rows = chain[w] /\ x.pc = "collecting" /\ x.workflow = w
    BY <2>1 DEF TxRecord, TxState
  <2> HIDE DEF x
  <2>4. chain[w] # {} /\ Linked(chain[w])
    BY <2>1 DEF IInv, ChainsFit, Created
  <2>5. Fits(x)
    BY <2>1, <2>3, <2>4 DEF Fits
  <2> QED
    BY <2>2, <2>3, <2>5, TxGoesOn
<1> QED
  BY <1>1, <1>2

(* The bundle is made from the events that were read, whatever was appended since *)
LEMMA ExportBundleIInv ==
  ASSUME IInv, NEW t \in Transactions, ExportBundle(t)
  PROVE  IInv'
<1> DEFINE w == tx[t].workflow
           events == InSequence(tx[t].rows)
           bundle == [event_count |-> Len(events), head_event_hash |-> Last(events).event_hash,
                      events |-> tx[t].rows, ci_checks |-> {row \in evidence : row.workflow = w}]
<1>1. /\ w \in Workflows /\ tx[t].rows \subseteq chain[w] /\ tx[t].rows # {} /\ Linked(tx[t].rows)
  BY DEF IInv, Fits, ExportBundle, Created
<1>2. /\ bundle.event_count = Len(events) /\ bundle.head_event_hash = Last(events).event_hash
      /\ bundle.events = tx[t].rows
  OBVIOUS
<1>3. /\ exported' = [exported EXCEPT ![w] = bundle] /\ tx' = [tx EXCEPT ![t] = NoTx]
      /\ UNCHANGED <<chain, keys, evidence, answers>>
  BY DEF ExportBundle, Begin
<1> HIDE DEF bundle, events
<1>4. /\ exported' = [v \in Workflows |-> exported'[v]] /\ exported'[w] = bundle
      /\ \A v \in Workflows : v # w => exported'[v] = exported[v]
  BY <1>1, <1>3 DEF IInv, Shape
<1>5. /\ tx' = [u \in Transactions |-> tx'[u]] /\ tx'[t] = NoTx
      /\ \A u \in Transactions : u # t => tx'[u] = tx[u]
  BY <1>3 DEF IInv, Shape
<1>6. Shape'
  BY <1>3, <1>4, <1>5, NoTxTyped DEF IInv, Shape
<1>7. ChainsFit'
  <2> SUFFICES ASSUME NEW v \in Workflows
               PROVE  /\ Linked(chain[v])'
                      /\ exported'[v] # None =>
                           /\ exported'[v].events \subseteq chain'[v] /\ exported'[v].events # {}
                           /\ Linked(exported'[v].events)
                           /\ exported'[v].event_count = Len(InSequence(exported'[v].events))
                           /\ exported'[v].head_event_hash = Last(InSequence(exported'[v].events)).event_hash
    BY DEF ChainsFit, Linked, LinkedTo
  <2>1. CASE v = w
    BY <1>1, <1>2, <1>3, <1>4, <2>1 DEF IInv, ChainsFit, events
  <2>2. CASE v # w
    BY <1>3, <1>4, <2>2 DEF IInv, ChainsFit
  <2> QED
    BY <2>1, <2>2
<1>8. KeysFit' /\ EvidenceFits'
  BY <1>3 DEF IInv, KeysFit, EvidenceFits, Created, Checks, EvidenceOf
<1>9. \A u \in Transactions : Fits(tx[u])'
  <2>1. Fits(tx[t])'
    BY <1>5, NoTxTyped DEF Fits
  <2>2. \A u \in Transactions : u # t => Fits(tx[u])'
    BY <1>3, <1>5 DEF IInv, Fits, Created
  <2> QED
    BY <2>1, <2>2
<1> QED
  BY <1>6, <1>7, <1>8, <1>9 DEF IInv
-----------------------------------------------------------------------------
(* What a commit finds: its events continue the chain as it is now *)
LEMMA CommitFacts ==
  ASSUME IInv, NEW t \in Transactions, Commit(t)
  PROVE  /\ tx[t].workflow \in Workflows /\ tx[t].rows # {}
         /\ ~Clash(tx[t].rows, chain[tx[t].workflow])
         /\ Continues(tx[t].rows, chain[tx[t].workflow])
         /\ chain' = [v \in Workflows |-> chain'[v]]
         /\ chain'[tx[t].workflow] = chain[tx[t].workflow] \cup tx[t].rows
         /\ \A v \in Workflows : v # tx[t].workflow => chain'[v] = chain[v]
         /\ Created' = Created \cup {tx[t].workflow}
<1>1. tx[t].workflow \in Workflows /\ tx[t].rows # {} /\ Continues(tx[t].rows, chain[tx[t].workflow])
  BY DEF IInv, Fits, Commit
<1>2. ~Clash(tx[t].rows, chain[tx[t].workflow])
  BY DEF Commit, Unique, Clash
<1>3. /\ chain' = [v \in Workflows |-> chain'[v]]
      /\ chain'[tx[t].workflow] = chain[tx[t].workflow] \cup tx[t].rows
      /\ \A v \in Workflows : v # tx[t].workflow => chain'[v] = chain[v]
  BY <1>1 DEF Commit, IInv, Shape
<1>4. Created' = Created \cup {tx[t].workflow}
  BY <1>1, <1>3 DEF Created
<1> QED
  BY <1>1, <1>2, <1>3, <1>4

(* The chain, and what was exported of it *)
LEMMA CommitChains ==
  ASSUME IInv, NEW t \in Transactions, Commit(t)
  PROVE  ChainsFit'
<1> DEFINE w == tx[t].workflow
<1>1. /\ w \in Workflows /\ Linked(chain[w] \cup tx[t].rows)
      /\ chain'[w] = chain[w] \cup tx[t].rows
      /\ \A v \in Workflows : v # w => chain'[v] = chain[v]
  BY CommitFacts DEF Continues
<1>2. \A v \in Workflows : Linked(chain'[v])
  BY <1>1 DEF IInv, ChainsFit
<1>3. exported' = exported /\ \A v \in Workflows : chain[v] \subseteq chain'[v]
  BY <1>1 DEF Commit
<1> QED
  BY <1>2, <1>3 DEF IInv, ChainsFit

(* The key's record, written where there was none *)
LEMMA CommitKeys ==
  ASSUME IInv, NEW t \in Transactions, Commit(t)
  PROVE  /\ keys' \in [Keys -> [digest : Digests, workflow : Workflows] \cup {None}]
         /\ KeysFit'
<1> DEFINE x == tx[t]
<1>1. /\ x.workflow \in Workflows /\ Created' = Created \cup {x.workflow}
      /\ keys \in [Keys -> [digest : Digests, workflow : Workflows] \cup {None}] /\ KeysFit
  BY CommitFacts DEF IInv, Shape
<1>2. CASE x.key = None
  <2>1. keys' = keys /\ answers' = answers /\ x.workflow \in Created
    BY <1>2 DEF IInv, Fits, Commit
  <2> QED
    BY <1>1, <2>1 DEF KeysFit
<1>3. CASE x.key # None
  <2> DEFINE record == [digest |-> x.digest, workflow |-> x.workflow]
  <2>1. x.key \in Keys /\ x.digest \in Digests /\ keys[x.key] = None
    BY <1>3 DEF IInv, Shape, TxRecord, Fits, Commit, Unique
  <2>2. /\ record \in [digest : Digests, workflow : Workflows] /\ record # None
        /\ record.digest = x.digest /\ record.workflow = x.workflow
    BY <1>1, <2>1, NoneAssumption
  <2>3. keys' = [keys EXCEPT ![x.key] = record] /\ answers' = answers \cup {<<x.key, x.digest, x.workflow>>}
    BY <1>3 DEF Commit
  <2> HIDE DEF record
  <2>4. /\ keys' \in [Keys -> [digest : Digests, workflow : Workflows] \cup {None}]
        /\ keys'[x.key] = record /\ \A k \in Keys : k # x.key => keys'[k] = keys[k]
    BY <1>1, <2>1, <2>2, <2>3
  <2>5. \A a \in answers' : \E k \in Keys : keys'[k] # None /\ a = <<k, keys'[k].digest, keys'[k].workflow>>
    <3> SUFFICES ASSUME NEW a \in answers'
                 PROVE  \E k \in Keys : keys'[k] # None /\ a = <<k, keys'[k].digest, keys'[k].workflow>>
      OBVIOUS
    <3>1. CASE a = <<x.key, x.digest, x.workflow>>
      BY <2>1, <2>2, <2>4, <3>1
    <3>2. CASE a \in answers
      <4>1. PICK k \in Keys : keys[k] # None /\ a = <<k, keys[k].digest, keys[k].workflow>>
        BY <1>1, <3>2 DEF KeysFit
      <4>2. keys'[k] = keys[k]
        BY <2>1, <2>4, <4>1
      <4> QED
        BY <4>1, <4>2
    <3> QED
      BY <2>3, <3>1, <3>2
  <2>6. \A v \in Created' : \E k \in Keys : keys'[k] # None /\ keys'[k].workflow = v
    <3> SUFFICES ASSUME NEW v \in Created' PROVE \E k \in Keys : keys'[k] # None /\ keys'[k].workflow = v
      OBVIOUS
    <3>1. CASE v = x.workflow
      BY <2>1, <2>2, <2>4, <3>1
    <3>2. CASE v \in Created
      <4>1. PICK k \in Keys : keys[k] # None /\ keys[k].workflow = v
        BY <1>1, <3>2 DEF KeysFit
      <4>2. keys'[k] = keys[k]
        BY <2>1, <2>4, <4>1
      <4> QED
        BY <4>1, <4>2
    <3> QED
      BY <1>1, <3>1, <3>2
  <2> QED
    BY <2>4, <2>5, <2>6 DEF KeysFit
<1> QED
  BY <1>2, <1>3

(* A check is recorded with its event, and neither was there before *)
LEMMA CommitEvidence ==
  ASSUME IInv, NEW t \in Transactions, Commit(t)
  PROVE  EvidenceFits'
<1> DEFINE x == tx[t]
<1>1. PICK w \in Workflows : w = x.workflow
  BY CommitFacts
<1>2. /\ ~Clash(x.rows, chain[w]) /\ chain'[w] = chain[w] \cup x.rows
      /\ \A v \in Workflows : v # w => chain'[v] = chain[v]
  BY <1>1, CommitFacts
<1>3. EvidenceFits /\ evidence' = evidence \cup NewEvidence(t) /\ x.pc = "open" /\ Fits(x)
  BY DEF IInv, Commit
<1>4. CASE x.delivery = None
  <2>1. evidence' = evidence
    BY <1>3, <1>4 DEF NewEvidence
  <2>2. \A row \in x.rows : ~IsCheck(row)
    BY <1>3, <1>4 DEF Fits
  <2>3. \A v \in Workflows : Checks(v)' = Checks(v) /\ EvidenceOf(v)' = EvidenceOf(v)
    BY <1>2, <2>1, <2>2 DEF Checks, EvidenceOf
  <2> QED
    BY <1>3, <2>1, <2>3 DEF EvidenceFits
<1>5. CASE x.delivery # None
  <2> DEFINE new == [delivery |-> x.delivery, run |-> x.run, workflow |-> w]
  <2>1. NewEvidence(t) = {new} /\ new.workflow = w
    BY <1>1, <1>5 DEF NewEvidence
  <2>2. \A old \in evidence : new.delivery # old.delivery /\ new.run # old.run
    BY <2>1 DEF Commit, Unique
  <2>3. PICK row \in x.rows : x.rows = {row} /\ IsCheck(row)
    BY <1>3, <1>5 DEF Fits
  <2>4. row \notin chain[w]
    BY <1>2, <2>3 DEF Clash
  <2> HIDE DEF new
  <2>5. \A a, b \in evidence' : a.delivery = b.delivery \/ a.run = b.run => a = b
    BY <1>3, <2>1, <2>2 DEF EvidenceFits
  <2>6. Checks(w)' = Checks(w) \cup {row} /\ row \notin Checks(w)
    BY <1>2, <2>3, <2>4 DEF Checks
  <2>7. EvidenceOf(w)' = EvidenceOf(w) \cup {new} /\ new \notin EvidenceOf(w)
    BY <1>3, <2>1, <2>2 DEF EvidenceOf
  <2>8. /\ IsFiniteSet(Checks(w)) /\ IsFiniteSet(EvidenceOf(w))
        /\ Cardinality(Checks(w)) = Cardinality(EvidenceOf(w))
    BY <1>3 DEF EvidenceFits
  <2>9. IsFiniteSet(Checks(w)') /\ Cardinality(Checks(w)') = Cardinality(Checks(w)) + 1
    BY <2>6, <2>8, FS_AddElement
  <2>10. IsFiniteSet(EvidenceOf(w)') /\ Cardinality(EvidenceOf(w)') = Cardinality(EvidenceOf(w)) + 1
    BY <2>7, <2>8, FS_AddElement
  <2>11. \A v \in Workflows : v # w => Checks(v)' = Checks(v) /\ EvidenceOf(v)' = EvidenceOf(v)
    BY <1>2, <1>3, <2>1 DEF Checks, EvidenceOf
  <2>12. ASSUME NEW v \in Workflows
         PROVE  /\ IsFiniteSet(Checks(v)') /\ IsFiniteSet(EvidenceOf(v)')
                /\ Cardinality(Checks(v)') = Cardinality(EvidenceOf(v)')
    <3>1. CASE v = w
      BY <2>8, <2>9, <2>10, <3>1
    <3>2. CASE v # w
      BY <1>3, <2>11, <3>2 DEF EvidenceFits
    <3> QED
      BY <3>1, <3>2
  <2> QED
    BY <2>5, <2>12 DEF EvidenceFits
<1> QED
  BY <1>4, <1>5

(* What the other transactions hold *)
LEMMA CommitFits ==
  ASSUME IInv, NEW t \in Transactions, Commit(t), NEW x, Fits(x)
  PROVE  Fits(x)'
<1> DEFINE w == tx[t].workflow
<1>1. /\ w \in Workflows /\ tx[t].rows # {} /\ ~Clash(tx[t].rows, chain[w]) /\ Continues(tx[t].rows, chain[w])
      /\ chain'[w] = chain[w] \cup tx[t].rows /\ Created' = Created \cup {w}
      /\ \A v \in Workflows : v # w => chain'[v] = chain[v]
  BY CommitFacts
<1>2. Linked(chain[w])
  BY <1>1 DEF IInv, ChainsFit
<1>3. x.pc = "open" => Continues(x.rows, chain'[x.workflow])
  <2>1. CASE x.pc = "open" /\ x.workflow = w
    <3>1. Continues(x.rows, chain[w])
      BY <2>1 DEF Fits
    <3>2. Continues(x.rows, chain[w] \cup tx[t].rows)
      BY <1>1, <1>2, <3>1, CommitContinues
    <3> QED
      BY <1>1, <2>1, <3>2
  <2>2. CASE x.pc = "open" /\ x.workflow # w
    BY <1>1, <2>2 DEF Fits
  <2> QED
    BY <2>1, <2>2
<1>4. x.pc = "collecting" => x.rows \subseteq chain'[x.workflow]
  BY <1>1 DEF Fits, Created
<1> QED
  BY <1>1, <1>3, <1>4 DEF Fits

LEMMA CommitIInv ==
  ASSUME IInv, NEW t \in Transactions, Commit(t)
  PROVE  IInv'
<1>1. /\ tx' = [u \in Transactions |-> tx'[u]] /\ tx'[t] = NoTx
      /\ \A u \in Transactions : u # t => tx'[u] = tx[u]
  BY DEF Commit, Begin, IInv, Shape
<1>2. Shape'
  <2>1. exported' = exported
    BY DEF Commit
  <2>2. chain' = [v \in Workflows |-> chain'[v]]
    BY CommitFacts
  <2>3. keys' \in [Keys -> [digest : Digests, workflow : Workflows] \cup {None}]
    BY CommitKeys
  <2> QED
    BY <1>1, <2>1, <2>2, <2>3, NoTxTyped DEF IInv, Shape
<1>3. \A u \in Transactions : Fits(tx[u])'
  <2>1. Fits(tx[t])'
    BY <1>1, NoTxTyped DEF Fits
  <2>2. ASSUME NEW u \in Transactions, u # t PROVE Fits(tx[u])'
    <3>1. PICK y : y = tx[u]
      OBVIOUS
    <3>2. Fits(y)
      BY <3>1 DEF IInv
    <3>3. Fits(y)'
      BY <3>2, CommitFits
    <3>4. tx'[u] = y
      BY <1>1, <2>2, <3>1
    <3> QED
      BY <3>3, <3>4 DEF Fits
  <2> QED
    BY <2>1, <2>2
<1> QED
  BY <1>2, <1>3, CommitChains, CommitKeys, CommitEvidence DEF IInv
-----------------------------------------------------------------------------
(* Every step of every transaction keeps the invariant *)
LEMMA NextIInv == IInv /\ [Next]_vars => IInv'
<1> SUFFICES ASSUME IInv, [Next]_vars PROVE IInv'
  OBVIOUS
<1>1. ASSUME NEW t \in Transactions, \E k \in Keys, d \in Digests : LookupKey(t, k, d) PROVE IInv'
  BY <1>1, LookupKeyIInv
<1>2. ASSUME NEW t \in Transactions, InsertWorkflow(t) PROVE IInv'
  BY <1>2, InsertWorkflowIInv
<1>3. ASSUME NEW t \in Transactions, \E w \in Workflows : OpenLocked(t, w) \/ OpenUnlocked(t, w) PROVE IInv'
  BY <1>3, OpenIInv
<1>4. ASSUME NEW t \in Transactions, ExportEvents(t) \/ \E w \in Workflows : ExportVerify(t, w) PROVE IInv'
  BY <1>4, ExportReadIInv
<1>5. ASSUME NEW t \in Transactions, AppendCommandEvent(t) \/ InsertEvidence(t) PROVE IInv'
  BY <1>5, AppendIInv
<1>6. ASSUME NEW t \in Transactions,
             MatchWorkflow(t) \/ \E d \in Deliveries, r \in CheckRuns : LookupDelivery(t, d, r)
      PROVE  IInv'
  BY <1>6, DeliveryIInv
<1>7. ASSUME NEW t \in Transactions, Commit(t) PROVE IInv'
  BY <1>7, CommitIInv
<1>8. ASSUME NEW t \in Transactions, Rollback(t) PROVE IInv'
  BY <1>8, RollbackIInv
<1>9. ASSUME NEW t \in Transactions, ExportBundle(t) PROVE IInv'
  BY <1>9, ExportBundleIInv
<1>10. CASE UNCHANGED vars
  <2>1. Shape'
    BY <1>10 DEF vars, IInv, Shape
  <2>2. ChainsFit'
    BY <1>10 DEF vars, IInv, ChainsFit
  <2>3. KeysFit'
    BY <1>10 DEF vars, IInv, KeysFit, Created
  <2>4. EvidenceFits'
    BY <1>10 DEF vars, IInv, EvidenceFits, Checks, EvidenceOf
  <2>5. ASSUME NEW t \in Transactions PROVE Fits(tx[t])'
    BY <1>10 DEF vars, IInv, Fits, Created, Checks, EvidenceOf
  <2> QED
    BY <2>1, <2>2, <2>3, <2>4, <2>5 DEF IInv
<1> QED
  BY <1>1, <1>2, <1>3, <1>4, <1>5, <1>6, <1>7, <1>8, <1>9, <1>10 DEF Next

(* IInv is an inductive invariant of the shared records *)
THEOREM Inductive == Spec => []IInv
BY InitIInv, NextIInv, PTL DEF Spec

(* The audit chain of every workflow, and every bundle exported of it, passes *)
(* verification, for any number of transactions that append without a lock:   *)
(* append_audit_event with the unique constraint on (workflow, sequence).     *)
THEOREM ChainVerifies == Spec => []AuditChainVerifies
<1>1. IInv => AuditChainVerifies
  <2> SUFFICES ASSUME IInv, NEW w \in Workflows
               PROVE  /\ w \in Created => VerifyAuditChain(chain[w])
                      /\ exported[w] # None =>
                           VerifyAuditExport(exported[w]) /\ exported[w].events \subseteq chain[w]
    BY DEF AuditChainVerifies
  <2>1. w \in Created => VerifyAuditChain(chain[w])
    BY LinkedVerifies DEF IInv, ChainsFit, Created
  <2>2. ASSUME exported[w] # None
        PROVE  VerifyAuditExport(exported[w]) /\ exported[w].events \subseteq chain[w]
    <3> DEFINE events == exported[w].events
    <3>1. /\ events \subseteq chain[w] /\ events # {} /\ Linked(events)
          /\ exported[w].event_count = Len(InSequence(events))
          /\ exported[w].head_event_hash = Last(InSequence(events)).event_hash
      BY <2>2 DEF IInv, ChainsFit
    <3>2. VerifyAuditChain(events) /\ Len(InSequence(events)) = Cardinality(events)
      BY <3>1, LinkedVerifies
    <3> QED
      BY <3>1, <3>2 DEF VerifyAuditExport
  <2> QED
    BY <2>1, <2>2
<1> QED
  BY <1>1, Inductive, PTL

(* One idempotency key, one workflow, one answer, for any number of requests  *)
(* with the key at once (create_workflow).                                    *)
THEOREM KeyMakesOneWorkflow == Spec => []OneWorkflowPerKey
<1>1. IInv => OneWorkflowPerKey
  <2> SUFFICES ASSUME IInv PROVE OneWorkflowPerKey
    OBVIOUS
  <2>1. KeysFit
    BY DEF IInv
  <2>2. \A a, b \in answers : a[1] = b[1] => a = b
    <3> SUFFICES ASSUME NEW a \in answers, NEW b \in answers, a[1] = b[1] PROVE a = b
      OBVIOUS
    <3>1. PICK k \in Keys : a = <<k, keys[k].digest, keys[k].workflow>>
      BY <2>1 DEF KeysFit
    <3>2. PICK j \in Keys : b = <<j, keys[j].digest, keys[j].workflow>>
      BY <2>1 DEF KeysFit
    <3>3. a[1] = k /\ b[1] = j
      BY <3>1, <3>2
    <3> QED
      BY <3>1, <3>2, <3>3
  <2> QED
    BY <2>1, <2>2 DEF KeysFit, OneWorkflowPerKey
<1> QED
  BY <1>1, Inductive, PTL

(* A check run is recorded once and with one event of its workflow, for any   *)
(* number of deliveries at once (ingest_ci_check_evidence).                   *)
THEOREM CheckRecordedOnce == Spec => []EvidenceRecordedOnce
<1>1. IInv => EvidenceRecordedOnce
  BY DEF IInv, EvidenceFits, EvidenceRecordedOnce, Checks, EvidenceOf, IsCheck
<1> QED
  BY <1>1, Inductive, PTL

-----------------------------------------------------------------------------
(* Type correctness: what is committed is what some transaction flushed, so   *)
(* the rows of a transaction in progress are typed like those of the chain.   *)
RowFits(row) == row.sequence <= MaxEvents /\ row.event \in Event

TxTyped(x) ==
  /\ \A row \in x.rows : RowFits(row)
  /\ x.delivery # None => x.run \in CheckRuns

LInv ==
  /\ \A w \in Workflows : \A row \in chain[w] : RowFits(row)
  /\ \A t \in Transactions : TxTyped(tx[t])
  /\ evidence \subseteq CheckEvidence
  /\ lock \in [Workflows -> Transactions \cup {None}]

LEMMA InitLInv == Init => LInv
<1> SUFFICES ASSUME Init PROVE LInv
  OBVIOUS
<1>1. TxTyped(NoTx)
  BY DEF TxTyped, NoTx
<1> QED
  BY <1>1 DEF Init, LInv

(* A step that only one transaction sees, and that takes or releases a lock *)
LEMMA TxLInv ==
  ASSUME IInv, LInv, NEW t \in Transactions, NEW x, TxTyped(x), tx' = [tx EXCEPT ![t] = x],
         lock' \in [Workflows -> Transactions \cup {None}], UNCHANGED <<chain, evidence>>
  PROVE  LInv'
<1>1. \A u \in Transactions : tx'[u] = x \/ tx'[u] = tx[u]
  BY DEF IInv, Shape
<1>2. \A u \in Transactions : TxTyped(tx'[u])
  BY <1>1 DEF LInv
<1>3. \A w \in Workflows : \A row \in chain'[w] : RowFits(row)
  BY DEF LInv
<1>4. evidence' \subseteq CheckEvidence
  BY DEF LInv
<1>5. \A u \in Transactions : TxTyped(tx[u])'
  BY <1>2 DEF TxTyped, RowFits
<1>6. \A w \in Workflows : \A row \in chain'[w] : RowFits(row)'
  BY <1>3 DEF RowFits
<1> QED
  BY <1>4, <1>5, <1>6 DEF LInv, RowFits

LEMMA ReleaseTyped ==
  ASSUME LInv, NEW t, Release(t)
  PROVE  lock' \in [Workflows -> Transactions \cup {None}]
BY DEF LInv, Release

(* A transaction that begins anew, or ends without a commit *)
LEMMA BeginLInv ==
  ASSUME IInv, LInv, NEW t \in Transactions, NEW x, x.rows = {}, x.delivery # None => x.run \in CheckRuns,
         tx' = [tx EXCEPT ![t] = x], lock' \in [Workflows -> Transactions \cup {None}],
         UNCHANGED <<chain, evidence>>
  PROVE  LInv'
<1>1. TxTyped(x)
  BY DEF TxTyped
<1> QED
  BY <1>1, TxLInv

LEMMA BeginsLInv ==
  ASSUME IInv, LInv, NEW t \in Transactions,
         \/ \E k \in Keys, d \in Digests : LookupKey(t, k, d)
         \/ \E w \in Workflows : OpenLocked(t, w) \/ OpenUnlocked(t, w) \/ ExportVerify(t, w)
         \/ \E d \in Deliveries, r \in CheckRuns : LookupDelivery(t, d, r)
         \/ Rollback(t) \/ ExportBundle(t)
  PROVE  LInv'
<1>1. UNCHANGED <<chain, evidence>>
  BY DEF LookupKey, OpenLocked, OpenUnlocked, ExportVerify, LookupDelivery, Rollback, ExportBundle
<1>2. lock' \in [Workflows -> Transactions \cup {None}]
  <2>1. CASE UNCHANGED lock
    BY <2>1 DEF LInv
  <2>2. CASE \E w \in Workflows : lock' = [lock EXCEPT ![w] = t]
    BY <2>2 DEF LInv
  <2>3. CASE Rollback(t)
    BY <2>3, ReleaseTyped DEF Rollback
  <2> QED
    BY <2>1, <2>2, <2>3 DEF LookupKey, OpenLocked, OpenUnlocked, ExportVerify, LookupDelivery, ExportBundle
<1>3. CASE tx' = tx
  <2>1. tx' = [tx EXCEPT ![t] = tx[t]] /\ TxTyped(tx[t])
    BY <1>3 DEF IInv, Shape, LInv
  <2> QED
    BY <1>1, <1>2, <2>1, TxLInv
<1>4. CASE tx' = [tx EXCEPT ![t] = NoTx]
  BY <1>1, <1>2, <1>4, BeginLInv DEF NoTx
<1>5. ASSUME NEW k \in Keys, NEW d \in Digests,
             tx' = [tx EXCEPT ![t] = [NoTx EXCEPT !.pc = "creating", !.key = k, !.digest = d]]
      PROVE  LInv'
  <2> DEFINE x == [NoTx EXCEPT !.pc = "creating", !.key = k, !.digest = d]
  <2>1. x.rows = {} /\ x.delivery = None /\ tx' = [tx EXCEPT ![t] = x]
    BY <1>5 DEF NoTx
  <2> HIDE DEF x
  <2> QED
    BY <1>1, <1>2, <2>1, BeginLInv
<1>6. ASSUME NEW w \in Workflows, NEW pc \in {"open", "exporting"},
             tx' = [tx EXCEPT ![t] = [NoTx EXCEPT !.pc = pc, !.workflow = w]]
      PROVE  LInv'
  <2> DEFINE x == [NoTx EXCEPT !.pc = pc, !.workflow = w]
  <2>1. x.rows = {} /\ x.delivery = None /\ tx' = [tx EXCEPT ![t] = x]
    BY <1>6 DEF NoTx
  <2> HIDE DEF x
  <2> QED
    BY <1>1, <1>2, <2>1, BeginLInv
<1>7. ASSUME NEW d \in Deliveries, NEW r \in CheckRuns, LookupDelivery(t, d, r) PROVE LInv'
  <2> DEFINE x == [NoTx EXCEPT !.pc = "delivering", !.delivery = d, !.run = r]
  <2>1. x.rows = {} /\ x.run \in CheckRuns /\ tx' = [tx EXCEPT ![t] = x]
    BY <1>7 DEF NoTx, LookupDelivery, Begin
  <2> HIDE DEF x
  <2> QED
    BY <1>1, <1>2, <2>1, BeginLInv
<1> QED
  BY <1>3, <1>4, <1>5, <1>6, <1>7
  DEF LookupKey, OpenLocked, OpenUnlocked, ExportVerify, Rollback, ExportBundle, Begin

(* The number and the event of what append_audit_event adds *)
LEMMA NextRowIs ==
  ASSUME NEW rows, NEW event
  PROVE  /\ NextRow(rows, event).event = event
         /\ rows = {} => NextRow(rows, event).sequence = 1
BY DEF NextRow

(* append_audit_event stays below the bound on events *)
LEMMA AppendLInv ==
  ASSUME IInv, LInv, NEW t \in Transactions, AppendCommandEvent(t) \/ InsertEvidence(t)
  PROVE  LInv'
<1>1. tx[t] \in TxRecord(tx[t].rows) /\ Fits(tx[t]) /\ TxTyped(tx[t])
  BY DEF IInv, Shape, LInv
<1>2. PICK event \in Event : AppendAuditEvent(t, event)
  <2>1. [type |-> "command", of |-> None] \in Event
    BY DEF Event
  <2>2. CASE InsertEvidence(t)
    <3>1. tx[t].delivery \in Deliveries
      BY <1>1, <2>2 DEF Fits, InsertEvidence
    <3>2. [type |-> "ci.check_recorded", of |-> tx[t].delivery] \in Event
      BY <3>1 DEF Event
    <3> QED
      BY <2>2, <3>2 DEF InsertEvidence
  <2> QED
    BY <2>1, <2>2 DEF AppendCommandEvent
<1> DEFINE row == NextRow(chain[tx[t].workflow] \cup tx[t].rows, event)
           x == [tx[t] EXCEPT !.rows = @ \cup {row}, !.pc = "open"]
<1>3. row.sequence <= MaxEvents /\ row.event = event
  BY <1>2, NextRowIs DEF AppendAuditEvent
<1>4. tx' = [tx EXCEPT ![t] = x] /\ UNCHANGED <<chain, evidence, lock>>
  BY <1>2 DEF AppendAuditEvent
<1>5. x.rows = tx[t].rows \cup {row} /\ x.delivery = tx[t].delivery /\ x.run = tx[t].run
  BY <1>1 DEF TxRecord
<1> HIDE DEF row, x
<1>6. TxTyped(x)
  BY <1>1, <1>3, <1>5 DEF TxTyped, RowFits
<1>7. lock' \in [Workflows -> Transactions \cup {None}]
  BY <1>4 DEF LInv
<1> QED
  BY <1>4, <1>6, <1>7, TxLInv

(* The first two events of a workflow *)
LEMMA InsertWorkflowLInv ==
  ASSUME IInv, LInv, NEW t \in Transactions, InsertWorkflow(t)
  PROVE  LInv'
<1> DEFINE created == [type |-> "workflow.created", of |-> None]
           moved == [type |-> "workflow.transition", of |-> None]
           first == NextRow({}, created)
           second == NextRow({first}, moved)
<1>1. PICK w \in Workflows : tx' = [tx EXCEPT ![t].pc = "open", ![t].workflow = w, ![t].rows = {first, second}]
  BY DEF InsertWorkflow
<1>2. created \in Event /\ moved \in Event
  BY DEF Event
<1> HIDE DEF created, moved
<1>3. first.sequence = 1 /\ first.event = created
  BY NextRowIs
<1> HIDE DEF first
<1>4. second.sequence = 2 /\ second.event = moved
  <2>1. Latest({first}) = first
    BY <1>3 DEF Latest
  <2> QED
    BY <1>3, <2>1 DEF NextRow
<1> HIDE DEF second
<1>5. RowFits(first) /\ RowFits(second)
  BY <1>2, <1>3, <1>4, MaxEventsAssumption DEF RowFits
<1> DEFINE x == [tx[t] EXCEPT !.pc = "open", !.workflow = w, !.rows = {first, second}]
<1>6. tx[t] \in TxRecord(tx[t].rows) /\ TxTyped(tx[t])
  BY DEF IInv, Shape, LInv
<1>7. x.rows = {first, second} /\ x.delivery = tx[t].delivery /\ x.run = tx[t].run
  BY <1>6 DEF TxRecord
<1>8. tx' = [tx EXCEPT ![t] = x]
  BY <1>1
<1> HIDE DEF x
<1>9. TxTyped(x)
  BY <1>5, <1>6, <1>7 DEF TxTyped
<1>10. lock' \in [Workflows -> Transactions \cup {None}] /\ UNCHANGED <<chain, evidence>>
  BY DEF LInv, InsertWorkflow
<1> QED
  BY <1>8, <1>9, <1>10, TxLInv

(* The steps that change only where a transaction is, and what it has read *)
LEMMA ReadsLInv ==
  ASSUME IInv, LInv, NEW t \in Transactions, MatchWorkflow(t) \/ ExportEvents(t)
  PROVE  LInv'
<1>1. tx[t] \in TxRecord(tx[t].rows) /\ Fits(tx[t]) /\ TxTyped(tx[t])
  BY DEF IInv, Shape, LInv
<1>2. lock' \in [Workflows -> Transactions \cup {None}] /\ UNCHANGED <<chain, evidence>>
  <2>1. CASE UNCHANGED lock
    BY <2>1 DEF LInv, MatchWorkflow, ExportEvents
  <2>2. CASE \E w \in Workflows : lock' = [lock EXCEPT ![w] = t]
    BY <2>2 DEF LInv, MatchWorkflow, ExportEvents
  <2> QED
    BY <2>1, <2>2 DEF MatchWorkflow, ExportEvents, Created
<1>3. CASE ExportEvents(t)
  <2> DEFINE x == [tx[t] EXCEPT !.pc = "collecting", !.rows = chain[tx[t].workflow]]
  <2>1. tx[t].workflow \in Workflows
    BY <1>1, <1>3 DEF Fits, Created, ExportEvents
  <2>2. /\ x.rows = chain[tx[t].workflow] /\ x.delivery = tx[t].delivery /\ x.run = tx[t].run
        /\ tx' = [tx EXCEPT ![t] = x]
    BY <1>1, <1>3 DEF TxRecord, ExportEvents
  <2> HIDE DEF x
  <2>3. TxTyped(x)
    BY <1>1, <2>1, <2>2 DEF TxTyped, LInv
  <2> QED
    BY <1>2, <2>2, <2>3, TxLInv
<1>4. CASE MatchWorkflow(t)
  <2>1. PICK w \in Created : tx' = [tx EXCEPT ![t].pc = "matched", ![t].workflow = w]
    BY <1>4 DEF MatchWorkflow
  <2> DEFINE x == [tx[t] EXCEPT !.pc = "matched", !.workflow = w]
  <2>2. x.rows = tx[t].rows /\ x.delivery = tx[t].delivery /\ x.run = tx[t].run /\ tx' = [tx EXCEPT ![t] = x]
    BY <1>1, <2>1 DEF TxRecord
  <2> HIDE DEF x
  <2>3. TxTyped(x)
    BY <1>1, <2>2 DEF TxTyped
  <2> QED
    BY <1>2, <2>2, <2>3, TxLInv
<1> QED
  BY <1>3, <1>4

(* The commit publishes what the transaction holds *)
LEMMA CommitLInv ==
  ASSUME IInv, LInv, NEW t \in Transactions, Commit(t)
  PROVE  LInv'
<1> DEFINE w == tx[t].workflow
<1>1. tx[t] \in TxRecord(tx[t].rows) /\ TxTyped(tx[t]) /\ w \in Workflows
  BY DEF IInv, Shape, LInv, Fits, Commit
<1>2. \A v \in Workflows : \A row \in chain'[v] : RowFits(row)'
  <2>1. \A v \in Workflows : chain'[v] \subseteq chain[v] \cup tx[t].rows
    BY <1>1 DEF Commit, IInv, Shape
  <2> QED
    BY <1>1, <2>1 DEF LInv, TxTyped, RowFits
<1>3. evidence' \subseteq CheckEvidence
  <2>1. NewEvidence(t) \subseteq CheckEvidence
    <3>1. CASE tx[t].delivery = None
      BY <3>1 DEF NewEvidence
    <3>2. CASE tx[t].delivery # None
      <4>1. tx[t].delivery \in Deliveries /\ tx[t].run \in CheckRuns
        BY <1>1, <3>2 DEF TxRecord, TxTyped
      <4> QED
        BY <1>1, <4>1 DEF NewEvidence, CheckEvidence
    <3> QED
      BY <3>1, <3>2
  <2> QED
    BY <2>1 DEF Commit, LInv
<1>4. lock' \in [Workflows -> Transactions \cup {None}]
  BY ReleaseTyped DEF Commit
<1>5. \A u \in Transactions : tx'[u] = NoTx \/ tx'[u] = tx[u]
  BY DEF Commit, Begin, IInv, Shape
<1>6. TxTyped(NoTx)
  BY DEF TxTyped, NoTx
<1>7. \A u \in Transactions : TxTyped(tx'[u])
  BY <1>5, <1>6 DEF LInv
<1>8. \A u \in Transactions : TxTyped(tx[u])'
  BY <1>7 DEF TxTyped, RowFits
<1> QED
  BY <1>2, <1>3, <1>4, <1>8 DEF LInv

LEMMA NextLInv == IInv /\ LInv /\ [Next]_vars => LInv'
<1> SUFFICES ASSUME IInv, LInv, [Next]_vars PROVE LInv'
  OBVIOUS
<1>1. CASE UNCHANGED vars
  BY <1>1 DEF vars, LInv, TxTyped, RowFits
<1>2. ASSUME NEW t \in Transactions, AppendCommandEvent(t) \/ InsertEvidence(t) PROVE LInv'
  BY <1>2, AppendLInv
<1>3. ASSUME NEW t \in Transactions, MatchWorkflow(t) \/ ExportEvents(t) PROVE LInv'
  BY <1>3, ReadsLInv
<1>4. ASSUME NEW t \in Transactions,
         \/ \E k \in Keys, d \in Digests : LookupKey(t, k, d)
         \/ \E w \in Workflows : OpenLocked(t, w) \/ OpenUnlocked(t, w) \/ ExportVerify(t, w)
         \/ \E d \in Deliveries, r \in CheckRuns : LookupDelivery(t, d, r)
         \/ Rollback(t) \/ ExportBundle(t)
      PROVE  LInv'
  BY <1>4, BeginsLInv
<1> QED
  BY <1>1, <1>2, <1>3, <1>4, InsertWorkflowLInv, CommitLInv DEF Next

(* The tables keep to their types for any number of transactions: every row   *)
(* of a chain is one that append_audit_event built, within the bound on       *)
(* events, and every answer names a request and a workflow that exist.        *)
THEOREM TypeCorrect == Spec => []TypeOK
<1>1. Spec => [](IInv /\ LInv)
  BY InitIInv, InitLInv, NextIInv, NextLInv, PTL DEF Spec
<1>2. IInv /\ LInv => TypeOK
  <2> SUFFICES ASSUME IInv, LInv PROVE TypeOK
    OBVIOUS
  <2>1. \A w \in Workflows : \A row \in chain[w] :
          /\ row.sequence \in 1..MaxEvents /\ row.event \in Event
          /\ row.event_hash = EventHash(row.sequence, row.event, row.previous_hash)
    <3> SUFFICES ASSUME NEW w \in Workflows, NEW row \in chain[w]
                 PROVE  /\ row.sequence \in 1..MaxEvents /\ row.event \in Event
                        /\ row.event_hash = EventHash(row.sequence, row.event, row.previous_hash)
      OBVIOUS
    <3>1. PICK n \in Nat : LinkedTo(chain[w], n)
      BY DEF IInv, ChainsFit, Linked
    <3>2. row.sequence \in 1 .. n /\ row.event_hash = EventHash(row.sequence, row.event, row.previous_hash)
      BY <3>1 DEF LinkedTo
    <3>3. row.sequence <= MaxEvents /\ row.event \in Event
      BY DEF LInv, RowFits
    <3> QED
      BY <3>2, <3>3, MaxEventsAssumption
  <2>2. \A k \in Keys : keys[k] = None \/ keys[k] \in [digest : Digests, workflow : Workflows]
    BY DEF IInv, Shape
  <2>3. answers \subseteq Keys \X Digests \X Workflows
    BY <2>2 DEF IInv, KeysFit
  <2>4. \A t \in Transactions : tx[t].pc \in TxState
    BY DEF IInv, Shape, TxRecord
  <2> QED
    BY <2>1, <2>2, <2>3, <2>4 DEF LInv, TypeOK
<1> QED
  BY <1>1, <1>2, PTL
=============================================================================
