--------------------------- MODULE PublicationProofs ---------------------------
(***************************************************************************)
(* Proofs about Publication, for any number of epochs, rows and faults.    *)
(*                                                                         *)
(* The safety of the published rows rests on three facts: there is one     *)
(* task at most, and the gate is taken while it runs (LoneTask); what a    *)
(* task has written so far is determined by the step it is at (TaskOK);    *)
(* and every commitment, pinned or orphaned by a crash, opens to stored    *)
(* documents of its own row and epoch (LedgerOK).                          *)
(***************************************************************************)
EXTENDS Publication, TLAPS

(* The task of the gate is the only one (_publication_task).               *)
LoneTask ==
    /\ \A s, t \in flights : s = t
    /\ flights # {} => held

(* The documents of row i and its own epoch are stored.                    *)
Stored(i) ==
    /\ VectorDocument(i) \in store
    /\ RecordDocument(i, rows[i].epoch) \in store

(* A payload names a row and its epoch, and opens.                         *)
Opens(x) ==
    /\ x.row \in Ids /\ x.packets = rows[x.row].epoch
    /\ Stored(x.row)

(* Commitment c is of row i.                                               *)
CommitsTo(c, i) == c \in DOMAIN ledger /\ ledger[c].of = Payload(i, rows[i].epoch)

RowsOK == \A i \in Ids : rows[i].commit # 0 => CommitsTo(rows[i].commit, i)

LedgerOK ==
    \A c \in DOMAIN ledger :
        /\ Opens(ledger[c].of)
        /\ ledger[c].status = "anchored" => ledger[c].of \in onchain

ChainOK == \A x \in wire \cup onchain : Opens(x)

PublishedOK ==
    \A i \in Ids : rows[i].state = "published" =>
        rows[i].commit # 0 /\ ledger[rows[i].commit].status = "anchored"

(* What a task has done before its step.                                   *)
TaskOK(t) ==
    /\ t.row \in Ids
    /\ t.step # "resolve" => t.packets = rows[t.row].epoch
    /\ t.step \in {"resolve", "store"} => t.commit = rows[t.row].commit
    /\ t.step \in {"ledger", "attach"} => rows[t.row].commit = 0 /\ Stored(t.row)
    /\ t.step = "attach" => t.commit # 0 /\ CommitsTo(t.commit, t.row)
    /\ t.step \in {"anchor", "sent", "advance", "mark"} =>
          t.commit # 0 /\ t.commit = rows[t.row].commit
    /\ t.step = "advance" => ledger[t.commit].of \in onchain
    /\ t.step = "mark" => ledger[t.commit].status = "anchored"

TasksOK == \A t \in flights : TaskOK(t)

JustOK == just # 0 => just \in Ids

IInv == /\ TypeOK /\ LoneTask /\ RowsOK /\ LedgerOK /\ ChainOK /\ PublishedOK
        /\ TasksOK /\ JustOK

-----------------------------------------------------------------------------
(* The fields of rows, commitments and tasks have their types.             *)
LEMMA TypeFacts ==
    ASSUME TypeOK
    PROVE  /\ Len(rows) \in Nat /\ Ids = 1 .. Len(rows)
           /\ Len(ledger) \in Nat /\ DOMAIN ledger = 1 .. Len(ledger)
           /\ \A i \in Ids :
                 /\ rows[i] \in Row
                 /\ rows[i].state \in {"accepted", "published"}
                 /\ rows[i].epoch \in Epochs /\ rows[i].packets \in Epochs \cup {0}
                 /\ rows[i].commit \in Nat
           /\ \A c \in DOMAIN ledger :
                 /\ ledger[c] \in Commitment
                 /\ ledger[c].of \in Payloads
                 /\ ledger[c].status \in {"pending_chain", "anchored"}
           /\ \A t \in flights :
                 /\ t.row \in Nat /\ t.step \in Steps
                 /\ t.packets \in Epochs \cup {0} /\ t.commit \in Nat
  <1>1. rows \in Seq(Row) /\ ledger \in Seq(Commitment) /\ flights \subseteq Task
    BY DEF TypeOK
  <1>2. \A i \in 1 .. Len(rows) : rows[i] \in Row
    BY <1>1
  <1>3. \A c \in 1 .. Len(ledger) : ledger[c] \in Commitment
    BY <1>1
  <1> QED
    BY <1>1, <1>2, <1>3 DEF Row, Commitment, Task, Ids

(* One field of one row is written.                                        *)
LEMMA RowWritten ==
    ASSUME TypeOK, NEW i \in Ids, NEW r \in Row, rows' = [rows EXCEPT ![i] = r]
    PROVE  /\ rows' \in Seq(Row) /\ Len(rows') = Len(rows) /\ Ids' = Ids
           /\ rows'[i] = r /\ \A j \in Ids : j # i => rows'[j] = rows[j]
  BY TypeFacts DEF TypeOK, Ids

(* A commitment's status is written.                                       *)
LEMMA StatusWritten ==
    ASSUME TypeOK, NEW c \in DOMAIN ledger,
           ledger' = [ledger EXCEPT ![c].status = "anchored"]
    PROVE  /\ ledger' \in Seq(Commitment) /\ DOMAIN ledger' = DOMAIN ledger
           /\ ledger'[c].status = "anchored"
           /\ \A d \in DOMAIN ledger : /\ ledger'[d].of = ledger[d].of
                                       /\ d # c => ledger'[d] = ledger[d]
  <1>1. ledger \in Seq(Commitment) /\ ledger[c] \in Commitment
    BY TypeFacts DEF TypeOK
  <1>2. [ledger[c] EXCEPT !.status = "anchored"] \in Commitment
    BY <1>1 DEF Commitment
  <1> QED
    BY <1>1, <1>2 DEF Commitment

(* The only task moves on and the other variables of it stay.              *)
LEMMA TaskMoved ==
    ASSUME TypeOK, LoneTask, NEW t \in flights, NEW u \in Task,
           flights' = (flights \ {t}) \cup {u}
    PROVE  flights' = {u} /\ flights' \subseteq Task
  BY DEF LoneTask, TypeOK

(* The steps a task may be moved to.                                       *)
LEMMA MoveTyped ==
    ASSUME NEW t \in Task, NEW s \in Steps
    PROVE  /\ [t EXCEPT !.step = s] \in Task
           /\ [t EXCEPT !.step = s].step = s /\ [t EXCEPT !.step = s].row = t.row
           /\ [t EXCEPT !.step = s].packets = t.packets
           /\ [t EXCEPT !.step = s].commit = t.commit
  BY DEF Task

(* What opens goes on opening while documents and rows are only added.     *)
LEMMA OpensKept ==
    ASSUME store \subseteq store', Ids \subseteq Ids',
           \A i \in Ids : rows'[i].epoch = rows[i].epoch
    PROVE  /\ \A i \in Ids : Stored(i) => Stored(i)'
           /\ \A x : Opens(x) => Opens(x)'
  BY DEF Stored, Opens, VectorDocument, RecordDocument

(* The invariant on the records is kept by a step that leaves them alone.  *)
LEMMA RecordsKept ==
    ASSUME RowsOK, LedgerOK, ChainOK, PublishedOK,
           UNCHANGED <<rows, ledger, store, wire, onchain>>
    PROVE  RowsOK' /\ LedgerOK' /\ ChainOK' /\ PublishedOK'
  BY DEF RowsOK, LedgerOK, ChainOK, PublishedOK, CommitsTo, Opens, Stored, Ids,
         VectorDocument, RecordDocument, Payload

(* Documents are added, and of the rows only the packet lists are written. *)
LEMMA RecordsStay ==
    ASSUME RowsOK, LedgerOK, ChainOK, PublishedOK, store \subseteq store', Ids' = Ids,
           \A j \in Ids : /\ rows'[j].epoch = rows[j].epoch
                         /\ rows'[j].commit = rows[j].commit
                         /\ rows'[j].state = rows[j].state,
           UNCHANGED <<ledger, wire, onchain>>
    PROVE  RowsOK' /\ LedgerOK' /\ ChainOK' /\ PublishedOK'
  <1>1. \A x : Opens(x) => Opens(x)'
    BY OpensKept
  <1>2. RowsOK' /\ PublishedOK'
    BY DEF RowsOK, PublishedOK, CommitsTo, Payload
  <1>3. LedgerOK' /\ ChainOK'
    BY <1>1 DEF LedgerOK, ChainOK
  <1> QED
    BY <1>2, <1>3

(* What holds of a task holds while it waits.                              *)
LEMMA TasksKept ==
    ASSUME TasksOK, flights' \subseteq flights,
           UNCHANGED <<rows, ledger, store, onchain>>
    PROVE  TasksOK'
  BY DEF TasksOK, TaskOK, CommitsTo, Stored, Ids, VectorDocument, RecordDocument, Payload

-----------------------------------------------------------------------------
(* Every action keeps the invariant.                                       *)

LEMMA InitInv == Init => IInv
  <1> SUFFICES ASSUME Init PROVE IInv
    OBVIOUS
  <1>1. /\ rows = <<>> /\ ledger = <<>> /\ Ids = {} /\ DOMAIN ledger = {}
        /\ store = {} /\ wire = {} /\ onchain = {} /\ flights = {}
        /\ gate = TRUE /\ held = FALSE /\ failed = FALSE
        /\ waiting = FALSE /\ just = 0 /\ faults = 0
    BY DEF Init, Gate!GateInit, Ids
  <1>2. latest \in Epochs
    BY PublicationAssumption DEF Init, Epochs
  <1>3. rows \in Seq(Row) /\ ledger \in Seq(Commitment)
    BY <1>1
  <1>4. TypeOK
    BY <1>1, <1>2, <1>3 DEF TypeOK
  <1>5. LoneTask /\ RowsOK /\ LedgerOK /\ ChainOK /\ PublishedOK /\ TasksOK /\ JustOK
    BY <1>1 DEF LoneTask, RowsOK, LedgerOK, ChainOK, PublishedOK, TasksOK, JustOK
  <1> QED
    BY <1>4, <1>5 DEF IInv

(* Steps that touch neither a record nor a task.                           *)
LEMMA QuietStep ==
    ASSUME IInv, NewEpoch \/ StartRefused \/ BudgetExpires \/ RetryDue
    PROVE  IInv'
  <1> DEFINE Quiet ==
         /\ UNCHANGED <<rows, ledger, store, wire, onchain, flights, held, faults>>
         /\ latest' \in Epochs /\ gate' \in BOOLEAN /\ failed' = failed
         /\ waiting' \in BOOLEAN /\ (waiting' => waiting) /\ just' \in {just, 0}
  <1>0. TypeOK
    BY DEF IInv
  <1>1. Quiet
    <2>1. CASE NewEpoch
      <3>1. latest' \in Epochs
        BY <1>0, <2>1, PublicationAssumption DEF TypeOK, NewEpoch, Epochs
      <3> QED
        BY <1>0, <2>1, <3>1 DEF TypeOK, NewEpoch, durable, governor
    <2>2. CASE StartRefused
      BY <1>0, <2>2 DEF TypeOK, StartRefused, durable, governor, external
    <2>3. CASE BudgetExpires
      BY <1>0, <2>3 DEF TypeOK, BudgetExpires, durable, governor, external
    <2>4. CASE RetryDue
      BY <1>0, <2>4 DEF TypeOK, RetryDue, Gate!Reopen, durable, external
    <2> QED
      BY <2>1, <2>2, <2>3, <2>4
  <1>2. TypeOK'
    BY <1>1 DEF IInv, TypeOK
  <1>3. RowsOK' /\ LedgerOK' /\ ChainOK' /\ PublishedOK' /\ TasksOK'
    BY <1>1, RecordsKept, TasksKept DEF IInv
  <1>4. LoneTask' /\ JustOK'
    BY <1>1 DEF IInv, LoneTask, JustOK, Ids
  <1> QED
    BY <1>2, <1>3, <1>4 DEF IInv

(* A row is accepted.                                                      *)
LEMMA AcceptStep ==
    ASSUME IInv, NEW captured \in BOOLEAN, NEW submitted \in BOOLEAN,
           Accept(captured, submitted)
    PROVE  IInv'
  <1> DEFINE r == [state |-> "accepted", epoch |-> latest,
                   packets |-> IF captured THEN latest ELSE 0, commit |-> 0]
             n == Len(rows) + 1
  <1>0. /\ rows' = Append(rows, r)
        /\ UNCHANGED <<ledger, store, wire, onchain, latest, flights, waiting, faults,
                       gate, held, failed>>
        /\ just' \in {n, 0}
    BY DEF Accept, governor, external
  <1>1. r \in Row /\ r.commit = 0 /\ r.state = "accepted"
    BY DEF IInv, TypeOK, Row
  <1> HIDE DEF r
  <1>2. /\ rows' \in Seq(Row) /\ Ids = 1 .. Len(rows) /\ Ids' = 1 .. n /\ n \in Nat
        /\ rows'[n] = r /\ \A i \in Ids : rows'[i] = rows[i]
    BY <1>0, <1>1, TypeFacts DEF IInv, TypeOK, Ids
  <1> HIDE DEF n
  <1>3. TypeOK'
    BY <1>0, <1>2, TypeFacts DEF IInv, TypeOK, n
  <1>4. Ids \subseteq Ids' /\ Ids' = Ids \cup {n}
    BY <1>2, TypeFacts DEF IInv, n
  <1>5. /\ \A i \in Ids : Stored(i) => Stored(i)'
        /\ \A x : Opens(x) => Opens(x)'
        /\ \A c, i : i \in Ids /\ CommitsTo(c, i) => CommitsTo(c, i)'
    <2>1. \A c, i : i \in Ids /\ CommitsTo(c, i) => CommitsTo(c, i)'
      BY <1>0, <1>2 DEF CommitsTo, Payload
    <2> QED
      BY <2>1, <1>0, <1>2, <1>4, OpensKept
  <1>6. RowsOK'
    BY <1>1, <1>2, <1>4, <1>5 DEF IInv, RowsOK
  <1>7. LedgerOK' /\ ChainOK'
    BY <1>0, <1>5 DEF IInv, LedgerOK, ChainOK
  <1>8. PublishedOK'
    BY <1>0, <1>1, <1>2, <1>4 DEF IInv, PublishedOK
  <1>9. TasksOK'
    BY <1>0, <1>2, <1>4, <1>5 DEF IInv, TasksOK, TaskOK
  <1>10. LoneTask' /\ JustOK'
    BY <1>0, <1>2, <1>4 DEF IInv, LoneTask, JustOK
  <1> QED
    BY <1>3, <1>6, <1>7, <1>8, <1>9, <1>10 DEF IInv

(* A task is started: the gate was not held, so there is no other.         *)
LEMMA StartStep ==
    ASSUME IInv, NEW i \in Ids, Start(i)
    PROVE  IInv'
  <1> DEFINE t == [row |-> i, step |-> "resolve", packets |-> 0, commit |-> rows[i].commit]
  <1>1. /\ UNCHANGED <<rows, ledger, store, wire, onchain, latest, faults>>
        /\ ~held /\ held' = TRUE /\ gate' = FALSE /\ failed' = TRUE
        /\ flights' = flights \cup {t} /\ waiting' = TRUE /\ just' = 0
    BY DEF Start, Gate!Reserve, durable, external
  <1>2. flights' = {t}
    BY <1>1 DEF IInv, LoneTask
  <1>3. t \in Task
    BY TypeFacts DEF IInv, Task, Steps, Ids
  <1>4. TypeOK'
    BY <1>1, <1>2, <1>3 DEF IInv, TypeOK
  <1>5. TasksOK'
    BY <1>1, <1>2 DEF TasksOK, TaskOK, Ids
  <1>6. LoneTask' /\ JustOK'
    BY <1>1, <1>2 DEF LoneTask, JustOK
  <1>7. RowsOK' /\ LedgerOK' /\ ChainOK' /\ PublishedOK'
    BY <1>1, RecordsKept DEF IInv
  <1> QED
    BY <1>4, <1>5, <1>6, <1>7 DEF IInv

(* A task moves on: it is the only one, so what it wrote decides.          *)
LEMMA TaskAdvances ==
    ASSUME IInv, NEW t \in flights, NEW u \in Task,
           flights' = (flights \ {t}) \cup {u},
           UNCHANGED <<gate, held, failed, latest, waiting, just, faults>>,
           rows' \in Seq(Row), Ids' = Ids, ledger' \in Seq(Commitment),
           store' \subseteq Document, wire' \subseteq Payloads, onchain' = onchain,
           RowsOK', LedgerOK', ChainOK', PublishedOK', TaskOK(u)'
    PROVE  IInv'
  <1>1. flights' = {u} /\ flights' \subseteq Task
    BY TaskMoved DEF IInv
  <1>2. TypeOK'
    BY <1>1 DEF IInv, TypeOK
  <1>3. LoneTask' /\ TasksOK' /\ JustOK'
    BY <1>1 DEF IInv, LoneTask, TasksOK, JustOK
  <1> QED
    BY <1>2, <1>3 DEF IInv

(* _intent_publication_digests: the packets of the row's own epoch.        *)
LEMMA ResolveStep ==
    ASSUME IInv, NEW t \in flights, ResolveDigests(t)
    PROVE  IInv'
  <1> DEFINE r == [rows[t.row] EXCEPT !.packets = rows[t.row].epoch]
             v == [t EXCEPT !.step = "store", !.packets = rows[t.row].epoch]
  <1>0. TypeOK /\ TaskOK(t) /\ t \in Task /\ t.row \in Ids
    BY DEF IInv, TypeOK, TasksOK, TaskOK
  <1>1. /\ rows' = [rows EXCEPT ![t.row] = r] /\ flights' = (flights \ {t}) \cup {v}
        /\ UNCHANGED <<ledger, store, wire, onchain, latest, gate, held, failed,
                       waiting, just, faults>>
        /\ t.step = "resolve"
    BY DEF ResolveDigests, governor, external
  <1>2. /\ r \in Row /\ r.epoch = rows[t.row].epoch /\ r.commit = rows[t.row].commit
        /\ r.state = rows[t.row].state
    <2>1. rows[t.row] \in Row /\ rows[t.row].epoch \in Epochs
      BY <1>0, TypeFacts
    <2> QED
      BY <2>1 DEF Row
  <1>3. PICK u \in Task : /\ u = v /\ u.row = t.row /\ u.step = "store"
                          /\ u.packets = rows[t.row].epoch /\ u.commit = t.commit
    <2>1. rows[t.row].epoch \in Epochs
      BY <1>0, TypeFacts
    <2>2. v \in Task
      BY <1>0, <2>1 DEF Task, Steps
    <2>3. /\ v.row = t.row /\ v.step = "store" /\ v.packets = rows[t.row].epoch
          /\ v.commit = t.commit
      BY <1>0 DEF Task
    <2> QED
      BY <2>2, <2>3
  <1> HIDE DEF r, v
  <1>4. /\ rows' \in Seq(Row) /\ Ids' = Ids
        /\ \A j \in Ids : /\ rows'[j].epoch = rows[j].epoch
                         /\ rows'[j].commit = rows[j].commit
                         /\ rows'[j].state = rows[j].state
    BY <1>0, <1>1, <1>2, RowWritten
  <1>5. RowsOK' /\ LedgerOK' /\ ChainOK' /\ PublishedOK'
    BY <1>1, <1>4, RecordsStay DEF IInv
  <1>6. TaskOK(u)'
    BY <1>0, <1>1, <1>3, <1>4 DEF TaskOK
  <1>7. wire' \subseteq Payloads /\ ledger' \in Seq(Commitment) /\ store' \subseteq Document
    BY <1>0, <1>1 DEF TypeOK
  <1> QED
    BY <1>1, <1>3, <1>4, <1>5, <1>6, <1>7, TaskAdvances

(* The documents are stored before anything commits to them.               *)
LEMMA PutStep ==
    ASSUME IInv, NEW t \in flights, PutDocuments(t)
    PROVE  IInv'
  <1> DEFINE s == IF t.commit = 0 THEN "ledger" ELSE "anchor"
             u == [t EXCEPT !.step = s]
  <1>0. TypeOK /\ TaskOK(t) /\ t \in Task /\ t.row \in Ids
    BY DEF IInv, TypeOK, TasksOK, TaskOK
  <1>1. /\ store' = store \cup {VectorDocument(t.row), RecordDocument(t.row, t.packets)}
        /\ flights' = (flights \ {t}) \cup {u}
        /\ UNCHANGED <<rows, ledger, wire, onchain, latest, gate, held, failed,
                       waiting, just, faults>>
        /\ t.step = "store"
    BY DEF PutDocuments, Move, governor, external
  <1>2. /\ u \in Task /\ u.row = t.row /\ u.step = s /\ u.packets = t.packets
        /\ u.commit = t.commit
    <2>1. s \in Steps
      BY DEF Steps
    <2> QED
      BY <1>0, <2>1, MoveTyped
  <1> HIDE DEF u
  <1>3. store' \subseteq Document
    BY <1>0, <1>1, TypeFacts DEF TypeOK, Document, VectorDocument, RecordDocument
  <1>4. RowsOK' /\ LedgerOK' /\ ChainOK' /\ PublishedOK'
    BY <1>1, RecordsStay DEF IInv, Ids
  <1>5. TaskOK(u)'
    <2>1. t.packets = rows[t.row].epoch /\ t.commit = rows[t.row].commit
      BY <1>0, <1>1 DEF TaskOK
    <2>2. Stored(t.row)'
      BY <1>1, <2>1 DEF Stored, VectorDocument, RecordDocument
    <2> QED
      BY <1>0, <1>1, <1>2, <2>1, <2>2 DEF TaskOK, Ids
  <1>6. wire' \subseteq Payloads /\ rows' \in Seq(Row) /\ ledger' \in Seq(Commitment) /\ Ids' = Ids
    BY <1>0, <1>1 DEF TypeOK, Ids
  <1> QED
    BY <1>1, <1>2, <1>3, <1>4, <1>5, <1>6, TaskAdvances

(* CommitmentLedger.record: the commitment opens when it is made.          *)
LEMMA RecordStep ==
    ASSUME IInv, NEW t \in flights, RecordCommitment(t)
    PROVE  IInv'
  <1> DEFINE n == Len(ledger) + 1
             x == Payload(t.row, t.packets)
             k == [of |-> x, status |-> "pending_chain"]
             v == [t EXCEPT !.step = "attach", !.commit = n]
  <1>0. TypeOK /\ TaskOK(t) /\ t \in Task /\ t.row \in Ids
    BY DEF IInv, TypeOK, TasksOK, TaskOK
  <1>1. /\ ledger' = Append(ledger, k) /\ flights' = (flights \ {t}) \cup {v}
        /\ UNCHANGED <<rows, store, wire, onchain, latest, gate, held, failed,
                       waiting, just, faults>>
        /\ t.step = "ledger" /\ Ids' = Ids
    BY DEF RecordCommitment, governor, external, Ids
  <1>2. t.packets = rows[t.row].epoch /\ rows[t.row].commit = 0 /\ Stored(t.row)
    BY <1>0, <1>1 DEF TaskOK
  <1>3. Opens(x) /\ x \in Payloads
    BY <1>0, <1>2, TypeFacts DEF Opens, Payload, Payloads
  <1>4. k \in Commitment /\ k.of = x /\ k.status = "pending_chain"
    BY <1>3 DEF Commitment
  <1> HIDE DEF k
  <1>5. /\ n \in Nat /\ n # 0 /\ ledger' \in Seq(Commitment)
        /\ DOMAIN ledger' = DOMAIN ledger \cup {n} /\ n \notin DOMAIN ledger
        /\ ledger'[n] = k /\ \A c \in DOMAIN ledger : ledger'[c] = ledger[c]
    <2>1. /\ n \in Nat /\ n # 0 /\ ledger' \in Seq(Commitment) /\ Len(ledger') = n
          /\ ledger'[n] = k /\ \A c \in 1 .. Len(ledger) : ledger'[c] = ledger[c]
      BY <1>0, <1>1, <1>4 DEF TypeOK
    <2>2. DOMAIN ledger' = 1 .. n /\ DOMAIN ledger = 1 .. Len(ledger) /\ Len(ledger) \in Nat
      BY <1>0, <2>1, TypeFacts
    <2>3. 1 .. n = (1 .. Len(ledger)) \cup {n} /\ n \notin 1 .. Len(ledger)
      BY <2>2
    <2> QED
      BY <2>1, <2>2, <2>3
  <1>6. PICK u \in Task : /\ u = v /\ u.row = t.row /\ u.step = "attach"
                          /\ u.packets = t.packets /\ u.commit = n
    <2>1. v \in Task
      BY <1>0, <1>5 DEF Task, Steps
    <2>2. v.row = t.row /\ v.step = "attach" /\ v.packets = t.packets /\ v.commit = n
      BY <1>0 DEF Task
    <2> QED
      BY <2>1, <2>2
  <1> HIDE DEF n, v
  <1>7. \A y : Opens(y) => Opens(y)'
    BY <1>1, OpensKept
  <1>8. RowsOK' /\ PublishedOK'
    BY <1>1, <1>5 DEF IInv, RowsOK, PublishedOK, CommitsTo, Payload
  <1>9. LedgerOK' /\ ChainOK'
    <2>1. Opens(x)'
      BY <1>1, <1>3, <1>7 DEF Payload
    <2>2. LedgerOK'
      BY <1>1, <1>4, <1>5, <1>7, <2>1 DEF IInv, LedgerOK
    <2>3. ChainOK'
      BY <1>1, <1>7 DEF IInv, ChainOK
    <2> QED
      BY <2>2, <2>3
  <1>10. TaskOK(u)'
    <2>1. CommitsTo(u.commit, t.row)'
      BY <1>1, <1>2, <1>4, <1>5, <1>6 DEF CommitsTo
    <2>2. Stored(t.row)'
      BY <1>1, <1>2 DEF Stored, VectorDocument, RecordDocument
    <2> QED
      BY <1>0, <1>1, <1>2, <1>5, <1>6, <2>1, <2>2 DEF TaskOK
  <1>11. wire' \subseteq Payloads /\ rows' \in Seq(Row) /\ store' \subseteq Document
    BY <1>0, <1>1 DEF TypeOK
  <1> QED
    BY <1>1, <1>5, <1>6, <1>8, <1>9, <1>10, <1>11, TaskAdvances

(* attach_commitment: the row had no commitment until now.                 *)
LEMMA AttachStep ==
    ASSUME IInv, NEW t \in flights, AttachCommitment(t)
    PROVE  IInv'
  <1> DEFINE r == [rows[t.row] EXCEPT !.commit = t.commit]
             u == [t EXCEPT !.step = "anchor"]
  <1>0. TypeOK /\ TaskOK(t) /\ t \in Task /\ t.row \in Ids
    BY DEF IInv, TypeOK, TasksOK, TaskOK
  <1>1. /\ rows' = [rows EXCEPT ![t.row] = r] /\ flights' = (flights \ {t}) \cup {u}
        /\ UNCHANGED <<ledger, store, wire, onchain, latest, gate, held, failed,
                       waiting, just, faults>>
        /\ t.step = "attach"
    BY DEF AttachCommitment, Move, governor, external
  <1>2. /\ t.commit # 0 /\ CommitsTo(t.commit, t.row) /\ rows[t.row].commit = 0
        /\ t.packets = rows[t.row].epoch
    BY <1>0, <1>1 DEF TaskOK
  <1>3. /\ r \in Row /\ r.epoch = rows[t.row].epoch /\ r.commit = t.commit
        /\ r.state = rows[t.row].state
    <2>1. rows[t.row] \in Row /\ t.commit \in Nat
      BY <1>0, TypeFacts
    <2> QED
      BY <2>1 DEF Row
  <1>4. /\ u \in Task /\ u.row = t.row /\ u.step = "anchor" /\ u.packets = t.packets
        /\ u.commit = t.commit
    BY <1>0, MoveTyped DEF Steps
  <1> HIDE DEF r, u
  <1>5. /\ rows' \in Seq(Row) /\ Ids' = Ids /\ rows'[t.row] = r
        /\ \A j \in Ids : j # t.row => rows'[j] = rows[j]
    BY <1>0, <1>1, <1>3, RowWritten
  <1>6. /\ \A y : Opens(y) => Opens(y)'
        /\ \A j \in Ids : rows'[j].epoch = rows[j].epoch /\ rows'[j].state = rows[j].state
    <2>1. \A j \in Ids : rows'[j].epoch = rows[j].epoch /\ rows'[j].state = rows[j].state
      BY <1>3, <1>5
    <2> QED
      BY <1>1, <1>5, <2>1, OpensKept
  <1>7. LedgerOK' /\ ChainOK'
    BY <1>1, <1>6 DEF IInv, LedgerOK, ChainOK
  <1>8. RowsOK'
    BY <1>0, <1>1, <1>2, <1>3, <1>5, <1>6 DEF IInv, RowsOK, CommitsTo, Payload
  <1>9. PublishedOK'
    BY <1>0, <1>1, <1>2, <1>5, <1>6 DEF IInv, PublishedOK
  <1>10. TaskOK(u)'
    BY <1>0, <1>1, <1>2, <1>3, <1>4, <1>5 DEF TaskOK
  <1>11. wire' \subseteq Payloads /\ ledger' \in Seq(Commitment) /\ store' \subseteq Document
    BY <1>0, <1>1 DEF TypeOK
  <1> QED
    BY <1>1, <1>4, <1>5, <1>7, <1>8, <1>9, <1>10, <1>11, TaskAdvances

(* _anchor: a payload is sent only if its commitment is not yet anchored.  *)
LEMMA SendStep ==
    ASSUME IInv, NEW t \in flights, SendAnchor(t)
    PROVE  IInv'
  <1> DEFINE u(s) == [t EXCEPT !.step = s]
  <1>0. TypeOK /\ TaskOK(t) /\ t \in Task /\ t.row \in Ids
    BY DEF IInv, TypeOK, TasksOK, TaskOK
  <1>1. /\ UNCHANGED <<rows, ledger, store, onchain, latest, gate, held, failed,
                       waiting, just, faults>>
        /\ t.step = "anchor" /\ Ids' = Ids
    BY DEF SendAnchor, governor, durable, Ids
  <1>2. /\ t.commit # 0 /\ t.commit = rows[t.row].commit /\ t.packets = rows[t.row].epoch
        /\ CommitsTo(t.commit, t.row)
    BY <1>0, <1>1 DEF TaskOK, IInv, RowsOK
  <1>3. \A s \in Steps : /\ u(s) \in Task /\ u(s).row = t.row /\ u(s).step = s
                         /\ u(s).packets = t.packets /\ u(s).commit = t.commit
    BY <1>0, MoveTyped
  <1>4. rows' \in Seq(Row) /\ ledger' \in Seq(Commitment) /\ store' \subseteq Document
    BY <1>0, <1>1 DEF TypeOK
  <1>5. \A y : Opens(y) => Opens(y)'
    BY <1>1, OpensKept
  <1>6. RowsOK' /\ LedgerOK' /\ PublishedOK'
    BY <1>1, <1>5 DEF IInv, RowsOK, LedgerOK, PublishedOK, CommitsTo, Payload
  <1>7. CASE /\ ledger[t.commit].status # "pending_chain"
             /\ flights' = (flights \ {t}) \cup {u("mark")} /\ wire' = wire
    <2>1. ledger[t.commit].status = "anchored"
      BY <1>0, <1>2, <1>7, TypeFacts DEF CommitsTo
    <2>2. PICK w \in Task : /\ w = u("mark") /\ w.row = t.row /\ w.step = "mark"
                            /\ w.packets = t.packets /\ w.commit = t.commit
      BY <1>3 DEF Steps
    <2>3. TaskOK(w)'
      BY <1>0, <1>1, <1>2, <2>1, <2>2 DEF TaskOK
    <2>4. ChainOK' /\ wire' \subseteq Payloads
      BY <1>0, <1>1, <1>5, <1>7 DEF IInv, ChainOK, TypeOK
    <2> QED
      BY <1>1, <1>4, <1>6, <1>7, <2>2, <2>3, <2>4, TaskAdvances
  <1>8. CASE /\ flights' = (flights \ {t}) \cup {u("sent")}
             /\ wire' = wire \cup {ledger[t.commit].of}
    <2>2. PICK w \in Task : /\ w = u("sent") /\ w.row = t.row /\ w.step = "sent"
                            /\ w.packets = t.packets /\ w.commit = t.commit
      BY <1>3 DEF Steps
    <2>3. TaskOK(w)'
      BY <1>0, <1>1, <1>2, <2>2 DEF TaskOK
    <2>4. Opens(ledger[t.commit].of) /\ ledger[t.commit].of \in Payloads
      BY <1>0, <1>2, TypeFacts DEF IInv, LedgerOK, CommitsTo
    <2>5. ChainOK' /\ wire' \subseteq Payloads
      BY <1>0, <1>1, <1>5, <1>8, <2>4 DEF IInv, ChainOK, TypeOK
    <2> QED
      BY <1>1, <1>4, <1>6, <1>8, <2>2, <2>3, <2>5, TaskAdvances
  <1> QED
    BY <1>7, <1>8 DEF SendAnchor, Move

(* anchor_commitment returns only for a payload that is on chain.          *)
LEMMA AnchoredStep ==
    ASSUME IInv, NEW t \in flights, AnchorReturns(t)
    PROVE  IInv'
  <1> DEFINE u == [t EXCEPT !.step = "advance"]
  <1>0. TypeOK /\ TaskOK(t) /\ t \in Task /\ t.row \in Ids
    BY DEF IInv, TypeOK, TasksOK, TaskOK
  <1>1. /\ UNCHANGED <<rows, ledger, store, wire, onchain, latest, gate, held, failed,
                       waiting, just, faults>>
        /\ t.step = "sent" /\ Ids' = Ids /\ ledger[t.commit].of \in onchain
        /\ flights' = (flights \ {t}) \cup {u}
    BY DEF AnchorReturns, Move, governor, durable, external, Ids
  <1>2. /\ u \in Task /\ u.row = t.row /\ u.step = "advance" /\ u.packets = t.packets
        /\ u.commit = t.commit
    BY <1>0, MoveTyped DEF Steps
  <1> HIDE DEF u
  <1>3. RowsOK' /\ LedgerOK' /\ ChainOK' /\ PublishedOK'
    BY <1>1, RecordsKept DEF IInv
  <1>4. TaskOK(u)'
    BY <1>0, <1>1, <1>2 DEF TaskOK
  <1>5. /\ wire' \subseteq Payloads /\ rows' \in Seq(Row)
        /\ ledger' \in Seq(Commitment) /\ store' \subseteq Document
    BY <1>0, <1>1 DEF TypeOK
  <1> QED
    BY <1>1, <1>2, <1>3, <1>4, <1>5, TaskAdvances

(* CommitmentLedger.advance, of a payload that is on chain.                *)
LEMMA AdvanceStep ==
    ASSUME IInv, NEW t \in flights, AdvanceLedger(t)
    PROVE  IInv'
  <1> DEFINE u == [t EXCEPT !.step = "mark"]
             c == t.commit
  <1>0. TypeOK /\ TaskOK(t) /\ t \in Task /\ t.row \in Ids
    BY DEF IInv, TypeOK, TasksOK, TaskOK
  <1>1. /\ UNCHANGED <<rows, store, wire, onchain, latest, gate, held, failed,
                       waiting, just, faults>>
        /\ t.step = "advance" /\ Ids' = Ids
        /\ ledger' = [ledger EXCEPT ![c].status = "anchored"]
        /\ flights' = (flights \ {t}) \cup {u}
    BY DEF AdvanceLedger, Move, governor, external, Ids
  <1>2. /\ c # 0 /\ c = rows[t.row].commit /\ t.packets = rows[t.row].epoch
        /\ CommitsTo(c, t.row) /\ ledger[c].of \in onchain
    BY <1>0, <1>1 DEF TaskOK, IInv, RowsOK
  <1>3. /\ u \in Task /\ u.row = t.row /\ u.step = "mark" /\ u.packets = t.packets
        /\ u.commit = c
    BY <1>0, MoveTyped DEF Steps
  <1> HIDE DEF u, c
  <1>4. /\ ledger' \in Seq(Commitment) /\ DOMAIN ledger' = DOMAIN ledger
        /\ ledger'[c].status = "anchored"
        /\ \A d \in DOMAIN ledger : /\ ledger'[d].of = ledger[d].of
                                    /\ d # c => ledger'[d] = ledger[d]
    BY <1>0, <1>1, <1>2, StatusWritten DEF CommitsTo
  <1>5. \A y : Opens(y) => Opens(y)'
    BY <1>1, OpensKept
  <1>6. RowsOK'
    BY <1>1, <1>4 DEF IInv, RowsOK, CommitsTo, Payload
  <1>7. LedgerOK' /\ ChainOK'
    <2>1. ChainOK'
      BY <1>1, <1>5 DEF IInv, ChainOK
    <2>2. LedgerOK'
      BY <1>1, <1>2, <1>4, <1>5 DEF IInv, LedgerOK
    <2> QED
      BY <2>1, <2>2
  <1>8. PublishedOK'
    <2> SUFFICES ASSUME NEW i \in Ids, rows[i].state = "published"
                 PROVE  rows[i].commit # 0 /\ ledger'[rows[i].commit].status = "anchored"
      BY <1>1 DEF PublishedOK
    <2>1. /\ rows[i].commit # 0 /\ ledger[rows[i].commit].status = "anchored"
          /\ rows[i].commit \in DOMAIN ledger
      BY DEF IInv, PublishedOK, RowsOK, CommitsTo
    <2> QED
      BY <1>4, <2>1
  <1>9. TaskOK(u)'
    BY <1>0, <1>1, <1>2, <1>3, <1>4 DEF TaskOK, c
  <1>10. wire' \subseteq Payloads /\ rows' \in Seq(Row) /\ store' \subseteq Document
    BY <1>0, <1>1 DEF TypeOK
  <1> QED
    BY <1>1, <1>3, <1>4, <1>6, <1>7, <1>8, <1>9, <1>10, TaskAdvances

(* mark_published, of a row whose commitment is anchored.                  *)
LEMMA MarkStep ==
    ASSUME IInv, NEW t \in flights, MarkPublished(t)
    PROVE  IInv'
  <1> DEFINE r == [rows[t.row] EXCEPT !.state = "published"]
             u == [t EXCEPT !.step = "return"]
  <1>0. TypeOK /\ TaskOK(t) /\ t \in Task /\ t.row \in Ids
    BY DEF IInv, TypeOK, TasksOK, TaskOK
  <1>1. /\ rows' = [rows EXCEPT ![t.row] = r] /\ flights' = (flights \ {t}) \cup {u}
        /\ UNCHANGED <<ledger, store, wire, onchain, latest, gate, held, failed,
                       waiting, just, faults>>
        /\ t.step = "mark"
    BY DEF MarkPublished, Move, governor, external
  <1>2. /\ t.commit # 0 /\ t.commit = rows[t.row].commit /\ t.packets = rows[t.row].epoch
        /\ ledger[t.commit].status = "anchored"
    BY <1>0, <1>1 DEF TaskOK
  <1>3. /\ r \in Row /\ r.epoch = rows[t.row].epoch /\ r.commit = rows[t.row].commit
    <2>1. rows[t.row] \in Row
      BY <1>0, TypeFacts
    <2> QED
      BY <2>1 DEF Row
  <1>4. /\ u \in Task /\ u.row = t.row /\ u.step = "return" /\ u.packets = t.packets
        /\ u.commit = t.commit
    BY <1>0, MoveTyped DEF Steps
  <1> HIDE DEF r, u
  <1>5. /\ rows' \in Seq(Row) /\ Ids' = Ids /\ rows'[t.row] = r
        /\ \A j \in Ids : j # t.row => rows'[j] = rows[j]
    BY <1>0, <1>1, <1>3, RowWritten
  <1>6. \A j \in Ids : rows'[j].epoch = rows[j].epoch /\ rows'[j].commit = rows[j].commit
    BY <1>3, <1>5
  <1>7. \A y : Opens(y) => Opens(y)'
    BY <1>1, <1>5, <1>6, OpensKept
  <1>8. LedgerOK' /\ ChainOK'
    BY <1>1, <1>7 DEF IInv, LedgerOK, ChainOK
  <1>9. RowsOK'
    BY <1>1, <1>5, <1>6 DEF IInv, RowsOK, CommitsTo, Payload
  <1>10. PublishedOK'
    BY <1>0, <1>1, <1>2, <1>5, <1>6 DEF IInv, PublishedOK
  <1>11. TaskOK(u)'
    BY <1>0, <1>1, <1>2, <1>4, <1>5, <1>6 DEF TaskOK
  <1>12. wire' \subseteq Payloads /\ ledger' \in Seq(Commitment) /\ store' \subseteq Document
    BY <1>0, <1>1 DEF TypeOK
  <1> QED
    BY <1>1, <1>4, <1>5, <1>8, <1>9, <1>10, <1>11, <1>12, TaskAdvances

(* The process or its task ends and the records are left as they are.      *)
LEMMA TaskGone ==
    ASSUME IInv, flights' = {}, waiting' = FALSE, just' \in {just, 0}, faults' \in Nat,
           gate' \in BOOLEAN, held' \in BOOLEAN, failed' \in BOOLEAN,
           UNCHANGED <<rows, ledger, store, latest, wire, onchain>>
    PROVE  IInv'
  <1>0. TypeOK
    BY DEF IInv
  <1>1. TypeOK'
    <2>1. just' \in Nat
      BY <1>0 DEF TypeOK
    <2>2. gate' \in BOOLEAN /\ held' \in BOOLEAN /\ failed' \in BOOLEAN /\ waiting' \in BOOLEAN
      OBVIOUS
    <2> QED
      BY <1>0, <2>1, <2>2, Zenon DEF TypeOK, Epochs, Document, Payloads, Task
  <1>2. RowsOK' /\ LedgerOK' /\ ChainOK' /\ PublishedOK'
    BY RecordsKept DEF IInv
  <1>3. LoneTask' /\ TasksOK' /\ JustOK'
    BY DEF IInv, LoneTask, TasksOK, JustOK, Ids
  <1> QED
    BY <1>1, <1>2, <1>3 DEF IInv

(* The task returns or raises, its outcome recorded or not.                *)
LEMMA EndStep ==
    ASSUME IInv, NEW t \in flights, TaskReturns(t) \/ TaskRaises(t)
    PROVE  IInv'
  <1>0. TypeOK /\ LoneTask
    BY DEF IInv
  <1>1. PICK ok \in BOOLEAN : End(t, ok)
    BY DEF TaskReturns, TaskRaises
  <1>2. faults' \in Nat
    <2>1. faults' \in {faults, faults + 1}
      BY DEF TaskReturns, TaskRaises
    <2> QED
      BY <1>0, <2>1 DEF TypeOK
  <1>3. /\ flights' = flights \ {t} /\ waiting' = FALSE /\ just' = just
        /\ UNCHANGED <<rows, ledger, store, latest, wire, onchain>>
    BY <1>1 DEF End, durable, external
  <1>4. flights' = {}
    BY <1>0, <1>3 DEF LoneTask
  <1>5. gate' \in BOOLEAN /\ held' \in BOOLEAN /\ failed' \in BOOLEAN
    <2>1. CASE Gate!Finish(ok)
      BY <2>1, Zenon DEF Gate!Finish
    <2>2. CASE Gate!Lose
      BY <1>0, <2>2, Zenon DEF Gate!Lose, TypeOK
    <2> QED
      BY <1>1, <2>1, <2>2 DEF End
  <1> QED
    BY <1>2, <1>3, <1>4, <1>5, TaskGone

LEMMA CrashStep ==
    ASSUME IInv, Crash
    PROVE  IInv'
  <1>0. TypeOK
    BY DEF IInv
  <1>1. /\ flights' = {} /\ waiting' = FALSE /\ just' = 0
        /\ UNCHANGED <<rows, ledger, store, latest, wire, onchain>>
    BY DEF Crash, durable, external
  <1>2. faults' \in Nat
    BY <1>0 DEF Crash, TypeOK
  <1>3. gate' \in BOOLEAN /\ held' \in BOOLEAN /\ failed' \in BOOLEAN
    <2>1. CASE held
      BY <1>0, <2>1, Zenon DEF Crash, Gate!Lose, TypeOK
    <2>2. CASE ~held
      BY <1>0, <2>2, Zenon DEF Crash, governor, TypeOK
    <2> QED
      BY <2>1, <2>2
  <1> QED
    BY <1>1, <1>2, <1>3, TaskGone

(* An extrinsic lands or is dropped.                                       *)
LEMMA WireStep ==
    ASSUME IInv, NEW x \in wire, AnchorLands(x) \/ AnchorDropped(x)
    PROVE  IInv'
  <1>0. TypeOK
    BY DEF IInv
  <1>1. /\ UNCHANGED <<rows, ledger, store, latest, flights, waiting, just, faults,
                       gate, held, failed>>
        /\ wire' \subseteq wire /\ onchain \subseteq onchain' /\ Ids' = Ids
        /\ wire' \cup onchain' \subseteq wire \cup onchain
    BY DEF AnchorLands, AnchorDropped, durable, governor, Ids
  <1>2. TypeOK'
    <2>1. wire' \subseteq Payloads /\ onchain' \subseteq Payloads
      BY <1>0, <1>1 DEF TypeOK
    <2> QED
      BY <1>0, <1>1, <2>1 DEF TypeOK
  <1>3. \A y : Opens(y) => Opens(y)'
    BY <1>1, OpensKept
  <1>4. RowsOK' /\ PublishedOK'
    BY <1>1 DEF IInv, RowsOK, PublishedOK, CommitsTo, Payload
  <1>5. LedgerOK' /\ ChainOK'
    BY <1>1, <1>3 DEF IInv, LedgerOK, ChainOK
  <1>6. TasksOK'
    <2> SUFFICES ASSUME NEW t \in flights PROVE TaskOK(t)'
      BY <1>1 DEF TasksOK
    <2>1. TaskOK(t)
      BY DEF IInv, TasksOK
    <2>2. Stored(t.row) => Stored(t.row)'
      BY <1>1 DEF Stored, VectorDocument, RecordDocument
    <2>3. CommitsTo(t.commit, t.row) => CommitsTo(t.commit, t.row)'
      BY <1>1 DEF CommitsTo, Payload
    <2> QED
      BY <1>1, <2>1, <2>2, <2>3 DEF TaskOK
  <1>7. LoneTask' /\ JustOK'
    BY <1>1 DEF IInv, LoneTask, JustOK
  <1> QED
    BY <1>2, <1>4, <1>5, <1>6, <1>7 DEF IInv

-----------------------------------------------------------------------------
(* The invariant and what follows from it.                                 *)

LEMMA StepInv == IInv /\ [Next]_vars => IInv'
  <1> SUFFICES ASSUME IInv, [Next]_vars PROVE IInv'
    OBVIOUS
  <1>1. CASE NewEpoch \/ StartRefused \/ BudgetExpires \/ RetryDue
    BY <1>1, QuietStep
  <1>2. CASE \E captured, submitted \in BOOLEAN : Accept(captured, submitted)
    BY <1>2, AcceptStep
  <1>3. CASE StartSubmitted
    <2>1. just \in Ids
      BY <1>3 DEF StartSubmitted, IInv, JustOK
    <2>2. PICK i \in Ids : i = just
      BY <2>1
    <2> QED
      BY <1>3, <2>2, StartStep DEF StartSubmitted
  <1>4. CASE Drain
    BY <1>4, StartStep DEF Drain
  <1>5. CASE \E t \in flights : TaskStep(t)
    <2>1. PICK t \in flights : TaskStep(t)
      BY <1>5
    <2> QED
      BY <2>1, ResolveStep, PutStep, RecordStep, AttachStep, SendStep, AnchoredStep,
         AdvanceStep, MarkStep, EndStep DEF TaskStep, LocalWrite
  <1>6. CASE \E x \in wire : AnchorLands(x) \/ AnchorDropped(x)
    BY <1>6, WireStep
  <1>7. CASE Crash
    BY <1>7, CrashStep
  <1>8. CASE UNCHANGED vars
    <2>1. UNCHANGED <<rows, ledger, store, wire, onchain, flights, held, faults, latest,
                      gate, failed, waiting, just>>
      BY <1>8 DEF vars, durable, governor, external
    <2>2. TypeOK'
      BY <2>1 DEF IInv, TypeOK
    <2>3. RowsOK' /\ LedgerOK' /\ ChainOK' /\ PublishedOK' /\ TasksOK'
      BY <2>1, RecordsKept, TasksKept DEF IInv
    <2>4. LoneTask' /\ JustOK'
      BY <2>1 DEF IInv, LoneTask, JustOK, Ids
    <2> QED
      BY <2>2, <2>3, <2>4 DEF IInv
  <1> QED
    BY <1>1, <1>2, <1>3, <1>4, <1>5, <1>6, <1>7, <1>8 DEF Next

LEMMA Invariance == Spec => []IInv
  BY InitInv, StepInv, PTL DEF Spec

(* The types, and that the loop waits only for a task that is in flight.   *)
THEOREM PublicationTypeCorrect == Spec => []TypeOK
  <1>1. IInv => TypeOK
    BY DEF IInv
  <1> QED
    BY <1>1, Invariance, PTL

(* Whatever is retried, timed out, orphaned by a crash or landed late: a   *)
(* published row is anchored and opens, and so does every anchor           *)
(* (_publish_intent).                                                      *)
THEOREM PublicationIsOpenCorrect == Spec => []PublicationIsOpen
  <1>1. IInv => PublicationIsOpen
    <2> SUFFICES ASSUME IInv PROVE PublicationIsOpen
      OBVIOUS
    <2>1. AnchorsOpen
      BY DEF IInv, ChainOK, Opens, Stored, AnchorsOpen
    <2>2. PublishedMeansAudited
      <3> SUFFICES ASSUME NEW i \in Ids, rows[i].state = "published"
                   PROVE  /\ rows[i].commit \in DOMAIN ledger
                          /\ ledger[rows[i].commit].of = Payload(i, rows[i].epoch)
                          /\ ledger[rows[i].commit].status = "anchored"
                          /\ Payload(i, rows[i].epoch) \in onchain
                          /\ VectorDocument(i) \in store
                          /\ RecordDocument(i, rows[i].epoch) \in store
        BY DEF PublishedMeansAudited
      <3>1. rows[i].commit # 0 /\ ledger[rows[i].commit].status = "anchored"
        BY DEF IInv, PublishedOK
      <3>2. CommitsTo(rows[i].commit, i)
        BY <3>1 DEF IInv, RowsOK
      <3>3. Payload(i, rows[i].epoch) \in onchain /\ Opens(Payload(i, rows[i].epoch))
        BY <3>1, <3>2 DEF IInv, LedgerOK, CommitsTo
      <3>4. Stored(i)
        BY <3>3 DEF Opens, Payload
      <3> QED
        BY <3>1, <3>2, <3>3, <3>4 DEF CommitsTo, Stored
    <2> QED
      BY <2>1, <2>2 DEF PublicationIsOpen
  <1> QED
    BY <1>1, Invariance, PTL

(* What no step may do to a pinned commitment or to a ledger row.          *)
Pinned ==
    /\ \A i \in Ids : rows[i].commit # 0 => rows'[i].commit = rows[i].commit
    /\ \A c \in DOMAIN ledger :
          /\ ledger'[c].of = ledger[c].of
          /\ ledger[c].status = "anchored" => ledger'[c].status = "anchored"

LEMMA PinnedStep == IInv /\ [Next]_vars => [Pinned]_vars
  <1> SUFFICES ASSUME IInv, Next PROVE Pinned
    OBVIOUS
  <1>0. TypeOK /\ TasksOK /\ TypeOK'
    BY StepInv DEF IInv
  <1>1. CASE UNCHANGED <<rows, ledger>>
    BY <1>1 DEF Pinned
  <1>2. ASSUME NEW captured \in BOOLEAN, NEW submitted \in BOOLEAN,
               Accept(captured, submitted)
        PROVE  Pinned
    <2>1. /\ \A i \in Ids : rows'[i] = rows[i]
          /\ ledger' = ledger
      BY <1>0, <1>2, TypeFacts DEF TypeOK, Accept
    <2> QED
      BY <2>1 DEF Pinned
  <1>3. ASSUME NEW t \in flights, TaskStep(t)
        PROVE  Pinned
    <2>0. /\ t \in Task /\ TaskOK(t) /\ t.row \in Ids /\ rows[t.row] \in Row
          /\ t.commit \in Nat
      BY <1>0, TypeFacts DEF TypeOK, TasksOK, TaskOK
    <2>1. CASE ResolveDigests(t)
      <3>1. ledger' = ledger /\ rows' = [rows EXCEPT ![t.row].packets = rows[t.row].epoch]
        BY <2>1 DEF ResolveDigests
      <3>2. \A i \in Ids : rows[i] \in Row
        BY <1>0, TypeFacts
      <3>3. \A i \in Ids : rows'[i].commit = rows[i].commit
        BY <3>1, <3>2 DEF Ids, Row
      <3> QED
        BY <3>1, <3>3 DEF Pinned
    <2>2. CASE RecordCommitment(t)
      <3>1. rows' = rows /\ \A c \in DOMAIN ledger : ledger'[c] = ledger[c]
        BY <1>0, <2>2, TypeFacts DEF RecordCommitment, TypeOK
      <3> QED
        BY <3>1 DEF Pinned
    <2>3. CASE AttachCommitment(t)
      <3>1. ledger' = ledger /\ rows' = [rows EXCEPT ![t.row].commit = t.commit]
        BY <2>3 DEF AttachCommitment
      <3>2. rows[t.row].commit = 0
        BY <2>0, <2>3 DEF TaskOK, AttachCommitment
      <3>3. \A i \in Ids : i # t.row => rows'[i] = rows[i]
        BY <3>1 DEF Ids
      <3> QED
        BY <3>1, <3>2, <3>3 DEF Pinned
    <2>4. CASE AdvanceLedger(t)
      <3>1. rows' = rows /\ ledger' = [ledger EXCEPT ![t.commit].status = "anchored"]
        BY <2>4 DEF AdvanceLedger
      <3>2. t.commit \in DOMAIN ledger
        BY <2>0, <2>4 DEF TaskOK, AdvanceLedger, IInv, RowsOK, CommitsTo
      <3>3. /\ ledger'[t.commit].status = "anchored"
            /\ \A d \in DOMAIN ledger : /\ ledger'[d].of = ledger[d].of
                                        /\ d # t.commit => ledger'[d] = ledger[d]
        BY <1>0, <3>1, <3>2, StatusWritten
      <3> QED
        BY <3>1, <3>3 DEF Pinned
    <2>5. CASE MarkPublished(t)
      <3>1. ledger' = ledger /\ rows' = [rows EXCEPT ![t.row].state = "published"]
        BY <2>5 DEF MarkPublished
      <3>2. \A i \in Ids : rows[i] \in Row
        BY <1>0, TypeFacts
      <3>3. \A i \in Ids : rows'[i].commit = rows[i].commit
        BY <3>1, <3>2 DEF Ids, Row
      <3> QED
        BY <3>1, <3>3 DEF Pinned
    <2>6. CASE PutDocuments(t) \/ SendAnchor(t) \/ AnchorReturns(t) \/ TaskReturns(t) \/ TaskRaises(t)
      BY <1>1, <2>6
         DEF PutDocuments, SendAnchor, AnchorReturns, TaskReturns, TaskRaises, End, durable
    <2> QED
      BY <1>3, <2>1, <2>2, <2>3, <2>4, <2>5, <2>6 DEF TaskStep, LocalWrite
  <1>4. CASE NewEpoch \/ StartSubmitted \/ StartRefused \/ Drain \/ BudgetExpires \/ RetryDue
             \/ Crash \/ \E x \in wire : AnchorLands(x) \/ AnchorDropped(x)
    BY <1>1, <1>4
       DEF NewEpoch, StartSubmitted, StartRefused, Drain, Start, BudgetExpires, RetryDue,
           Crash, AnchorLands, AnchorDropped, durable
  <1> QED
    BY <1>2, <1>3, <1>4 DEF Next

(* A pinned commitment stays pinned and the ledger is append-only up to    *)
(* the status (attach_commitment, CommitmentLedger).                       *)
THEOREM CommitmentsPinnedCorrect == Spec => CommitmentsPinned
  <1>1. IInv /\ [Next]_vars => [Pinned]_vars
    BY PinnedStep
  <1> QED
    BY <1>1, Invariance, PTL DEF Spec, CommitmentsPinned, Pinned

(* The publication path uses the retry budget as the gate promises it may: *)
(* a start reserves, the end of a task finishes or loses the attempt, a    *)
(* crash loses it (_publish_intent_bounded, _run_publication_task).        *)
THEOREM UsesTheGate == Spec => Gate!GateSpec
  <1>1. Init => Gate!GateInit
    BY DEF Init
  <1>2. [Next]_vars => [Gate!GateNext]_(Gate!gateVars)
    <2> SUFFICES ASSUME [Next]_vars
                 PROVE  Gate!GateNext \/ UNCHANGED governor
      BY DEF governor, Gate!gateVars
    <2>1. CASE \E t \in flights : TaskStep(t)
      <3>1. PICK t \in flights : TaskStep(t)
        BY <2>1
      <3>2. CASE TaskReturns(t) \/ TaskRaises(t)
        BY <3>2 DEF TaskReturns, TaskRaises, End, Gate!GateNext
      <3>3. CASE ~(TaskReturns(t) \/ TaskRaises(t))
        BY <3>1, <3>3
           DEF TaskStep, LocalWrite, ResolveDigests, PutDocuments, RecordCommitment,
               AttachCommitment, SendAnchor, AnchorReturns, AdvanceLedger, MarkPublished
      <3> QED
        BY <3>2, <3>3
    <2>2. CASE StartSubmitted \/ Drain
      BY <2>2 DEF StartSubmitted, Drain, Start, Gate!GateNext
    <2>3. CASE RetryDue
      BY <2>3 DEF RetryDue, Gate!GateNext
    <2>4. CASE Crash
      BY <2>4 DEF Crash, Gate!GateNext
    <2>5. CASE \/ NewEpoch \/ StartRefused \/ BudgetExpires
               \/ \E captured, submitted \in BOOLEAN : Accept(captured, submitted)
               \/ \E x \in wire : AnchorLands(x) \/ AnchorDropped(x)
      BY <2>5 DEF NewEpoch, StartRefused, BudgetExpires, Accept, AnchorLands, AnchorDropped
    <2>6. CASE UNCHANGED vars
      BY <2>6 DEF vars
    <2> QED
      BY <2>1, <2>2, <2>3, <2>4, <2>5, <2>6 DEF Next
  <1> QED
    BY <1>1, <1>2, PTL DEF Spec, Gate!GateSpec

=============================================================================
