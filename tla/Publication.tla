------------------------------ MODULE Publication ------------------------------
(***************************************************************************)
(* Publication of accepted rows of the weight-intent ledger: the detached  *)
(* single-flight task of vidaio/weightsetter/service.py (_publish_intent   *)
(* and what starts and ends it), the CommitmentLedger it writes            *)
(* (vidaio/audit/commitments.py), the write-once artifact store and the    *)
(* anchor extrinsic.  How a row becomes accepted is module WeightSetter;   *)
(* when a start is allowed is module PublicationGate.                      *)
(*                                                                         *)
(* The content of a publication is determined by its row and by the packet *)
(* set it commits to, and a packet set is named by the epoch it belongs    *)
(* to.                                                                     *)
(***************************************************************************)
EXTENDS Integers, Sequences, FiniteSets

CONSTANTS
    MaxEpoch,   \* bound of the model: authority epochs
    BadEpochs,  \* epochs whose packet evidence never validates
    MaxRows,    \* bound of the model: rows accepted
    MaxFaults   \* bound of the model: crashes and lost local writes

ASSUME PublicationAssumption ==
    /\ MaxEpoch \in Nat \ {0} /\ MaxRows \in Nat /\ MaxFaults \in Nat
    /\ BadEpochs \subseteq 1 .. MaxEpoch

VARIABLES
    \* durable, of this validator
    rows,     \* weight_intents, the accepted and the published ones
    ledger,   \* commitment_ledger and its status events
    store,    \* the artifact store: documents, by content
    gate, failed,  \* weight_publication_attempts, see PublicationGate
    \* external
    latest,   \* the authority's current epoch
    wire,     \* anchor extrinsics that may still land
    onchain,  \* anchored payloads
    \* the process, lost in a crash
    held,     \* _publication_task is a task that is not done
    flights,  \* publication tasks that run
    waiting,  \* the service loop waits for the task's time budget
    just,     \* the row whose post-submit start is due, 0 without one
    faults    \* faults so far

durable  == <<rows, ledger, store>>
governor == <<gate, held, failed>>
external == <<latest, wire, onchain>>
vars == <<durable, governor, external, flights, waiting, just, faults>>

Gate == INSTANCE PublicationGate WITH running <- held

Epochs == 1 .. MaxEpoch
Ids == DOMAIN rows

(* packets: packet_digests_json, 0 for null; commit: commitment_id, 0 for  *)
(* null.                                                                   *)
Row == [state : {"accepted", "published"}, epoch : Epochs,
        packets : Epochs \cup {0}, commit : Nat]

Payload(i, p) == [row |-> i, packets |-> p]
Payloads == [row : Nat, packets : Epochs]

Commitment == [of : Payloads, status : {"pending_chain", "anchored"}]

(* weight_vector_document and the publication record, in the store         *)
VectorDocument(i) == [kind |-> "weight_vector", row |-> i, packets |-> 0]
RecordDocument(i, p) == [kind |-> "manifest", row |-> i, packets |-> p]
Document == [kind : {"weight_vector", "manifest"}, row : Nat, packets : Epochs \cup {0}]

(* The steps of _publish_intent.  A task keeps what it read of its row at  *)
(* its start (commit) and what it resolved (packets).                      *)
Steps == {"resolve", "store", "ledger", "attach", "anchor", "sent",
          "advance", "mark", "return"}
Task == [row : Nat, step : Steps, packets : Epochs \cup {0}, commit : Nat]

Init ==
    /\ rows = <<>> /\ ledger = <<>> /\ store = {}
    /\ Gate!GateInit
    /\ latest = 1 /\ wire = {} /\ onchain = {}
    /\ flights = {} /\ waiting = FALSE /\ just = 0 /\ faults = 0

-----------------------------------------------------------------------------
(* The service loop.                                                       *)

Idle == ~waiting /\ just = 0

NewEpoch ==
    /\ latest < MaxEpoch
    /\ latest' = latest + 1
    /\ UNCHANGED <<durable, governor, wire, onchain, flights, waiting, just, faults>>

(* A row is accepted for the current epoch, its packet references captured *)
(* before submission or not (_committed_authority_packet_digests).  After  *)
(* a submission its publication is started next (attempt_once); after a    *)
(* reconciliation it is left to the drain.                                 *)
Accept(captured, submitted) ==
    /\ Idle
    /\ Len(rows) < MaxRows
    /\ rows' = Append(rows, [state |-> "accepted", epoch |-> latest,
                             packets |-> IF captured THEN latest ELSE 0, commit |-> 0])
    /\ just' = IF submitted THEN Len(rows) + 1 ELSE 0
    /\ UNCHANGED <<ledger, store, governor, external, flights, waiting, faults>>

(* _publish_intent_bounded grants row i a start.                           *)
Start(i) ==
    /\ Gate!Reserve
    /\ flights' = flights \cup
          {[row |-> i, step |-> "resolve", packets |-> 0, commit |-> rows[i].commit]}
    /\ waiting' = TRUE
    /\ just' = 0
    /\ UNCHANGED <<durable, external, faults>>

StartSubmitted == just # 0 /\ Start(just)

(* A task is in flight, or the budget of starts is used up.                *)
StartRefused ==
    /\ just # 0
    /\ held \/ ~gate
    /\ just' = 0
    /\ UNCHANGED <<durable, governor, external, flights, waiting, faults>>

(* _drain_one_accepted_publication: the oldest accepted row, no other.     *)
Drain ==
    /\ Idle
    /\ \E i \in Ids :
          /\ rows[i].state = "accepted"
          /\ \A j \in Ids : rows[j].state = "accepted" => i <= j
          /\ Start(i)

(* The time budget of the task is over: the loop goes on, the task stays   *)
(* in flight (asyncio.shield).                                             *)
BudgetExpires ==
    /\ waiting
    /\ waiting' = FALSE
    /\ UNCHANGED <<durable, governor, external, flights, just, faults>>

RetryDue ==
    /\ Gate!Reopen
    /\ UNCHANGED <<durable, external, flights, waiting, just, faults>>

-----------------------------------------------------------------------------
(* The task.                                                               *)

Move(t, step) == flights' = (flights \ {t}) \cup {[t EXCEPT !.step = step]}

(* _intent_publication_digests: the packets of the row's own epoch, which  *)
(* a captured list must agree with and a null one is filled from.          *)
ResolveDigests(t) ==
    /\ t.step = "resolve"
    /\ LET e == rows[t.row].epoch
       IN  /\ e \notin BadEpochs
           /\ rows[t.row].packets \in {0, e}
           /\ rows' = [rows EXCEPT ![t.row].packets = e]
           /\ flights' = (flights \ {t}) \cup {[t EXCEPT !.step = "store", !.packets = e]}
    /\ UNCHANGED <<ledger, store, governor, external, waiting, just, faults>>

(* Mutant: a commitment is recorded at every attempt.                      *)
PutIgnoringCommitment(t) ==
    /\ t.step = "store"
    /\ store' = store \cup {VectorDocument(t.row), RecordDocument(t.row, t.packets)}
    /\ Move(t, "ledger")
    /\ UNCHANGED <<rows, ledger, governor, external, waiting, just, faults>>

(* Both documents are put into the store.  A commitment is needed unless   *)
(* the row had one when the task read it.                                  *)
PutDocuments(t) ==
    /\ t.step = "store"
    /\ store' = store \cup {VectorDocument(t.row), RecordDocument(t.row, t.packets)}
    /\ Move(t, IF t.commit = 0 THEN "ledger" ELSE "anchor")
    /\ UNCHANGED <<rows, ledger, governor, external, waiting, just, faults>>

(* CommitmentLedger.record: a row with its first status, in one commit     *)
RecordCommitment(t) ==
    /\ t.step = "ledger"
    /\ ledger' = Append(ledger, [of |-> Payload(t.row, t.packets),
                                 status |-> "pending_chain"])
    /\ flights' = (flights \ {t}) \cup
          {[t EXCEPT !.step = "attach", !.commit = Len(ledger) + 1]}
    /\ UNCHANGED <<rows, store, governor, external, waiting, just, faults>>

(* attach_commitment, a second local commit                                *)
AttachCommitment(t) ==
    /\ t.step = "attach"
    /\ rows' = [rows EXCEPT ![t.row].commit = t.commit]
    /\ Move(t, "anchor")
    /\ UNCHANGED <<ledger, store, governor, external, waiting, just, faults>>

(* _anchor: an anchored commitment is not anchored again; another one is   *)
(* sent, once the writer lane and the chain's space budget allow it.       *)
SendAnchor(t) ==
    /\ t.step = "anchor"
    /\ \/ /\ ledger[t.commit].status # "pending_chain"
          /\ Move(t, "mark")
          /\ UNCHANGED wire
       \/ /\ ledger[t.commit].status = "pending_chain"
          /\ wire' = wire \cup {ledger[t.commit].of}
          /\ Move(t, "sent")
    /\ UNCHANGED <<durable, governor, latest, onchain, waiting, just, faults>>

(* Mutant: a timeout of the call is taken for success.                     *)
AnchorAssumed(t) ==
    /\ t.step = "sent"
    /\ Move(t, "advance")
    /\ UNCHANGED <<durable, governor, external, waiting, just, faults>>

(* anchor_commitment returns: the extrinsic is finalized.                  *)
AnchorReturns(t) ==
    /\ t.step = "sent"
    /\ ledger[t.commit].of \in onchain
    /\ Move(t, "advance")
    /\ UNCHANGED <<durable, governor, external, waiting, just, faults>>

(* CommitmentLedger.advance, to anchored                                   *)
AdvanceLedger(t) ==
    /\ t.step = "advance"
    /\ ledger' = [ledger EXCEPT ![t.commit].status = "anchored"]
    /\ Move(t, "mark")
    /\ UNCHANGED <<rows, store, governor, external, waiting, just, faults>>

MarkPublished(t) ==
    /\ t.step = "mark"
    /\ rows' = [rows EXCEPT ![t.row].state = "published"]
    /\ Move(t, "return")
    /\ UNCHANGED <<ledger, store, governor, external, waiting, just, faults>>

(* Mutant: the flag of a task that overran its budget is never taken back. *)
EndKeepingFlag(t, ok) ==
    /\ flights' = flights \ {t}
    /\ waiting' = FALSE
    /\ IF waiting THEN Gate!Finish(ok) ELSE UNCHANGED governor
    /\ UNCHANGED <<durable, external, just>>

(* The end of _run_publication_task: the outcome is recorded, or recording *)
(* it fails and the reservation stands.                                    *)
End(t, ok) ==
    /\ flights' = flights \ {t}
    /\ waiting' = FALSE
    /\ Gate!Finish(ok) \/ Gate!Lose
    /\ UNCHANGED <<durable, external, just>>

TaskReturns(t) ==
    /\ t.step = "return"
    /\ End(t, TRUE)
    /\ UNCHANGED faults

(* The step raises or returns early: unreadable or disagreeing evidence,   *)
(* the store, the writer lane, the capacity check, a timeout with the      *)
(* extrinsic still out, a wall clock that ran backwards between two ledger *)
(* events.  Losing the write that pins the commitment counts as a fault.   *)
TaskRaises(t) ==
    /\ t.step # "return"
    /\ t.step = "attach" => faults < MaxFaults
    /\ faults' = IF t.step = "attach" THEN faults + 1 ELSE faults
    /\ End(t, FALSE)

-----------------------------------------------------------------------------
(* The chain (external) and crashes.                                       *)

AnchorLands(x) ==
    /\ x \in wire
    /\ wire' = wire \ {x}
    /\ onchain' = onchain \cup {x}
    /\ UNCHANGED <<durable, governor, latest, flights, waiting, just, faults>>

AnchorDropped(x) ==
    /\ x \in wire
    /\ wire' = wire \ {x}
    /\ UNCHANGED <<durable, governor, latest, onchain, flights, waiting, just, faults>>

Crash ==
    /\ faults < MaxFaults
    /\ faults' = faults + 1
    /\ flights' = {} /\ waiting' = FALSE /\ just' = 0
    /\ IF held THEN Gate!Lose ELSE UNCHANGED governor
    /\ UNCHANGED <<durable, external>>

(* The steps that only commit to the local database.                       *)
LocalWrite(t) ==
    RecordCommitment(t) \/ AttachCommitment(t) \/ AdvanceLedger(t) \/ MarkPublished(t)

TaskStep(t) ==
    \/ ResolveDigests(t) \/ PutDocuments(t) \/ LocalWrite(t)
    \/ SendAnchor(t) \/ AnchorReturns(t)
    \/ TaskReturns(t) \/ TaskRaises(t)

Next ==
    \/ NewEpoch
    \/ \E captured, submitted \in BOOLEAN : Accept(captured, submitted)
    \/ StartSubmitted \/ StartRefused \/ Drain \/ BudgetExpires \/ RetryDue
    \/ \E t \in flights : TaskStep(t)
    \/ \E x \in wire : AnchorLands(x) \/ AnchorDropped(x)
    \/ Crash

Spec == Init /\ [][Next]_vars

(* The loop keeps draining, the clock reaches the retry time, a task gets  *)
(* to its end, and neither the authority's archive, the store, the local   *)
(* database nor the chain fails every time it is asked.                    *)
Fairness ==
    /\ WF_vars(StartSubmitted \/ StartRefused)
    /\ WF_vars(Drain) /\ WF_vars(RetryDue)
    /\ WF_vars(\E t \in flights : TaskStep(t))
    /\ SF_vars(\E t \in flights : ResolveDigests(t))
    /\ SF_vars(\E t \in flights : PutDocuments(t))
    /\ SF_vars(\E t \in flights : LocalWrite(t))
    /\ SF_vars(\E t \in flights : SendAnchor(t))
    /\ SF_vars(\E t \in flights : AnchorReturns(t))
    /\ SF_vars(\E x \in wire : AnchorLands(x))

FairSpec == Spec /\ Fairness

-----------------------------------------------------------------------------
(* Properties.                                                             *)

(* Every variable stays in its domain; the loop waits only for a task that *)
(* is in flight.                                                           *)
TypeOK ==
    /\ rows \in Seq(Row) /\ ledger \in Seq(Commitment)
    /\ store \subseteq Document
    /\ gate \in BOOLEAN /\ held \in BOOLEAN /\ failed \in BOOLEAN
    /\ latest \in Epochs
    /\ wire \subseteq Payloads /\ onchain \subseteq Payloads
    /\ flights \subseteq Task
    /\ waiting \in BOOLEAN /\ just \in Nat /\ faults \in Nat
    /\ waiting => flights # {}

(* A published row names an anchored commitment to exactly its own vector  *)
(* and its own epoch's packets, the payload is on chain, and both          *)
(* documents can be opened, whatever was retried, timed out or crashed on  *)
(* the way (_publish_intent).                                              *)
PublishedMeansAudited ==
    \A i \in Ids : rows[i].state = "published" =>
        /\ rows[i].commit \in DOMAIN ledger
        /\ ledger[rows[i].commit].of = Payload(i, rows[i].epoch)
        /\ ledger[rows[i].commit].status = "anchored"
        /\ Payload(i, rows[i].epoch) \in onchain
        /\ VectorDocument(i) \in store
        /\ RecordDocument(i, rows[i].epoch) \in store

(* An anchor that is or may come on chain, even one whose call timed out   *)
(* or whose process died, opens to stored documents and commits to its     *)
(* row's epoch (the store writes precede the anchor in _publish_intent).   *)
AnchorsOpen ==
    \A x \in wire \cup onchain :
        /\ x.row \in Ids /\ x.packets = rows[x.row].epoch
        /\ VectorDocument(x.row) \in store
        /\ RecordDocument(x.row, x.packets) \in store

(* Both at once: what the chain holds, or may come to hold, of a           *)
(* publication can be opened, and a published row is such an anchor.       *)
PublicationIsOpen == PublishedMeansAudited /\ AnchorsOpen

(* A pinned commitment stays pinned, and a ledger row is never rewritten:  *)
(* only its status advances (attach_commitment; the append-only ledger).   *)
CommitmentsPinned ==
    [][/\ \A i \in Ids : rows[i].commit # 0 => rows'[i].commit = rows[i].commit
       /\ \A c \in DOMAIN ledger :
             /\ ledger'[c].of = ledger[c].of
             /\ ledger[c].status = "anchored" => ledger'[c].status = "anchored"]_vars

(* A row is eventually published unless it, or an older row the drain      *)
(* never gets past, has evidence that never validates.                     *)
AcceptedIsPublished ==
    \A i \in 1 .. MaxRows :
        (i \in Ids /\ \A j \in 1 .. i : rows[j].epoch \notin BadEpochs)
            ~> (i \in Ids /\ rows[i].state = "published")
=============================================================================
