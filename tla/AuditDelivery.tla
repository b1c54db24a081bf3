---------------------------- MODULE AuditDelivery ----------------------------
(***************************************************************************)
(* How an audit verdict reaches the honesty surface: the auditors' durable *)
(* cursor (auditor/cursor.py) and outbox (auditor/pending_reports.py), the *)
(* sampling beacon (auditor/beacon.py), the HTTP client and the append-    *)
(* only Audit Results API (audit_api/).  What a verdict is made of is the  *)
(* subject of EpochAudit; here it is CLEAN, DISPUTED or INCONCLUSIVE.      *)
(*                                                                         *)
(* A host is one auditor process: a hotkey, a mode (beacon or own_audit)   *)
(* and a private database.  Two hosts may carry the same hotkey and mode   *)
(* (a rebuilt machine): only they can make the API see a divergent report. *)
(* The loop that drives these parts is not in the repository: its steps    *)
(* are the ones cursor.py and pending_reports.py describe.                 *)
(***************************************************************************)
EXTENDS Naturals, FiniteSets, FiniteSetsExt

CONSTANTS Hosts,        \* auditor processes
          HotkeyOf,     \* the hotkey a host signs with
          ModeOf,       \* "beacon" or "own_audit"
          LastEpoch,    \* epochs 1..LastEpoch are finalized, in order
          Logs,         \* the epoch logs the authority may anchor
          Faulty,       \* logs whose audit finds a provable fault
          Backdated,    \* logs that state a close block one too low
          Depth,        \* K, beacon_confirmation_depth
          LastBlock,    \* bound on the chain
          MaxFaults,    \* bound on crashes, lost calls and outages together
          None

Epochs == 1..LastEpoch

\* A signed audit report.
Report == [host : Hosts, auditor : STRING, epoch : Epochs, mode : {"beacon", "own_audit"},
           log : Logs, sampled : Nat, verdict : {"CLEAN", "DISPUTED", "INCONCLUSIVE"}]

ASSUME DeliveryAssumption ==
    /\ HotkeyOf \in [Hosts -> STRING]
    /\ ModeOf \in [Hosts -> {"beacon", "own_audit"}]
    /\ LastEpoch \in Nat \ {0} /\ Depth \in Nat /\ LastBlock \in Nat
    /\ Faulty \subseteq Logs /\ Backdated \subseteq Logs
    /\ None \notin Report

VARIABLES
    block,      \* the finalized head
    landed,     \* anchorings on the chain: [epoch, log, at]
    cursor,     \* audit_cursor: highest epoch audited and submitted (0: no row)
    pending,    \* pending_report: the first signed report of an epoch, or None
    step,       \* what the host's loop is doing (lost in a crash)
    audits,     \* audits made so far: the sampled_at of the next report
    late,       \* requests whose sender has given up but that may still arrive
    reports,    \* audit_reports
    conflicts,  \* audit_report_conflicts, repeats of a row collapsed
    heard,      \* ghost: verified reports the API has ruled on
    faults

vars == <<block, landed, cursor, pending, step, audits, late, reports,
          conflicts, heard, faults>>
chain == <<block, landed>>
host == <<cursor, pending, audits>>
api == <<reports, conflicts, heard>>

Idle == [at |-> "idle"]

Fault == /\ faults < MaxFaults
         /\ faults' = faults + 1

-----------------------------------------------------------------------------
(* The chain and the authority. *)

\* The fixed-grid close block of an epoch.
CanonicalClose(e) == e

\* The close block a log states.
StatedClose(e, l) == IF l \in Backdated THEN CanonicalClose(e) - 1
                     ELSE CanonicalClose(e)

Anchorings(e) == {a \in landed : a.epoch = e}
Anchored(e) == Anchorings(e) # {}
AnchorOf(e) == CHOOSE a \in Anchorings(e) : \A b \in Anchorings(e) : b.at <= a.at

\* A finalized block, which may carry the anchoring of one closed epoch's
\* log.  Anchoring is idempotent on the payload: the authority may anchor
\* again, the same log or another one, in any later block.
NewBlock ==
    /\ block < LastBlock
    /\ block' = block + 1
    /\ \/ landed' = landed
       \/ \E e \in Epochs, l \in Logs :
            /\ CanonicalClose(e) <= block
            /\ \A p \in 1..(e - 1) : Anchored(p)
            /\ landed' = landed \cup {[epoch |-> e, log |-> l, at |-> block + 1]}
    /\ UNCHANGED <<host, step, late, api, faults>>

-----------------------------------------------------------------------------
(* The sampling beacon. *)

BeaconBlock(e, l) == StatedClose(e, l) + Depth

\* A check that lets a late anchoring through.
MutBeaconRefused(e, l, at) == StatedClose(e, l) # CanonicalClose(e)

\* BeaconGrindRisk: the stated close is not the canonical one, or the item
\* set was committed after the beacon could be known.
BeaconRefused(e, l, at) ==
    \/ StatedClose(e, l) # CanonicalClose(e)
    \/ at > BeaconBlock(e, l)

\* BeaconUnavailable: the beacon block is not final yet.
BeaconHeld(e, l) == block < BeaconBlock(e, l)

-----------------------------------------------------------------------------
(* The host's durable cursor and outbox. *)

\* AuditCursor.last_audited, as the next epoch to look at.
NextEpoch(h) == cursor[h] + 1

\* PendingReportStore.get, and a store that has forgotten the epoch.
MutGet(h, e) == None
Get(h, e) == pending[h][e]

\* PendingReportStore.put: INSERT OR IGNORE keeps the first report.
Put(h, e, r) == IF pending[h][e] # None THEN pending
                ELSE [pending EXCEPT ![h][e] = r]

\* AuditCursor.advance_to: strictly forward, else ValueError.
AdvanceTo(h, e) == /\ e > cursor[h]
                   /\ cursor' = [cursor EXCEPT ![h] = e]

-----------------------------------------------------------------------------
(* The loop of one host. *)

\* Step the loop to s, leaving everything durable alone.
Moves(h, s) == /\ step' = [step EXCEPT ![h] = s]
               /\ UNCHANGED <<chain, host, late, api, faults>>

\* A pending report is sent again as it is.
Resend(h) ==
    LET e == NextEpoch(h) IN
    /\ step[h] = Idle
    /\ e \in Epochs /\ Anchored(e)
    /\ Get(h, e) # None
    /\ Moves(h, [at |-> "sent", report |-> Get(h, e)])

\* The log is fetched and its digest compared with the anchored one.
Fetch(h) ==
    LET e == NextEpoch(h) IN
    /\ step[h] = Idle
    /\ e \in Epochs /\ Anchored(e)
    /\ Get(h, e) = None
    /\ Moves(h, [at |-> "fetched", epoch |-> e, log |-> AnchorOf(e).log])

\* BeaconGrindRisk refuses the epoch; the cursor stays.
Refuse(h) ==
    /\ step[h].at = "fetched"
    /\ ModeOf[h] = "beacon"
    /\ BeaconRefused(step[h].epoch, step[h].log, AnchorOf(step[h].epoch).at)
    /\ Moves(h, Idle)

\* The signed report: sampled_at is in its digest.  Evidence that cannot be
\* fetched leaves it INCONCLUSIVE; a log that does not decode is DISPUTED.
AuditReport(h, e, l, outage) ==
    [host |-> h, auditor |-> HotkeyOf[h], epoch |-> e, mode |-> ModeOf[h],
     log |-> l, sampled |-> audits[h],
     verdict |-> IF outage THEN "INCONCLUSIVE"
                 ELSE IF l \in Faulty THEN "DISPUTED" ELSE "CLEAN"]

\* The audit.  A beacon audit needs the beacon, read after the log.  The
\* report enters the outbox before it is sent.
Audit(h, outage) ==
    LET e == step[h].epoch
        l == step[h].log
        r == AuditReport(h, e, l, outage)
    IN
    /\ step[h].at = "fetched"
    /\ ModeOf[h] = "beacon" => /\ ~BeaconRefused(e, l, AnchorOf(e).at)
                               /\ ~BeaconHeld(e, l)
    /\ pending' = Put(h, e, r)
    /\ audits' = [audits EXCEPT ![h] = @ + 1]
    /\ step' = [step EXCEPT ![h] = [at |-> "sent", report |-> r]]
    /\ IF outage THEN Fault ELSE UNCHANGED faults
    /\ UNCHANGED <<chain, cursor, late, api>>

-----------------------------------------------------------------------------
(* The Audit Results API. *)

\* get_for_pair: what is already stored for the report's auditor, epoch, mode.
GetForPair(r) == {q \in reports : /\ q.auditor = r.auditor
                                  /\ q.epoch = r.epoch
                                  /\ q.mode = r.mode}

\* A conflict ledger that repeats the kept report's verdict.
MutConflictRow(kept, r) == [kept |-> kept, rejected |-> r,
                            rejected_overall |-> kept.verdict]
ConflictRow(kept, r) == [kept |-> kept, rejected |-> r,
                         rejected_overall |-> r.verdict]

\* AuditResultsStore.record and the status code of submit_report.
Record(r) ==
    IF r \in reports THEN
        [status |-> 200, id |-> r, reports |-> reports, conflicts |-> conflicts]
    ELSE IF GetForPair(r) # {} THEN
        LET kept == CHOOSE q \in GetForPair(r) : TRUE IN
        [status |-> 409, id |-> kept, reports |-> reports,
         conflicts |-> conflicts \cup {ConflictRow(kept, r)}]
    ELSE [status |-> 201, id |-> r, reports |-> reports \cup {r},
          conflicts |-> conflicts]

\* submit_report rules on a report and writes what record decided.
Rules(r) == /\ reports' = Record(r).reports
            /\ conflicts' = Record(r).conflicts
            /\ heard' = heard \cup {r}

\* The API answers a request its sender still waits for.
Handle(h) ==
    /\ step[h].at = "sent"
    /\ Rules(step[h].report)
    /\ step' = [step EXCEPT ![h] =
         [at |-> "answered", report |-> step[h].report,
          status |-> Record(step[h].report).status,
          accepted |-> Record(step[h].report).status # 409,
          id |-> Record(step[h].report).id]]
    /\ UNCHANGED <<chain, host, late, faults>>

\* The API rules on a request nobody waits for any more.
HandleLate(r) ==
    /\ r \in late
    /\ late' = late \ {r}
    /\ Rules(r)
    /\ UNCHANGED <<chain, host, step, faults>>

\* An answer that leaves the API's store as it was.
Answered(h, status, accepted) ==
    /\ step[h].at = "sent"
    /\ Fault
    /\ step' = [step EXCEPT ![h] = [at |-> "answered", report |-> step[h].report,
                                    status |-> status, accepted |-> accepted,
                                    id |-> None]]
    /\ UNCHANGED <<chain, host, late, api>>

\* No bearer, or another one than the configured token.
Unauthorized(h) == Answered(h, 401, FALSE)

\* The hotkey is not registered, the metagraph cannot be read, or the
\* signature does not verify: fail-closed in every case.
Unverified(h) == Answered(h, 403, FALSE)

\* Something on the way answers 200 for the API: without accepted, or with
\* the receipt of another report.
BadAnswer(h, accepted) == Answered(h, 200, accepted)

-----------------------------------------------------------------------------
(* The HTTP client. *)

\* Clients that take 201 alone for an answer, or any accepted answer.
MutOnlyCreated(s) == s.status = 201 /\ s.accepted /\ s.id = s.report

\* HttpAuditResultsClient.submit: the acknowledgement is a receipt for these
\* very bytes.
Acked(s) == /\ s.status \in {200, 201}
            /\ s.accepted
            /\ s.id = s.report

\* AuditResultsUnavailable or AuditResultsConflict: nothing was submitted.
SubmitFails(h) ==
    /\ step[h].at = "answered"
    /\ ~Acked(step[h])
    /\ Moves(h, Idle)

\* The receipt moves the cursor, and then the outbox row goes.
Advance(h) ==
    /\ step[h].at = "answered"
    /\ Acked(step[h])
    /\ AdvanceTo(h, step[h].report.epoch)
    /\ step' = [step EXCEPT ![h] = [at |-> "advanced",
                                    epoch |-> step[h].report.epoch]]
    /\ UNCHANGED <<chain, pending, audits, late, api, faults>>

\* PendingReportStore.clear.
Clear(h) ==
    /\ step[h].at = "advanced"
    /\ pending' = [pending EXCEPT ![h][step[h].epoch] = None]
    /\ step' = [step EXCEPT ![h] = Idle]
    /\ UNCHANGED <<chain, cursor, audits, late, api, faults>>

\* httpx.HTTPError: the request is lost, or on its way without its sender,
\* or the answer is.
TransportFails(h, keep) ==
    /\ step[h].at \in {"sent", "answered"}
    /\ keep => step[h].at = "sent"
    /\ Fault
    /\ late' = IF keep THEN late \cup {step[h].report} ELSE late
    /\ step' = [step EXCEPT ![h] = Idle]
    /\ UNCHANGED <<chain, host, api>>

\* The process dies and starts again from its database.
Crash(h) ==
    /\ step[h] # Idle
    /\ Fault
    /\ late' = IF step[h].at = "sent" THEN late \cup {step[h].report} ELSE late
    /\ step' = [step EXCEPT ![h] = Idle]
    /\ UNCHANGED <<chain, host, api>>

-----------------------------------------------------------------------------
Init ==
    /\ block = 0 /\ landed = {}
    /\ cursor = [h \in Hosts |-> 0]
    /\ pending = [h \in Hosts |-> [e \in Epochs |-> None]]
    /\ step = [h \in Hosts |-> Idle]
    /\ audits = [h \in Hosts |-> 0]
    /\ late = {} /\ reports = {} /\ conflicts = {} /\ heard = {}
    /\ faults = 0

Works(h) == \/ Resend(h) \/ Fetch(h) \/ Audit(h, FALSE) \/ Handle(h)
            \/ SubmitFails(h) \/ Advance(h) \/ Clear(h)

Fails(h) == \/ Audit(h, TRUE) \/ Unauthorized(h) \/ Unverified(h) \/ Crash(h)
            \/ \E b \in BOOLEAN : BadAnswer(h, b) \/ TransportFails(h, b)

Next ==
    \/ NewBlock
    \/ \E h \in Hosts : Works(h) \/ Refuse(h) \/ Fails(h)
    \/ \E r \in late : HandleLate(r)

\* Blocks keep coming, a host's loop keeps running and the API answers; a
\* fault is possible at any time but there are only MaxFaults of them.
Fairness == /\ WF_vars(NewBlock)
            /\ \A h \in Hosts : WF_vars(Works(h) \/ Refuse(h))

Spec == Init /\ [][Next]_vars /\ Fairness

-----------------------------------------------------------------------------
(* The honesty surface. *)

ForEpoch(e) == {r \in reports : r.epoch = e}
DisputedConflicts(e) == {c \in conflicts : /\ c.rejected.epoch = e
                                           /\ c.rejected_overall = "DISPUTED"}

\* epoch_status, the verdict of GET /audit/status.
EpochStatus(e) ==
    LET said(v) == \E r \in ForEpoch(e) : r.verdict = v IN
    IF ForEpoch(e) = {} THEN "UNAUDITED"
    ELSE IF said("DISPUTED") \/ DisputedConflicts(e) # {} THEN "DISPUTED"
    ELSE IF said("CLEAN") THEN "CLEAN"
    ELSE "INCONCLUSIVE"

\* disputed_epoch_count, the gauge.
DisputedEpochCount ==
    Cardinality({r.epoch : r \in {q \in reports : q.verdict = "DISPUTED"}}
                \cup {c.rejected.epoch :
                        c \in {d \in conflicts : d.rejected_overall = "DISPUTED"}})

-----------------------------------------------------------------------------
(* Properties. *)

\* Whatever is lost, late or repeated, one auditor process never disagrees
\* with itself: a conflict always has two hosts (pending_reports.py, the
\* byte-identical resend; a conflict is final for the client and would wedge
\* the cursor for good).
NoSelfConflict == \A c \in conflicts : c.kept.host # c.rejected.host

\* An epoch the cursor has passed is one the API holds this host's report
\* of: no lost, refused or counterfeit answer skips an epoch (cursor.py,
\* client.py submit).
CursorMeansReported ==
    \A h \in Hosts : \A e \in 1..cursor[h] :
        \E r \in reports : r.host = h /\ r.epoch = e

\* A host passes an epoch with its one report of it on record.
PassedOnce == NoSelfConflict /\ CursorMeansReported

\* A dispute the API has ruled on stands: neither an earlier CLEAN report of
\* the same auditor nor any number of others buries it, and the gauge agrees
\* with the status route (store.py record, aggregate.py epoch_status).
DisputeStands ==
    /\ \A r \in heard : r.verdict = "DISPUTED" => EpochStatus(r.epoch) = "DISPUTED"
    /\ DisputedEpochCount =
         Cardinality({e \in Epochs : EpochStatus(e) = "DISPUTED"})

\* Every beacon report samples by the one canonical beacon of its epoch, and
\* the log it audited was anchored no later than that block: the authority
\* could not know the beacon when it committed the items, however often it
\* anchors again (beacon.py chain_beacon).
SampleUnsteered ==
    \A r \in {q \in reports : q.mode = "beacon"} :
        /\ BeaconBlock(r.epoch, r.log) = CanonicalClose(r.epoch) + Depth
        /\ \E a \in Anchorings(r.epoch) :
             a.log = r.log /\ a.at <= BeaconBlock(r.epoch, r.log)

\* A host stuck for a reason the code wants it stuck for: its epoch has a
\* divergent report on record, or the beacon refuses its anchoring.
Contradicted(h, e) == \E c \in conflicts : c.rejected.host = h /\ c.rejected.epoch <= e
Steered(h, e) ==
    /\ ModeOf[h] = "beacon"
    /\ \E p \in 1..e : /\ Anchored(p)
                       /\ BeaconRefused(p, AnchorOf(p).log, AnchorOf(p).at)

\* Every anchored epoch is reported by every host in the end, one after the
\* other, through crashes, timeouts, lost answers and refusals; only a
\* divergent report of a second host, or a steered beacon, stops a host
\* (cursor.py: contiguous coverage; pending_reports.py: no wedge).
EveryEpochReported ==
    <>[](\A h \in Hosts, e \in Epochs :
           Anchored(e) => cursor[h] >= e \/ Contradicted(h, e) \/ Steered(h, e))
=============================================================================
