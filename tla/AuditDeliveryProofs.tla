-------------------------- MODULE AuditDeliveryProofs --------------------------
(***************************************************************************)
(* Proofs about AuditDelivery, for any hosts, epochs, logs, beacon depth   *)
(* and number of faults.                                                   *)
(*                                                                         *)
(* Everything rests on one fact: a host has one report of an epoch, ever   *)
(* (OneReport).  It holds because an audit is made only for the epoch      *)
(* after the cursor and only while the outbox has no report of it, and     *)
(* because the outbox row of that epoch stays until the cursor has passed  *)
(* it (KnownOK, StepOK).                                                   *)
(***************************************************************************)
EXTENDS AuditDelivery, TLAPS

(* A report is on its way from a host to the API.                          *)
Sending(r) ==
    \E h \in Hosts : step[h].at \in {"sent", "answered"} /\ step[h].report = r

(* A report that exists outside its host's outbox.                         *)
Known(r) == r \in late \/ r \in heard \/ Sending(r)

(* A report by host h, as its mode and key say; a beacon report is of a    *)
(* log that was anchored no later than the canonical beacon block.         *)
MadeBy(r, h) ==
    /\ r \in Report /\ r.host = h
    /\ r.auditor = HotkeyOf[h] /\ r.mode = ModeOf[h]
    /\ r.mode = "beacon" =>
          /\ BeaconBlock(r.epoch, r.log) = CanonicalClose(r.epoch) + Depth
          /\ \E a \in Anchorings(r.epoch) :
                a.log = r.log /\ a.at <= BeaconBlock(r.epoch, r.log)

ChainOK ==
    /\ block \in Nat
    /\ landed \subseteq [epoch : Epochs, log : Logs, at : Nat]
    /\ \A a \in landed : a.at <= block
    /\ \A e \in Epochs : Anchored(e) =>
          \E a \in Anchorings(e) : \A b \in Anchorings(e) : b.at <= a.at

HostOK ==
    /\ cursor \in [Hosts -> Nat] /\ audits \in [Hosts -> Nat]
    /\ pending \in [Hosts -> [Epochs -> Report \cup {None}]]
    /\ \A h \in Hosts, e \in Epochs, r \in Report :
          pending[h][e] = r => MadeBy(r, h) /\ r.epoch = e

(* A report of the epoch after the cursor is the one in the outbox.        *)
KnownOK ==
    \A r : Known(r) =>
        /\ r.host \in Hosts /\ MadeBy(r, r.host) /\ r.epoch <= cursor[r.host] + 1
        /\ r.epoch = cursor[r.host] + 1 => r = pending[r.host][r.epoch]

OneReport ==
    \A r, s : Known(r) /\ Known(s) /\ r.host = s.host /\ r.epoch = s.epoch => r = s

(* What the loop of a host is at: a log fetched for the epoch after the    *)
(* cursor, a report of it sent, the answer to it, or the cursor moved.     *)
IsFetched(h, e, l) ==
    /\ step[h] = [at |-> "fetched", epoch |-> e, log |-> l]
    /\ e = cursor[h] + 1 /\ pending[h][e] = None
    /\ \E a \in Anchorings(e) : a.log = l

IsSent(h, r) ==
    /\ step[h] = [at |-> "sent", report |-> r]
    /\ r.host = h /\ r.epoch = cursor[h] + 1

IsAnswered(h, r, id, status, accepted) ==
    /\ step[h] = [at |-> "answered", report |-> r, status |-> status,
                  accepted |-> accepted, id |-> id]
    /\ r.host = h /\ r.epoch = cursor[h] + 1
    /\ id = r => r \in reports

IsAdvanced(h, e) == step[h] = [at |-> "advanced", epoch |-> e] /\ e = cursor[h]

StepOK(h) ==
    \/ step[h] = Idle
    \/ \E e \in Epochs, l \in Logs : IsFetched(h, e, l)
    \/ \E r \in Report : IsSent(h, r)
    \/ \E r \in Report, id \in Report \cup {None}, status \in Nat, accepted \in BOOLEAN :
          IsAnswered(h, r, id, status, accepted)
    \/ \E e \in Epochs : IsAdvanced(h, e)

StepsOK == step = [h \in Hosts |-> step[h]] /\ \A h \in Hosts : StepOK(h)

(* Every report the API ruled on is kept or in the conflict ledger, next   *)
(* to the report it diverges from.                                         *)
ApiOK ==
    /\ reports \subseteq heard
    /\ \A r \in heard : r \in reports \/ \E c \in conflicts : c.rejected = r
    /\ \A c \in conflicts :
          /\ c.kept \in reports /\ c.rejected \in heard /\ c.kept # c.rejected
          /\ c.kept.epoch = c.rejected.epoch
          /\ c.rejected_overall = c.rejected.verdict

IInv == /\ ChainOK /\ HostOK /\ KnownOK /\ OneReport /\ StepsOK /\ ApiOK
        /\ CursorMeansReported

-----------------------------------------------------------------------------
(* Facts about reports and steps.                                          *)

(* The chain only grows, and with it what a report may lean on.            *)
LEMMA MadeByKept ==
    ASSUME landed \subseteq landed'
    PROVE  \A r, h : MadeBy(r, h) => MadeBy(r, h)'
  <1>1. \A e : Anchorings(e) \subseteq Anchorings(e)'
    BY DEF Anchorings
  <1>2. ASSUME NEW r, NEW h, MadeBy(r, h)
        PROVE  MadeBy(r, h)'
    <2>1. /\ r \in Report /\ r.host = h
          /\ r.auditor = HotkeyOf[h] /\ r.mode = ModeOf[h]
      BY <1>2 DEF MadeBy
    <2>2. r.mode = "beacon" =>
            /\ BeaconBlock(r.epoch, r.log) = CanonicalClose(r.epoch) + Depth
            /\ \E a \in Anchorings(r.epoch)' :
                  a.log = r.log /\ a.at <= BeaconBlock(r.epoch, r.log)
      BY <1>1, <1>2 DEF MadeBy
    <2> QED
      BY <2>1, <2>2 DEF MadeBy, BeaconBlock, CanonicalClose, StatedClose
  <1> QED
    BY <1>2

(* A host's loop is where it was.                                          *)
LEMMA StepKept ==
    ASSUME NEW g \in Hosts, StepOK(g), step'[g] = step[g], cursor'[g] = cursor[g],
           \A e \in Epochs : pending'[g][e] = pending[g][e],
           landed \subseteq landed', reports \subseteq reports'
    PROVE  StepOK(g)'
  <1>1. \A e : Anchorings(e) \subseteq Anchorings(e)'
    BY DEF Anchorings
  <1>2. CASE step[g] = Idle
    BY <1>2 DEF StepOK, Idle
  <1>3. ASSUME NEW e \in Epochs, NEW l \in Logs, IsFetched(g, e, l)
        PROVE  IsFetched(g, e, l)'
    BY <1>1, <1>3 DEF IsFetched
  <1>4. ASSUME NEW r \in Report, IsSent(g, r)
        PROVE  IsSent(g, r)'
    BY <1>4 DEF IsSent
  <1>5. ASSUME NEW r \in Report, NEW id \in Report \cup {None}, NEW status \in Nat,
               NEW accepted \in BOOLEAN, IsAnswered(g, r, id, status, accepted)
        PROVE  IsAnswered(g, r, id, status, accepted)'
    BY <1>5 DEF IsAnswered
  <1>6. ASSUME NEW e \in Epochs, IsAdvanced(g, e)
        PROVE  IsAdvanced(g, e)'
    BY <1>6 DEF IsAdvanced
  <1> QED
    BY <1>2, <1>3, <1>4, <1>5, <1>6 DEF StepOK

(* The loop of h moves to s, and the other loops are where they were.      *)
LEMMA StepMoves ==
    ASSUME StepsOK, NEW h \in Hosts, NEW s, step' = [step EXCEPT ![h] = s],
           \A g \in Hosts : g # h => /\ cursor'[g] = cursor[g]
                                     /\ \A e \in Epochs : pending'[g][e] = pending[g][e],
           landed \subseteq landed', reports \subseteq reports', StepOK(h)'
    PROVE  StepsOK'
  <1>1. \A g \in Hosts : step'[g] = IF g = h THEN s ELSE step[g]
    BY DEF StepsOK
  <1>2. \A g \in Hosts : StepOK(g)'
    BY <1>1, StepKept DEF StepsOK
  <1>3. step' = [g \in Hosts |-> step'[g]]
    BY DEF StepsOK
  <1> QED
    BY <1>2, <1>3 DEF StepsOK

(* Nothing new is said.                                                    *)
LEMMA KnownKept ==
    ASSUME KnownOK, OneReport, \A r : Known(r)' => Known(r), landed \subseteq landed',
           \A g \in Hosts : cursor'[g] = cursor[g] /\ \A e \in Epochs : pending'[g][e] = pending[g][e]
    PROVE  KnownOK' /\ OneReport'
  <1>1. OneReport'
    BY DEF OneReport
  <1>2. KnownOK'
    <2> SUFFICES ASSUME NEW r, Known(r)
                 PROVE  /\ r.host \in Hosts /\ MadeBy(r, r.host)' /\ r.epoch <= cursor'[r.host] + 1
                        /\ r.epoch = cursor'[r.host] + 1 => r = pending'[r.host][r.epoch]
      BY DEF KnownOK
    <2>1. /\ r.host \in Hosts /\ MadeBy(r, r.host) /\ r.epoch <= cursor[r.host] + 1
          /\ r.epoch = cursor[r.host] + 1 => r = pending[r.host][r.epoch]
      BY DEF KnownOK
    <2>2. r.epoch \in Epochs /\ MadeBy(r, r.host)'
      BY <2>1, MadeByKept DEF MadeBy, Report
    <2> QED
      BY <2>1, <2>2
  <1> QED
    BY <1>1, <1>2

(* Who is sending after the loop of h moved.                               *)
LEMMA SendingAfter ==
    ASSUME StepsOK, NEW h \in Hosts, NEW s, step' = [step EXCEPT ![h] = s]
    PROVE  \A r : Sending(r)' => Sending(r) \/ (s.at \in {"sent", "answered"} /\ r = s.report)
  BY DEF Sending, StepsOK

-----------------------------------------------------------------------------
LEMMA InitInv == Init => IInv
  <1> SUFFICES ASSUME Init PROVE IInv
    OBVIOUS
  <1>1. ChainOK
    BY DEF Init, ChainOK, Anchored, Anchorings
  <1>2. HostOK
    <2>1. \A h \in Hosts, e \in Epochs : pending[h][e] = None
      BY DEF Init
    <2> QED
      BY <2>1, DeliveryAssumption DEF Init, HostOK
  <1>3. \A h \in Hosts : step[h] = Idle
    BY DEF Init
  <1>4. StepsOK
    BY <1>3 DEF Init, StepsOK, StepOK
  <1>5. \A r : ~Known(r)
    BY <1>3 DEF Init, Known, Sending, Idle
  <1>6. KnownOK /\ OneReport
    BY <1>5 DEF KnownOK, OneReport
  <1>7. ApiOK
    BY DEF Init, ApiOK
  <1>8. CursorMeansReported
    BY DEF Init, CursorMeansReported
  <1> QED
    BY <1>1, <1>2, <1>4, <1>6, <1>7, <1>8 DEF IInv

(* A new block: its anchoring is the latest of its epoch.                  *)
LEMMA BlockStep ==
    ASSUME IInv, NewBlock
    PROVE  IInv'
  <1>1. /\ block' = block + 1
        /\ UNCHANGED <<cursor, pending, audits, step, late, reports, conflicts, heard>>
    BY DEF NewBlock, host, api
  <1>2. landed \subseteq landed'
    BY DEF NewBlock
  <1>3. ChainOK'
    <2>1. block \in Nat /\ landed \subseteq [epoch : Epochs, log : Logs, at : Nat]
          /\ \A a \in landed : a.at <= block
      BY DEF IInv, ChainOK
    <2>2. CASE landed' = landed
      <3>1. \A e : Anchorings(e)' = Anchorings(e)
        BY <2>2 DEF Anchorings
      <3>2. \A a \in landed' : a.at <= block'
        BY <1>1, <2>1, <2>2
      <3>3. block' \in Nat
        BY <1>1, <2>1
      <3> QED
        BY <2>1, <2>2, <3>1, <3>2, <3>3 DEF IInv, ChainOK, Anchored
    <2>3. ASSUME NEW d \in Epochs, NEW l \in Logs,
                 landed' = landed \cup {[epoch |-> d, log |-> l, at |-> block + 1]}
          PROVE  ChainOK'
      <3> DEFINE n == [epoch |-> d, log |-> l, at |-> block + 1]
      <3>1. n \in [epoch : Epochs, log : Logs, at : Nat] /\ n.epoch = d /\ n.at = block + 1
        BY <2>1
      <3> HIDE DEF n
      <3>2. block' \in Nat /\ \A a \in landed' : a.at \in Nat /\ a.at <= block'
        BY <1>1, <2>1, <2>3, <3>1 DEF n
      <3>3. landed' \subseteq [epoch : Epochs, log : Logs, at : Nat]
        BY <2>1, <2>3, <3>1 DEF n
      <3>4. ASSUME NEW e \in Epochs, Anchored(e)'
            PROVE  \E a \in Anchorings(e)' : \A b \in Anchorings(e)' : b.at <= a.at
        <4>1. CASE e = d
          <5>1. n \in Anchorings(e)'
            BY <2>3, <3>1, <4>1 DEF Anchorings, n
          <5>2. \A b \in Anchorings(e)' : b.at <= n.at
            BY <1>1, <3>1, <3>2 DEF Anchorings
          <5> QED
            BY <5>1, <5>2
        <4>2. CASE e # d
          <5>1. Anchorings(e)' = Anchorings(e)
            BY <2>3, <3>1, <4>2 DEF Anchorings, n
          <5> QED
            BY <3>4, <5>1 DEF IInv, ChainOK, Anchored
        <4> QED
          BY <4>1, <4>2
      <3> QED
        BY <3>2, <3>3, <3>4 DEF ChainOK
    <2> QED
      BY <2>2, <2>3 DEF NewBlock
  <1>4. HostOK'
    <2>1. \A r, h : MadeBy(r, h) => MadeBy(r, h)'
      BY <1>2, MadeByKept
    <2> QED
      BY <1>1, <2>1 DEF IInv, HostOK
  <1>5. KnownOK' /\ OneReport'
    <2>1. \A r : Known(r)' => Known(r)
      BY <1>1 DEF Known, Sending
    <2> QED
      BY <1>1, <1>2, <2>1, KnownKept DEF IInv
  <1>6. StepsOK'
    BY <1>1, <1>2, StepKept DEF IInv, StepsOK
  <1>7. ApiOK' /\ CursorMeansReported'
    BY <1>1 DEF IInv, ApiOK, CursorMeansReported
  <1> QED
    BY <1>3, <1>4, <1>5, <1>6, <1>7 DEF IInv

-----------------------------------------------------------------------------
(* The loop of a host.                                                     *)

(* A step is one of the five.                                              *)
LEMMA AtStep ==
    ASSUME StepsOK, NEW h \in Hosts
    PROVE  /\ step[h].at = "fetched" => \E e \in Epochs, l \in Logs : IsFetched(h, e, l)
           /\ step[h].at = "sent" => \E r \in Report : IsSent(h, r)
           /\ step[h].at = "answered" =>
                 \E r \in Report, id \in Report \cup {None}, status \in Nat, accepted \in BOOLEAN :
                     IsAnswered(h, r, id, status, accepted)
           /\ step[h].at = "advanced" => \E e \in Epochs : IsAdvanced(h, e)
  <1>1. StepOK(h)
    BY DEF StepsOK
  <1>2. step[h] = Idle => step[h].at = "idle"
    BY DEF Idle
  <1>3. /\ \A e, l : IsFetched(h, e, l) => step[h].at = "fetched"
        /\ \A r : IsSent(h, r) => step[h].at = "sent"
        /\ \A r, id, status, accepted :
              IsAnswered(h, r, id, status, accepted) => step[h].at = "answered"
        /\ \A e : IsAdvanced(h, e) => step[h].at = "advanced"
    BY DEF IsFetched, IsSent, IsAnswered, IsAdvanced
  <1> QED
    BY <1>1, <1>2, <1>3 DEF StepOK

(* The loop moves, a request may be left behind, nothing durable changes.  *)
LEMMA LoopStep ==
    ASSUME IInv, NEW h \in Hosts, NEW s, step' = [step EXCEPT ![h] = s],
           UNCHANGED <<block, landed, cursor, pending, audits, reports, conflicts, heard>>,
           \A r : Known(r)' => Known(r), StepOK(h)'
    PROVE  IInv'
  <1>1. ChainOK' /\ HostOK'
    <2>1. \A e : Anchorings(e)' = Anchorings(e)
      BY DEF Anchorings
    <2>2. \A r, g : MadeBy(r, g) => MadeBy(r, g)'
      BY MadeByKept
    <2>3. ChainOK'
      BY <2>1 DEF IInv, ChainOK, Anchored
    <2>4. HostOK'
      BY <2>2 DEF IInv, HostOK
    <2> QED
      BY <2>3, <2>4
  <1>2. KnownOK' /\ OneReport'
    BY KnownKept DEF IInv
  <1>3. StepsOK'
    BY StepMoves DEF IInv
  <1>4. ApiOK' /\ CursorMeansReported'
    BY DEF IInv, ApiOK, CursorMeansReported
  <1> QED
    BY <1>1, <1>2, <1>3, <1>4 DEF IInv

(* The loop goes back to idle: a refused beacon, a failed submission, a    *)
(* transport error, a crash.                                               *)
LEMMA BackToIdle ==
    ASSUME IInv, NEW h \in Hosts, step' = [step EXCEPT ![h] = Idle],
           UNCHANGED <<block, landed, cursor, pending, audits, reports, conflicts, heard>>,
           \A r \in late' : r \in late \/ Sending(r)
    PROVE  IInv'
  <1>1. StepsOK
    BY DEF IInv
  <1>2. step'[h] = Idle /\ Idle.at = "idle"
    BY <1>1 DEF StepsOK, Idle
  <1>3. StepOK(h)'
    BY <1>2 DEF StepOK, Idle
  <1>4. \A r : Sending(r)' => Sending(r)
    BY <1>1, <1>2, SendingAfter
  <1>5. \A r : Known(r)' => Known(r)
    BY <1>4 DEF Known
  <1> QED
    BY <1>3, <1>5, LoopStep

LEMMA IdleStep ==
    ASSUME IInv, NEW h \in Hosts,
           \/ Refuse(h) \/ SubmitFails(h) \/ Crash(h)
           \/ \E keep \in BOOLEAN : TransportFails(h, keep)
    PROVE  IInv'
  <1>1. step' = [step EXCEPT ![h] = Idle]
    BY DEF Refuse, SubmitFails, Crash, TransportFails, Moves
  <1>2. UNCHANGED <<block, landed, cursor, pending, audits, reports, conflicts, heard>>
    BY DEF Refuse, SubmitFails, Crash, TransportFails, Moves, chain, host, api
  <1>3. \A r \in late' : r \in late \/ Sending(r)
    BY DEF Refuse, SubmitFails, Crash, TransportFails, Moves, Sending
  <1> QED
    BY <1>1, <1>2, <1>3, BackToIdle

(* The outbox report is the only one of its epoch.                         *)
LEMMA ResendStep ==
    ASSUME IInv, NEW h \in Hosts, Resend(h)
    PROVE  IInv'
  <1>0. ChainOK /\ HostOK /\ KnownOK /\ OneReport /\ StepsOK
    BY DEF IInv
  <1>1. PICK e \in Epochs, n \in Report \cup {None} :
          e = cursor[h] + 1 /\ n = pending[h][e] /\ n # None
          /\ step' = [step EXCEPT ![h] = [at |-> "sent", report |-> n]]
    BY <1>0 DEF HostOK, Resend, NextEpoch, Get, Moves
  <1>2. UNCHANGED <<block, landed, cursor, pending, audits, reports, conflicts, heard, late>>
    BY DEF Resend, Moves, chain, host, api
  <1>3. MadeBy(n, h) /\ n.epoch = e /\ n \in Report /\ n.host = h
    <2>1. n \in Report
      BY <1>0, <1>1 DEF HostOK
    <2> QED
      BY <1>0, <1>1, <2>1 DEF HostOK, MadeBy
  <1>4. StepOK(h)'
    <2>1. step'[h] = [at |-> "sent", report |-> n]
      BY <1>0, <1>1 DEF StepsOK
    <2>2. IsSent(h, n)'
      BY <1>1, <1>2, <1>3, <2>1 DEF IsSent
    <2> QED
      BY <1>3, <2>2 DEF StepOK
  <1>5. \A r : Known(r)' => Known(r) \/ r = n
    <2>1. \A r : Sending(r)' => Sending(r) \/ r = n
      <3> DEFINE s == [at |-> "sent", report |-> n]
      <3>1. step' = [step EXCEPT ![h] = s] /\ s.report = n
        BY <1>1
      <3> HIDE DEF s
      <3> QED
        BY <1>0, <3>1, SendingAfter
    <2> QED
      BY <1>2, <2>1 DEF Known
  <1>6. \A r : Known(r) /\ r.host = h /\ r.epoch = e => r = n
    BY <1>0, <1>1 DEF KnownOK
  <1>7. OneReport'
    BY <1>0, <1>3, <1>5, <1>6 DEF OneReport
  <1>8. KnownOK'
    <2>1. \A r : MadeBy(r, r.host) => MadeBy(r, r.host)'
      BY <1>2, MadeByKept
    <2> SUFFICES ASSUME NEW r, Known(r)'
                 PROVE  /\ r.host \in Hosts /\ MadeBy(r, r.host)' /\ r.epoch <= cursor'[r.host] + 1
                        /\ r.epoch = cursor'[r.host] + 1 => r = pending'[r.host][r.epoch]
      BY DEF KnownOK
    <2>2. CASE Known(r)
      BY <1>0, <1>2, <2>1, <2>2 DEF KnownOK
    <2>3. CASE r = n
      <3>1. cursor[h] \in Nat
        BY <1>0 DEF HostOK
      <3> QED
        BY <1>1, <1>2, <1>3, <2>1, <2>3, <3>1
    <2> QED
      BY <1>5, <2>2, <2>3
  <1>9. ChainOK' /\ HostOK'
    <2>1. \A d : Anchorings(d)' = Anchorings(d)
      BY <1>2 DEF Anchorings
    <2>2. \A r, g : MadeBy(r, g) => MadeBy(r, g)'
      BY <1>2, MadeByKept
    <2>3. ChainOK'
      BY <1>0, <1>2, <2>1 DEF ChainOK, Anchored
    <2>4. HostOK'
      BY <1>0, <1>2, <2>2 DEF HostOK
    <2> QED
      BY <2>3, <2>4
  <1>10. StepsOK'
    BY <1>0, <1>1, <1>2, <1>4, StepMoves
  <1>11. ApiOK' /\ CursorMeansReported'
    BY <1>2 DEF IInv, ApiOK, CursorMeansReported
  <1> QED
    BY <1>7, <1>8, <1>9, <1>10, <1>11 DEF IInv

(* The log of the latest anchoring is fetched.                             *)
LEMMA FetchStep ==
    ASSUME IInv, NEW h \in Hosts, Fetch(h)
    PROVE  IInv'
  <1>0. ChainOK /\ StepsOK
    BY DEF IInv
  <1>1. PICK e \in Epochs : /\ e = cursor[h] + 1 /\ pending[h][e] = None /\ Anchored(e)
                            /\ step' = [step EXCEPT ![h] =
                                  [at |-> "fetched", epoch |-> e, log |-> AnchorOf(e).log]]
    BY DEF Fetch, NextEpoch, Get, Moves
  <1>2. UNCHANGED <<block, landed, cursor, pending, audits, reports, conflicts, heard, late>>
    BY DEF Fetch, Moves, chain, host, api
  <1>3. AnchorOf(e) \in Anchorings(e)
    BY <1>0, <1>1 DEF ChainOK, AnchorOf
  <1>4. PICK l \in Logs : l = AnchorOf(e).log
    BY <1>0, <1>3 DEF ChainOK, Anchorings
  <1>5. step'[h] = [at |-> "fetched", epoch |-> e, log |-> l]
    BY <1>0, <1>1, <1>4 DEF StepsOK
  <1>6. IsFetched(h, e, l)'
    BY <1>1, <1>2, <1>3, <1>4, <1>5 DEF IsFetched, Anchorings
  <1>7. StepOK(h)'
    BY <1>6 DEF StepOK
  <1>8. \A r : Known(r)' => Known(r)
    <2>1. \A r : Sending(r)' => Sending(r)
      <3> DEFINE s == [at |-> "fetched", epoch |-> e, log |-> AnchorOf(e).log]
      <3>1. step' = [step EXCEPT ![h] = s] /\ s.at = "fetched"
        BY <1>1
      <3> HIDE DEF s
      <3> QED
        BY <1>0, <3>1, SendingAfter
    <2> QED
      BY <1>2, <2>1 DEF Known
  <1> QED
    BY <1>1, <1>2, <1>7, <1>8, LoopStep

(* The audit: there is no report of the epoch yet.                         *)
LEMMA AuditStep ==
    ASSUME IInv, NEW h \in Hosts, NEW outage \in BOOLEAN, Audit(h, outage)
    PROVE  IInv'
  <1>0. ChainOK /\ HostOK /\ KnownOK /\ OneReport /\ StepsOK
    BY DEF IInv
  <1>1. step[h].at = "fetched"
    BY DEF Audit
  <1>2. PICK e \in Epochs, l \in Logs : IsFetched(h, e, l)
    BY <1>0, <1>1, AtStep
  <1>3. step[h].epoch = e /\ step[h].log = l /\ e = cursor[h] + 1 /\ pending[h][e] = None
    BY <1>2 DEF IsFetched
  <1>4. PICK n : n = AuditReport(h, e, l, outage)
    OBVIOUS
  <1>5. /\ ModeOf[h] = "beacon" => ~BeaconRefused(e, l, AnchorOf(e).at)
        /\ pending' = [pending EXCEPT ![h][e] = n]
        /\ audits' = [audits EXCEPT ![h] = @ + 1]
        /\ step' = [step EXCEPT ![h] = [at |-> "sent", report |-> n]]
        /\ UNCHANGED <<block, landed, cursor, late, reports, conflicts, heard>>
    BY <1>3, <1>4 DEF Audit, Put, chain, api
  <1>6. n \in Report /\ n.host = h /\ n.epoch = e /\ n.log = l
        /\ n.auditor = HotkeyOf[h] /\ n.mode = ModeOf[h]
    <2>1. HotkeyOf[h] \in STRING /\ ModeOf[h] \in {"beacon", "own_audit"} /\ audits[h] \in Nat
      BY <1>0, DeliveryAssumption DEF HostOK
    <2>2. n.verdict \in {"CLEAN", "DISPUTED", "INCONCLUSIVE"}
      BY <1>4 DEF AuditReport
    <2> QED
      BY <1>4, <2>1, <2>2 DEF AuditReport, Report
  <1>7. MadeBy(n, h)'
    <2>1. SUFFICES ASSUME ModeOf[h] = "beacon"
                   PROVE  /\ BeaconBlock(e, l) = CanonicalClose(e) + Depth
                          /\ \E a \in Anchorings(e)' : a.log = l /\ a.at <= BeaconBlock(e, l)
      BY <1>6 DEF MadeBy, BeaconBlock, CanonicalClose, StatedClose
    <2>2. BeaconBlock(e, l) = CanonicalClose(e) + Depth /\ ~(AnchorOf(e).at > BeaconBlock(e, l))
      BY <1>5, <2>1 DEF BeaconRefused, BeaconBlock
    <2>3. PICK a \in Anchorings(e) : a.log = l
      BY <1>2 DEF IsFetched
    <2>4. AnchorOf(e) \in Anchorings(e) /\ a.at <= AnchorOf(e).at
      BY <1>0, <2>3 DEF ChainOK, Anchored, AnchorOf
    <2>5. a.at \in Nat /\ AnchorOf(e).at \in Nat
      BY <1>0, <2>3, <2>4 DEF ChainOK, Anchorings
    <2>6. BeaconBlock(e, l) \in Nat
      BY <2>2, DeliveryAssumption DEF CanonicalClose, Epochs
    <2>7. a.at <= BeaconBlock(e, l)
      BY <2>2, <2>4, <2>5, <2>6
    <2>8. a \in Anchorings(e)'
      BY <1>5, <2>3 DEF Anchorings
    <2> QED
      BY <2>2, <2>3, <2>7, <2>8
  <1>8. n # None
    BY <1>6, DeliveryAssumption
  <1>9. \A r, g : MadeBy(r, g) => MadeBy(r, g)'
    BY <1>5, MadeByKept
  <1>10. /\ \A g \in Hosts, d \in Epochs :
              pending'[g][d] = IF g = h /\ d = e THEN n ELSE pending[g][d]
         /\ pending' \in [Hosts -> [Epochs -> Report \cup {None}]]
    BY <1>0, <1>5, <1>6 DEF HostOK
  <1>11. HostOK'
    <2>1. audits' \in [Hosts -> Nat] /\ cursor' \in [Hosts -> Nat]
      BY <1>0, <1>5 DEF HostOK
    <2>2. ASSUME NEW g \in Hosts, NEW d \in Epochs, NEW r \in Report, pending'[g][d] = r
          PROVE  MadeBy(r, g)' /\ r.epoch = d
      <3>1. CASE g = h /\ d = e
        BY <1>6, <1>7, <1>10, <2>2, <3>1
      <3>2. CASE ~(g = h /\ d = e)
        BY <1>0, <1>9, <1>10, <2>2, <3>2 DEF HostOK
      <3> QED
        BY <3>1, <3>2
    <2> QED
      BY <1>10, <2>1, <2>2 DEF HostOK
  <1>12. \A r : Known(r)' => Known(r) \/ r = n
    <2> DEFINE s == [at |-> "sent", report |-> n]
    <2>1. step' = [step EXCEPT ![h] = s] /\ s.report = n
      BY <1>5
    <2> HIDE DEF s
    <2>2. \A r : Sending(r)' => Sending(r) \/ r = n
      BY <1>0, <2>1, SendingAfter
    <2> QED
      BY <1>5, <2>2 DEF Known
  <1>13. \A r : Known(r) => ~(r.host = h /\ r.epoch = e)
    <2> SUFFICES ASSUME NEW r, Known(r), r.host = h, r.epoch = e PROVE FALSE
      OBVIOUS
    <2>1. r = pending[h][e] /\ MadeBy(r, h)
      BY <1>0, <1>3 DEF KnownOK
    <2> QED
      BY <1>3, <2>1, DeliveryAssumption DEF MadeBy
  <1>14. OneReport'
    BY <1>0, <1>6, <1>12, <1>13 DEF OneReport
  <1>15. KnownOK'
    <2> SUFFICES ASSUME NEW r, Known(r)'
                 PROVE  /\ r.host \in Hosts /\ MadeBy(r, r.host)' /\ r.epoch <= cursor'[r.host] + 1
                        /\ r.epoch = cursor'[r.host] + 1 => r = pending'[r.host][r.epoch]
      BY DEF KnownOK
    <2>1. CASE Known(r)
      <3>1. /\ r.host \in Hosts /\ MadeBy(r, r.host) /\ r.epoch <= cursor[r.host] + 1
            /\ r.epoch = cursor[r.host] + 1 => r = pending[r.host][r.epoch]
        BY <1>0, <2>1 DEF KnownOK
      <3>2. r.epoch \in Epochs
        BY <3>1 DEF MadeBy, Report
      <3>3. pending'[r.host][r.epoch] = pending[r.host][r.epoch]
        BY <1>10, <1>13, <2>1, <3>1, <3>2
      <3> QED
        BY <1>5, <1>9, <3>1, <3>3
    <2>2. CASE r = n
      <3>1. cursor[h] \in Nat
        BY <1>0 DEF HostOK
      <3> QED
        BY <1>3, <1>5, <1>6, <1>7, <1>10, <2>2, <3>1
    <2> QED
      BY <1>12, <2>1, <2>2
  <1>16. StepsOK'
    <2>1. step'[h] = [at |-> "sent", report |-> n]
      BY <1>0, <1>5 DEF StepsOK
    <2>2. IsSent(h, n)'
      BY <1>3, <1>5, <1>6, <2>1 DEF IsSent
    <2>3. StepOK(h)'
      BY <1>6, <2>2 DEF StepOK
    <2> QED
      BY <1>0, <1>5, <1>10, <2>3, StepMoves
  <1>17. ChainOK'
    <2>1. \A d : Anchorings(d)' = Anchorings(d)
      BY <1>5 DEF Anchorings
    <2> QED
      BY <1>0, <1>5, <2>1 DEF ChainOK, Anchored
  <1>18. ApiOK' /\ CursorMeansReported'
    BY <1>5 DEF IInv, ApiOK, CursorMeansReported
  <1> QED
    BY <1>11, <1>14, <1>15, <1>16, <1>17, <1>18 DEF IInv

-----------------------------------------------------------------------------
(* The API.                                                                *)

(* A ruling keeps the ledger complete, and a receipt for the report itself *)
(* means that it is stored.                                                *)
LEMMA RulesOK ==
    ASSUME ApiOK, NEW n, Rules(n)
    PROVE  /\ ApiOK' /\ reports \subseteq reports' /\ heard' = heard \cup {n}
           /\ Record(n).id = n \/ Record(n).id \in reports
           /\ Record(n).id = n => n \in reports'
           /\ Record(n).status \in Nat
  <1>0. heard' = heard \cup {n} /\ reports' = Record(n).reports /\ conflicts' = Record(n).conflicts
    BY DEF Rules
  <1>1. CASE n \in reports
    <2>1. Record(n) = [status |-> 200, id |-> n, reports |-> reports, conflicts |-> conflicts]
      BY <1>1 DEF Record
    <2>2. reports' = reports /\ conflicts' = conflicts /\ Record(n).id = n
          /\ Record(n).status = 200
      BY <1>0, <2>1
    <2> QED
      BY <1>0, <1>1, <2>2 DEF ApiOK
  <1>2. CASE n \notin reports /\ GetForPair(n) # {}
    <2>1. PICK kept \in GetForPair(n) :
            Record(n) = [status |-> 409, id |-> kept, reports |-> reports,
                         conflicts |-> conflicts \cup {ConflictRow(kept, n)}]
      BY <1>2 DEF Record
    <2>2. kept \in reports /\ kept.epoch = n.epoch /\ kept # n
      BY <1>2, <2>1 DEF GetForPair
    <2> DEFINE c == ConflictRow(kept, n)
    <2>3. c.kept = kept /\ c.rejected = n /\ c.rejected_overall = n.verdict
      BY DEF ConflictRow
    <2> HIDE DEF c
    <2>4. reports' = reports /\ conflicts' = conflicts \cup {c} /\ Record(n).id = kept
          /\ Record(n).status = 409
      BY <1>0, <2>1 DEF c
    <2>5. ApiOK'
      BY <1>0, <2>2, <2>3, <2>4 DEF ApiOK
    <2> QED
      BY <1>0, <2>2, <2>4, <2>5
  <1>3. CASE n \notin reports /\ GetForPair(n) = {}
    <2>1. Record(n) = [status |-> 201, id |-> n, reports |-> reports \cup {n},
                       conflicts |-> conflicts]
      BY <1>3 DEF Record
    <2>2. reports' = reports \cup {n} /\ conflicts' = conflicts /\ Record(n).id = n
          /\ Record(n).status = 201
      BY <1>0, <2>1
    <2> QED
      BY <1>0, <2>2 DEF ApiOK
  <1> QED
    BY <1>1, <1>2, <1>3

(* The API rules on a known report.                                        *)
LEMMA ApiStep ==
    ASSUME IInv, NEW n, Known(n), Rules(n),
           UNCHANGED <<block, landed, cursor, pending, audits>>,
           \A r : Known(r)' => Known(r), StepsOK'
    PROVE  IInv'
  <1>1. ApiOK' /\ reports \subseteq reports'
    BY RulesOK DEF IInv
  <1>2. ChainOK'
    <2>1. \A e : Anchorings(e)' = Anchorings(e)
      BY DEF Anchorings
    <2> QED
      BY <2>1 DEF IInv, ChainOK, Anchored
  <1>3. HostOK'
    <2>1. \A r, g : MadeBy(r, g) => MadeBy(r, g)'
      BY MadeByKept
    <2> QED
      BY <2>1 DEF IInv, HostOK
  <1>4. KnownOK' /\ OneReport'
    BY KnownKept DEF IInv
  <1>5. CursorMeansReported'
    BY <1>1 DEF IInv, CursorMeansReported
  <1> QED
    BY <1>1, <1>2, <1>3, <1>4, <1>5 DEF IInv

LEMMA HandleStep ==
    ASSUME IInv, NEW h \in Hosts, Handle(h)
    PROVE  IInv'
  <1>0. KnownOK /\ StepsOK /\ ApiOK
    BY DEF IInv
  <1>1. step[h].at = "sent"
    BY DEF Handle
  <1>2. PICK n \in Report : IsSent(h, n)
    BY <1>0, <1>1, AtStep
  <1>3. step[h].report = n /\ n.host = h /\ n.epoch = cursor[h] + 1
    BY <1>2 DEF IsSent
  <1>4. PICK id, status, accepted :
          id = Record(n).id /\ status = Record(n).status /\ accepted = (Record(n).status # 409)
    OBVIOUS
  <1>5. /\ Rules(n)
        /\ step' = [step EXCEPT ![h] = [at |-> "answered", report |-> n, status |-> status,
                                        accepted |-> accepted, id |-> id]]
        /\ UNCHANGED <<block, landed, cursor, pending, audits, late>>
    BY <1>3, <1>4 DEF Handle, chain, host
  <1>6. Known(n)
    BY <1>1, <1>3 DEF Known, Sending
  <1>7. /\ reports \subseteq reports' /\ heard' = heard \cup {n}
        /\ id = n \/ id \in reports
        /\ id = n => n \in reports'
        /\ status \in Nat
    BY <1>0, <1>4, <1>5, RulesOK
  <1>8. id \in Report
    <2>1. ASSUME id \in reports PROVE id \in Report
      <3>1. Known(id)
        BY <1>0, <2>1 DEF ApiOK, Known
      <3> QED
        BY <1>0, <3>1 DEF KnownOK, MadeBy
    <2> QED
      BY <1>7, <2>1
  <1>9. StepsOK'
    <2>1. step'[h] = [at |-> "answered", report |-> n, status |-> status,
                      accepted |-> accepted, id |-> id]
      BY <1>0, <1>5 DEF StepsOK
    <2>2. IsAnswered(h, n, id, status, accepted)'
      BY <1>3, <1>5, <1>7, <2>1 DEF IsAnswered
    <2>3. accepted \in BOOLEAN
      BY <1>4
    <2>4. StepOK(h)'
      BY <1>7, <1>8, <2>2, <2>3 DEF StepOK
    <2> QED
      BY <1>0, <1>5, <1>7, <2>4, StepMoves
  <1>10. \A r : Known(r)' => Known(r)
    <2> DEFINE s == [at |-> "answered", report |-> n, status |-> status,
                     accepted |-> accepted, id |-> id]
    <2>1. step' = [step EXCEPT ![h] = s] /\ s.report = n
      BY <1>5
    <2> HIDE DEF s
    <2>2. \A r : Sending(r)' => Sending(r) \/ r = n
      BY <1>0, <2>1, SendingAfter
    <2> QED
      BY <1>5, <1>6, <1>7, <2>2 DEF Known
  <1> QED
    BY <1>5, <1>6, <1>9, <1>10, ApiStep

LEMMA HandleLateStep ==
    ASSUME IInv, NEW n \in late, HandleLate(n)
    PROVE  IInv'
  <1>0. StepsOK /\ ApiOK
    BY DEF IInv
  <1>1. /\ Rules(n) /\ late' = late \ {n}
        /\ UNCHANGED <<block, landed, cursor, pending, audits, step>>
    BY DEF HandleLate, chain, host
  <1>2. Known(n)
    BY DEF Known
  <1>3. reports \subseteq reports' /\ heard' = heard \cup {n}
    BY <1>0, <1>1, RulesOK
  <1>4. StepsOK'
    BY <1>0, <1>1, <1>3, StepKept DEF StepsOK
  <1>5. \A r : Known(r)' => Known(r)
    BY <1>1, <1>2, <1>3 DEF Known, Sending
  <1> QED
    BY <1>1, <1>2, <1>4, <1>5, ApiStep

(* An answer that is no receipt.                                           *)
LEMMA AnsweredStep ==
    ASSUME IInv, NEW h \in Hosts, NEW status \in Nat, NEW accepted \in BOOLEAN,
           Answered(h, status, accepted)
    PROVE  IInv'
  <1>0. StepsOK
    BY DEF IInv
  <1>1. step[h].at = "sent"
    BY DEF Answered
  <1>2. PICK n \in Report : IsSent(h, n)
    BY <1>0, <1>1, AtStep
  <1>3. step[h].report = n /\ n.host = h /\ n.epoch = cursor[h] + 1 /\ n # None
    BY <1>2, DeliveryAssumption DEF IsSent
  <1>4. /\ step' = [step EXCEPT ![h] = [at |-> "answered", report |-> n, status |-> status,
                                        accepted |-> accepted, id |-> None]]
        /\ UNCHANGED <<block, landed, cursor, pending, audits, late, reports, conflicts, heard>>
    BY <1>3 DEF Answered, chain, host, api
  <1>5. StepOK(h)'
    <2>1. step'[h] = [at |-> "answered", report |-> n, status |-> status,
                      accepted |-> accepted, id |-> None]
      BY <1>0, <1>4 DEF StepsOK
    <2>2. IsAnswered(h, n, None, status, accepted)'
      BY <1>3, <1>4, <2>1 DEF IsAnswered
    <2> QED
      BY <2>2 DEF StepOK
  <1>6. \A r : Known(r)' => Known(r)
    <2> DEFINE s == [at |-> "answered", report |-> n, status |-> status,
                     accepted |-> accepted, id |-> None]
    <2>1. step' = [step EXCEPT ![h] = s] /\ s.report = n
      BY <1>4
    <2> HIDE DEF s
    <2>2. \A r : Sending(r)' => Sending(r) \/ r = n
      BY <1>0, <2>1, SendingAfter
    <2>3. Sending(n)
      BY <1>1, <1>3 DEF Sending
    <2> QED
      BY <1>4, <2>2, <2>3 DEF Known
  <1> QED
    BY <1>4, <1>5, <1>6, LoopStep

(* The receipt is for the report of the epoch after the cursor.            *)
LEMMA AdvanceStep ==
    ASSUME IInv, NEW h \in Hosts, Advance(h)
    PROVE  IInv'
  <1>0. ChainOK /\ HostOK /\ KnownOK /\ OneReport /\ StepsOK /\ CursorMeansReported
    BY DEF IInv
  <1>1. step[h].at = "answered" /\ Acked(step[h])
    BY DEF Advance
  <1>2. PICK n \in Report, id \in Report \cup {None}, status \in Nat, accepted \in BOOLEAN :
          IsAnswered(h, n, id, status, accepted)
    BY <1>0, <1>1, AtStep
  <1>3. step[h].report = n /\ n.host = h /\ n.epoch = cursor[h] + 1
    BY <1>2 DEF IsAnswered
  <1>4. n \in reports
    BY <1>1, <1>2 DEF IsAnswered, Acked
  <1>5. PICK e \in Epochs : e = n.epoch
    BY DEF Report
  <1>6. /\ cursor' = [cursor EXCEPT ![h] = e]
        /\ step' = [step EXCEPT ![h] = [at |-> "advanced", epoch |-> e]]
        /\ UNCHANGED <<block, landed, pending, audits, late, reports, conflicts, heard>>
    BY <1>3, <1>5 DEF Advance, AdvanceTo, chain, api
  <1>7. /\ cursor \in [Hosts -> Nat] /\ cursor' \in [Hosts -> Nat]
        /\ \A g \in Hosts : cursor'[g] = IF g = h THEN cursor[h] + 1 ELSE cursor[g]
    BY <1>0, <1>3, <1>5, <1>6 DEF HostOK
  <1>8. \A r, g : MadeBy(r, g) => MadeBy(r, g)'
    BY <1>6, MadeByKept
  <1>9. HostOK'
    BY <1>0, <1>6, <1>7, <1>8 DEF HostOK
  <1>10. ChainOK'
    <2>1. \A d : Anchorings(d)' = Anchorings(d)
      BY <1>6 DEF Anchorings
    <2> QED
      BY <1>0, <1>6, <2>1 DEF ChainOK, Anchored
  <1>11. StepsOK'
    <2>1. step'[h] = [at |-> "advanced", epoch |-> e]
      BY <1>0, <1>6 DEF StepsOK
    <2>2. IsAdvanced(h, e)'
      BY <1>3, <1>5, <1>7, <2>1 DEF IsAdvanced
    <2>3. StepOK(h)'
      BY <2>2 DEF StepOK
    <2> QED
      BY <1>0, <1>6, <1>7, <2>3, StepMoves
  <1>12. \A r : Known(r)' => Known(r)
    <2> DEFINE s == [at |-> "advanced", epoch |-> e]
    <2>1. step' = [step EXCEPT ![h] = s] /\ s.at = "advanced"
      BY <1>6
    <2> HIDE DEF s
    <2>2. \A r : Sending(r)' => Sending(r)
      BY <1>0, <2>1, SendingAfter
    <2> QED
      BY <1>6, <2>2 DEF Known
  <1>13. OneReport'
    BY <1>0, <1>12 DEF OneReport
  <1>14. KnownOK'
    <2> SUFFICES ASSUME NEW r, Known(r)'
                 PROVE  /\ r.host \in Hosts /\ MadeBy(r, r.host)' /\ r.epoch <= cursor'[r.host] + 1
                        /\ r.epoch = cursor'[r.host] + 1 => r = pending'[r.host][r.epoch]
      BY DEF KnownOK
    <2>1. /\ r.host \in Hosts /\ MadeBy(r, r.host) /\ r.epoch <= cursor[r.host] + 1
          /\ r.epoch = cursor[r.host] + 1 => r = pending[r.host][r.epoch]
      BY <1>0, <1>12 DEF KnownOK
    <2>2. r.epoch \in Nat /\ cursor[r.host] \in Nat
      BY <1>7, <2>1, DeliveryAssumption DEF MadeBy, Report, Epochs
    <2>3. CASE r.host = h
      BY <1>7, <1>8, <2>1, <2>2, <2>3
    <2>4. CASE r.host # h
      BY <1>6, <1>7, <1>8, <2>1, <2>4
    <2> QED
      BY <2>3, <2>4
  <1>15. CursorMeansReported'
    <2> SUFFICES ASSUME NEW g \in Hosts, NEW d \in 1..cursor'[g]
                 PROVE  \E r \in reports : r.host = g /\ r.epoch = d
      BY <1>6 DEF CursorMeansReported
    <2>1. CASE d \in 1..cursor[g]
      BY <1>0, <2>1 DEF CursorMeansReported
    <2>2. CASE d \notin 1..cursor[g]
      <3>1. g = h /\ d = cursor[h] + 1
        BY <1>7, <2>2
      <3> QED
        BY <1>3, <1>4, <3>1
    <2> QED
      BY <2>1, <2>2
  <1>16. ApiOK'
    BY <1>6 DEF IInv, ApiOK
  <1> QED
    BY <1>9, <1>10, <1>11, <1>13, <1>14, <1>15, <1>16 DEF IInv

(* The row that goes is of the epoch the cursor stands at.                 *)
LEMMA ClearStep ==
    ASSUME IInv, NEW h \in Hosts, Clear(h)
    PROVE  IInv'
  <1>0. ChainOK /\ HostOK /\ KnownOK /\ OneReport /\ StepsOK
    BY DEF IInv
  <1>1. step[h].at = "advanced"
    BY DEF Clear
  <1>2. PICK e \in Epochs : IsAdvanced(h, e)
    BY <1>0, <1>1, AtStep
  <1>3. step[h].epoch = e /\ e = cursor[h]
    BY <1>2 DEF IsAdvanced
  <1>4. /\ pending' = [pending EXCEPT ![h][e] = None]
        /\ step' = [step EXCEPT ![h] = Idle]
        /\ UNCHANGED <<block, landed, cursor, audits, late, reports, conflicts, heard>>
    BY <1>3 DEF Clear, chain, api
  <1>5. /\ pending' \in [Hosts -> [Epochs -> Report \cup {None}]]
        /\ \A g \in Hosts, d \in Epochs :
              pending'[g][d] = IF g = h /\ d = e THEN None ELSE pending[g][d]
    BY <1>0, <1>4 DEF HostOK
  <1>6. \A r, g : MadeBy(r, g) => MadeBy(r, g)'
    BY <1>4, MadeByKept
  <1>7. HostOK'
    <2>1. ASSUME NEW g \in Hosts, NEW d \in Epochs, NEW r \in Report, pending'[g][d] = r
          PROVE  MadeBy(r, g)' /\ r.epoch = d
      <3>1. pending[g][d] = r
        BY <1>5, <2>1, DeliveryAssumption
      <3> QED
        BY <1>0, <1>6, <3>1 DEF HostOK
    <2> QED
      BY <1>0, <1>4, <1>5, <2>1 DEF HostOK
  <1>8. ChainOK'
    <2>1. \A d : Anchorings(d)' = Anchorings(d)
      BY <1>4 DEF Anchorings
    <2> QED
      BY <1>0, <1>4, <2>1 DEF ChainOK, Anchored
  <1>9. step'[h] = Idle /\ Idle.at = "idle"
    BY <1>0, <1>4 DEF StepsOK, Idle
  <1>10. StepsOK'
    <2>1. StepOK(h)'
      BY <1>9 DEF StepOK, Idle
    <2> QED
      BY <1>0, <1>4, <1>5, <2>1, StepMoves
  <1>11. \A r : Known(r)' => Known(r)
    <2>1. \A r : Sending(r)' => Sending(r)
      BY <1>0, <1>4, <1>9, SendingAfter
    <2> QED
      BY <1>4, <2>1 DEF Known
  <1>12. OneReport'
    BY <1>0, <1>11 DEF OneReport
  <1>13. KnownOK'
    <2> SUFFICES ASSUME NEW r, Known(r)'
                 PROVE  /\ r.host \in Hosts /\ MadeBy(r, r.host)' /\ r.epoch <= cursor'[r.host] + 1
                        /\ r.epoch = cursor'[r.host] + 1 => r = pending'[r.host][r.epoch]
      BY DEF KnownOK
    <2>1. /\ r.host \in Hosts /\ MadeBy(r, r.host) /\ r.epoch <= cursor[r.host] + 1
          /\ r.epoch = cursor[r.host] + 1 => r = pending[r.host][r.epoch]
      BY <1>0, <1>11 DEF KnownOK
    <2>2. r.epoch \in Epochs /\ cursor[r.host] \in Nat
      BY <1>0, <2>1 DEF HostOK, MadeBy, Report
    <2>3. r.epoch = cursor[r.host] + 1 => pending'[r.host][r.epoch] = pending[r.host][r.epoch]
      BY <1>3, <1>5, <2>1, <2>2
    <2> QED
      BY <1>4, <1>6, <2>1, <2>3
  <1>14. ApiOK' /\ CursorMeansReported'
    BY <1>4 DEF IInv, ApiOK, CursorMeansReported
  <1> QED
    BY <1>7, <1>8, <1>10, <1>12, <1>13, <1>14 DEF IInv

-----------------------------------------------------------------------------
(* The invariant, and what it says.                                        *)

LEMMA StepInv == IInv /\ [Next]_vars => IInv'
  <1> SUFFICES ASSUME IInv, [Next]_vars PROVE IInv'
    OBVIOUS
  <1>1. CASE NewBlock
    BY <1>1, BlockStep
  <1>2. ASSUME NEW h \in Hosts, Works(h) \/ Refuse(h) \/ Fails(h)
        PROVE  IInv'
    <2>1. CASE Resend(h)
      BY <2>1, ResendStep
    <2>2. CASE Fetch(h)
      BY <2>2, FetchStep
    <2>3. ASSUME NEW outage \in BOOLEAN, Audit(h, outage) PROVE IInv'
      BY <2>3, AuditStep
    <2>4. CASE Handle(h)
      BY <2>4, HandleStep
    <2>5. CASE Advance(h)
      BY <2>5, AdvanceStep
    <2>6. CASE Clear(h)
      BY <2>6, ClearStep
    <2>7. CASE SubmitFails(h) \/ Refuse(h) \/ Crash(h)
      BY <2>7, IdleStep
    <2>8. ASSUME NEW keep \in BOOLEAN, TransportFails(h, keep) PROVE IInv'
      BY <2>8, IdleStep
    <2>9. ASSUME NEW status \in {200, 401, 403}, NEW b \in BOOLEAN, Answered(h, status, b)
          PROVE  IInv'
      <3>1. status \in Nat
        OBVIOUS
      <3> QED
        BY <2>9, <3>1, AnsweredStep
    <2>10. CASE Unauthorized(h) \/ Unverified(h)
      BY <2>9, <2>10, Zenon DEF Unauthorized, Unverified
    <2>11. ASSUME NEW b \in BOOLEAN, BadAnswer(h, b) PROVE IInv'
      BY <2>9, <2>11, SMT DEF BadAnswer
    <2> QED
      BY <1>2, <2>1, <2>2, <2>3, <2>4, <2>5, <2>6, <2>7, <2>8, <2>10, <2>11
      DEF Works, Fails
  <1>3. ASSUME NEW r \in late, HandleLate(r)
        PROVE  IInv'
    BY <1>3, HandleLateStep
  <1>4. CASE UNCHANGED vars
    <2>1. UNCHANGED <<block, landed, cursor, pending, step, audits, late, reports, conflicts, heard>>
      BY <1>4 DEF vars
    <2>2. /\ \A e : Anchorings(e)' = Anchorings(e)
          /\ \A r, h : MadeBy(r, h) => MadeBy(r, h)'
          /\ \A r : Known(r)' => Known(r)
      BY <2>1, MadeByKept DEF Anchorings, Known, Sending
    <2>3. ChainOK'
      BY <2>1, <2>2 DEF IInv, ChainOK, Anchored
    <2>4. HostOK'
      BY <2>1, <2>2 DEF IInv, HostOK
    <2>5. KnownOK' /\ OneReport'
      BY <2>1, <2>2, KnownKept DEF IInv
    <2>6. StepsOK'
      BY <2>1, StepKept DEF IInv, StepsOK
    <2>7. ApiOK' /\ CursorMeansReported'
      BY <2>1 DEF IInv, ApiOK, CursorMeansReported
    <2> QED
      BY <2>3, <2>4, <2>5, <2>6, <2>7 DEF IInv
  <1> QED
    BY <1>1, <1>2, <1>3, <1>4 DEF Next

LEMMA Invariance == Spec => []IInv
  BY InitInv, StepInv, PTL DEF Spec

(* Whatever is lost, late or repeated, and whoever shares its hotkey, a    *)
(* host never contradicts itself at the API, and its cursor passes an      *)
(* epoch only with its report of it on record (pending_reports.py put and  *)
(* get, client.py submit, cursor.py advance_to).                           *)
THEOREM PassedOnceCorrect == Spec => []PassedOnce
  <1>1. IInv => PassedOnce
    <2> SUFFICES ASSUME IInv PROVE PassedOnce
      OBVIOUS
    <2>1. NoSelfConflict
      <3> SUFFICES ASSUME NEW c \in conflicts, c.kept.host = c.rejected.host
                   PROVE  FALSE
        BY DEF NoSelfConflict
      <3>1. /\ c.kept \in heard /\ c.rejected \in heard /\ c.kept # c.rejected
            /\ c.kept.epoch = c.rejected.epoch
        BY DEF IInv, ApiOK
      <3>2. Known(c.kept) /\ Known(c.rejected)
        BY <3>1 DEF Known
      <3> QED
        BY <3>1, <3>2 DEF IInv, OneReport
    <2> QED
      BY <2>1 DEF IInv, PassedOnce
  <1> QED
    BY <1>1, Invariance, PTL

(* No report buries a dispute the API has ruled on, and the gauge counts   *)
(* exactly the epochs the status route calls DISPUTED (store.py record,    *)
(* aggregate.py epoch_status and disputed_epoch_count).                    *)
THEOREM DisputeStandsCorrect == Spec => []DisputeStands
  <1>1. IInv => DisputeStands
    <2> SUFFICES ASSUME IInv PROVE DisputeStands
      OBVIOUS
    <2> DEFINE Disputing == {r.epoch : r \in {q \in reports : q.verdict = "DISPUTED"}}
               Rejecting == {c.rejected.epoch :
                               c \in {d \in conflicts : d.rejected_overall = "DISPUTED"}}
    <2>0. ApiOK /\ KnownOK
      BY DEF IInv
    <2>1. \A r \in heard : r.epoch \in Epochs
      BY <2>0 DEF Known, KnownOK, MadeBy, Report
    <2>2. Disputing \cup Rejecting \subseteq Epochs
      BY <2>0, <2>1 DEF ApiOK
    <2>3. ASSUME NEW e \in Epochs
          PROVE  EpochStatus(e) = "DISPUTED" <=> e \in Disputing \cup Rejecting
      <3>1. e \in Disputing <=> \E r \in ForEpoch(e) : r.verdict = "DISPUTED"
        BY DEF ForEpoch
      <3>2. e \in Rejecting <=> DisputedConflicts(e) # {}
        BY DEF DisputedConflicts
      <3>3. e \in Rejecting => ForEpoch(e) # {}
        <4> SUFFICES ASSUME e \in Rejecting PROVE ForEpoch(e) # {}
          OBVIOUS
        <4>1. PICK c \in conflicts : c.rejected.epoch = e
          OBVIOUS
        <4>2. c.kept \in reports /\ c.kept.epoch = e
          BY <2>0, <4>1 DEF ApiOK
        <4> QED
          BY <4>2 DEF ForEpoch
      <3> HIDE DEF Disputing, Rejecting
      <3> QED
        BY <3>1, <3>2, <3>3 DEF EpochStatus
    <2>4. ASSUME NEW r \in heard, r.verdict = "DISPUTED"
          PROVE  EpochStatus(r.epoch) = "DISPUTED"
      <3>1. CASE r \in reports
        BY <2>1, <2>3, <2>4, <3>1
      <3>2. ASSUME NEW c \in conflicts, c.rejected = r
            PROVE  EpochStatus(r.epoch) = "DISPUTED"
        <4>1. c.rejected_overall = "DISPUTED"
          BY <2>0, <2>4, <3>2 DEF ApiOK
        <4>2. r.epoch \in Rejecting
          BY <3>2, <4>1
        <4> QED
          BY <2>1, <2>3, <4>2
      <3> QED
        BY <2>0, <3>1, <3>2 DEF ApiOK
    <2>5. Disputing \cup Rejecting = {e \in Epochs : EpochStatus(e) = "DISPUTED"}
      <3> HIDE DEF Disputing, Rejecting
      <3> QED
        BY <2>2, <2>3
    <2>6. DisputedEpochCount = Cardinality(Disputing \cup Rejecting)
      BY DEF DisputedEpochCount
    <2> HIDE DEF Disputing, Rejecting
    <2> QED
      BY <2>4, <2>5, <2>6 DEF DisputeStands
  <1> QED
    BY <1>1, Invariance, PTL

(* However often the authority anchors again, a stored beacon report is of *)
(* a log that was on the chain before its canonical beacon existed         *)
(* (beacon.py chain_beacon).                                               *)
THEOREM SampleUnsteeredCorrect == Spec => []SampleUnsteered
  <1>1. IInv => SampleUnsteered
    <2> SUFFICES ASSUME IInv, NEW r \in reports, r.mode = "beacon"
                 PROVE  /\ BeaconBlock(r.epoch, r.log) = CanonicalClose(r.epoch) + Depth
                        /\ \E a \in Anchorings(r.epoch) :
                              a.log = r.log /\ a.at <= BeaconBlock(r.epoch, r.log)
      BY DEF SampleUnsteered
    <2>1. Known(r)
      BY DEF IInv, ApiOK, Known
    <2>2. MadeBy(r, r.host)
      BY <2>1 DEF IInv, KnownOK
    <2> QED
      BY <2>2 DEF MadeBy
  <1> QED
    BY <1>1, Invariance, PTL

=============================================================================
