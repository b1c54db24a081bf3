------------------------- MODULE AuthorityAnchorProofs -------------------------
(***************************************************************************)
(* Proofs about AuthorityAnchor, for any number of processes, epochs,      *)
(* blocks and foreign writes, and for every era, window and finality lag.  *)
(*                                                                         *)
(* Why a digest lands at most once: only the newest submission of an epoch *)
(* can be anything but proven absent (OldAreAbsent), a submission is       *)
(* dispatched once, by the hold of the lane that recorded it (JobOK), and  *)
(* while a dispatched one is open it is the last of the whole journal and  *)
(* holds the fence (FenceHolds), so that nothing signed after it exists    *)
(* that could write the slot over it (ReceiptHolds).                       *)
(***************************************************************************)
EXTENDS AuthorityAnchor, TLAPS

(* The extrinsic of a hash was given to the chain.                         *)
Dispatched(h) == h \in wire \/ \E i \in inc : i.hash = h

Open(h) == journal[h].outcome = "none"

(* An included hash is journalled, within its era, and not included again. *)
IncludedOnce ==
    /\ \A i \in inc : /\ i.hash \in Hashes /\ i.hash \notin wire
                      /\ i.at <= block /\ i.at <= journal[i.hash].start + Era
    /\ \A i, j \in inc : i.hash = j.hash => i = j

(* Only the newest submission of an epoch is not proven absent.            *)
OldAreAbsent ==
    \A g, h \in Hashes :
        g < h /\ journal[g].epoch = journal[h].epoch => journal[g].outcome = "expired_absent"

(* h is the newest submission of e.                                        *)
IsNewest(h, e) ==
    /\ h \in Hashes /\ journal[h].epoch = e
    /\ \A g \in Hashes : journal[g].epoch = e => g <= h

(* An epoch that has a submission has a newest one.                        *)
HasNewest ==
    \A e \in Epochs : (\E h \in Hashes : journal[h].epoch = e) => \E h \in Hashes : IsNewest(h, e)

(* An open dispatched submission is fenced, and nothing is signed after it.*)
FenceHolds ==
    /\ foreign <= Len(journal) + 1
    /\ \A h \in Hashes : Open(h) /\ Dispatched(h) =>
          fence = h /\ h = Len(journal) /\ foreign <= h

(* Once it is included nothing is under way that could overwrite it.       *)
ReceiptHolds ==
    \A i \in inc : Open(i.hash) =>
        wire = {} /\ foreign = 0 /\ (i.ok => wrote[i.at] = i.hash)

(* What a process read before the lane names a submission of its epoch.    *)
AskOK(a) ==
    /\ a.kind = "anchor" =>
          /\ a.epoch \in Epochs /\ a.mark \in {0, a.want}
          /\ a.want # 0 => a.want \in Hashes /\ journal[a.want].epoch = a.epoch
    /\ a.kind = "sweep" => a.want \in Hashes

AsksOK == \A p \in Procs : AskOK(asks[p])

(* A submission that its own hold of the lane has yet to dispatch.         *)
Unsent(h) ==
    /\ h = Len(journal) /\ Open(h) /\ ~Dispatched(h) /\ foreign <= h

(* What the holder of the lane knows at its step.                          *)
JobOK ==
    /\ step \in {"submission", "record"} =>
          /\ job.epoch \in Epochs
          /\ fence # 0 => journal[fence].epoch = job.epoch
    /\ step \in {"fence", "send", "confirm", "index", "finish", "expire", "clear"} =>
          job.sub \in Hashes /\ journal[job.sub].epoch = job.epoch
    /\ step = "fence" /\ job.fresh => Unsent(job.sub)
    /\ step = "send" => Unsent(job.sub) /\ fence = job.sub
    /\ step = "index" =>
          [hash |-> job.sub, at |-> job.at, ok |-> TRUE] \in inc /\ job.at < block
    /\ step = "expire" =>
          /\ \A i \in inc : i.hash # job.sub
          /\ block > journal[job.sub].start + Era
    /\ step = "clear" => ~Open(job.sub)


(* The invariant on the durable records and the chain.                     *)
Records == /\ IncludedOnce /\ OldAreAbsent /\ HasNewest /\ FenceHolds /\ ReceiptHolds
           /\ ExpiredNeverLands /\ IndexedAnchorIsProven

IInv == TypeOK /\ Records /\ AsksOK /\ JobOK

-----------------------------------------------------------------------------
(* The fields of every record have their types.                            *)
LEMMA Types ==
    ASSUME TypeOK
    PROVE  /\ Len(journal) \in Nat /\ Hashes = 1 .. Len(journal)
           /\ block \in Nat /\ foreign \in Nat /\ Era \in Nat /\ K \in Nat
           /\ fence \in Nat /\ (fence # 0 => fence \in Hashes)
           /\ \A h \in Hashes : /\ h \in Nat /\ h # 0 /\ h <= Len(journal)
                                /\ journal[h] \in Submission
                                /\ journal[h].epoch \in Epochs
                                /\ journal[h].start \in Nat
                                /\ journal[h].outcome \in {"none", "confirmed",
                                       "expired_absent", "acknowledged"}
           /\ \A i \in inc : /\ i \in Inclusion
                             /\ i.hash \in Nat /\ i.at \in Blocks /\ i.at \in Nat
                             /\ i = [hash |-> i.hash, at |-> i.at, ok |-> i.ok]
           /\ \A e \in Epochs : /\ index[e] \in IndexRow /\ index[e].txid \in Nat
                                /\ index[e].at \in Blocks /\ index[e].at \in Nat
           /\ job.sub \in Nat /\ job.at \in Nat /\ job.at \in Blocks /\ job.head \in Blocks
           /\ wire \subseteq Hashes
  <1>1. journal \in Seq(Submission) /\ inc \subseteq Inclusion /\ index \in [Epochs -> IndexRow]
        /\ job \in Job /\ fence \in Hashes \cup {0} /\ block \in Blocks /\ foreign \in Nat
        /\ wire \subseteq Hashes
    BY DEF TypeOK
  <1>2. Len(journal) \in Nat /\ Hashes = 1 .. Len(journal)
    BY <1>1 DEF Hashes
  <1>3. /\ \A b \in Blocks : b \in Nat
        /\ Era \in Nat /\ K \in Nat
    BY AnchorAssumption DEF Blocks
  <1>4. \A h \in Hashes : journal[h] \in Submission /\ h \in Nat /\ h # 0 /\ h <= Len(journal)
    BY <1>1, <1>2
  <1>5. \A h \in Hashes : /\ journal[h].epoch \in Epochs /\ journal[h].start \in Nat
                          /\ journal[h].outcome \in {"none", "confirmed",
                                       "expired_absent", "acknowledged"}
    BY <1>3, <1>4 DEF Submission
  <1>6. \A i \in inc : /\ i \in Inclusion
                       /\ i.hash \in Nat /\ i.at \in Blocks /\ i.at \in Nat
                       /\ i = [hash |-> i.hash, at |-> i.at, ok |-> i.ok]
    BY <1>1, <1>3 DEF Inclusion
  <1>7. \A e \in Epochs : /\ index[e] \in IndexRow /\ index[e].txid \in Nat
                           /\ index[e].at \in Blocks /\ index[e].at \in Nat
    BY <1>1, <1>3 DEF IndexRow
  <1>8. job.sub \in Nat /\ job.at \in Nat /\ job.at \in Blocks /\ job.head \in Blocks
    BY <1>1, <1>3 DEF Job
  <1>9. fence \in Nat /\ (fence # 0 => fence \in Hashes)
    <2>1. fence = 0 \/ fence \in Hashes
      BY <1>1
    <2>2. fence \in Hashes => fence \in Nat
      BY <1>4
    <2> QED
      BY <2>1, <2>2
  <1> QED
    BY <1>1, <1>2, <1>3, <1>4, <1>5, <1>6, <1>7, <1>8, <1>9

LEMMA TypeParts ==
    ASSUME block \in Blocks, foreign \in Nat, inc \subseteq Inclusion, wrote \in [Blocks -> Int],
           index \in [Epochs -> IndexRow], tomb \subseteq Epochs, journal \in Seq(Submission),
           wire \subseteq Hashes, fence \in Hashes \cup {0},
           lane \in Procs \cup {"foreign", "operator", "none"}, step \in Steps, job \in Job,
           asks \in [Procs -> Ask], sent \in Nat, lane = "none" <=> step = "free"
    PROVE  TypeOK
  BY DEF TypeOK

(* Time passes and the records stay.                                       *)
LEMMA RecordsKept ==
    ASSUME TypeOK, Records, block' \in Nat, block' >= block,
           UNCHANGED <<wire, foreign, inc, wrote, index, tomb, journal, fence>>
    PROVE  Records'
  <1>1. Hashes' = Hashes /\ \A h \in Hashes : Dispatched(h)' = Dispatched(h) /\ Open(h)' = Open(h)
    BY DEF Hashes, Dispatched, Open
  <1>2. IncludedOnce'
    BY <1>1, Types DEF Records, IncludedOnce
  <1>3. OldAreAbsent' /\ HasNewest' /\ FenceHolds'
    BY <1>1 DEF Records, OldAreAbsent, HasNewest, IsNewest, FenceHolds
  <1>4. ReceiptHolds'
    BY <1>1 DEF Records, ReceiptHolds, IncludedOnce
  <1>5. ExpiredNeverLands'
    BY <1>1, Types DEF Records, ExpiredNeverLands
  <1>6. IndexedAnchorIsProven'
    <2>1. \A e \in Epochs : index[e].at < block => index[e].at < block'
      BY Types
    <2> QED
      BY <1>1, <2>1 DEF Records, IndexedAnchorIsProven
  <1> QED
    BY <1>2, <1>3, <1>4, <1>5, <1>6 DEF Records

(* What was asked stays true of a journal that is only added to.           *)
LEMMA AsksKept ==
    ASSUME AsksOK, Hashes \subseteq Hashes', \A h \in Hashes : journal'[h].epoch = journal[h].epoch,
           \A p \in Procs : asks'[p] \in {asks[p], NoAsk}
    PROVE  AsksOK'
  <1> SUFFICES ASSUME NEW p \in Procs PROVE AskOK(asks[p])'
    BY DEF AsksOK
  <1>1. CASE asks'[p] = NoAsk
    BY <1>1 DEF AskOK, NoAsk
  <1>2. CASE asks'[p] = asks[p]
    BY <1>2 DEF AskOK, AsksOK
  <1> QED
    BY <1>1, <1>2

(* An ask is dropped.                                                      *)
LEMMA AskDropped ==
    ASSUME TypeOK, NEW p \in Procs, asks' = [asks EXCEPT ![p] = NoAsk]
    PROVE  asks' \in [Procs -> Ask] /\ \A q \in Procs : asks'[q] \in {asks[q], NoAsk}
  <1>1. NoAsk \in Ask
    BY DEF NoAsk, Ask
  <1> QED
    BY <1>1 DEF TypeOK

(* The lane is left.                                                       *)
LEMMA Released ==
    ASSUME Release
    PROVE  /\ lane' \in Procs \cup {"foreign", "operator", "none"} /\ step' \in Steps /\ job' \in Job
           /\ (lane' = "none" <=> step' = "free") /\ JobOK'
  <1>1. lane' = "none" /\ step' = "free" /\ job' = NoJob
    BY DEF Release
  <1>2. NoJob \in Job
    BY AnchorAssumption DEF NoJob, Job, Blocks
  <1>3. JobOK'
    BY <1>1 DEF JobOK
  <1> QED
    BY <1>1, <1>2, <1>3 DEF Steps

(* The holder of the lane is left in peace.                                *)
LEMMA JobKept ==
    ASSUME TypeOK, JobOK, block' \in Nat, block' >= block,
           UNCHANGED <<step, job, wire, foreign, inc, journal, fence>>
    PROVE  JobOK'
  <1>1. Hashes' = Hashes /\ (Unsent(job.sub)' <=> Unsent(job.sub))
        /\ (Open(job.sub)' <=> Open(job.sub))
    BY DEF Hashes, Unsent, Dispatched, Open
  <1>2. (step = "expire" \/ step = "index") => job.sub \in Hashes
    BY DEF JobOK
  <1>3. step = "index" =>
          [hash |-> job'.sub, at |-> job'.at, ok |-> TRUE] \in inc' /\ job'.at < block'
    BY Types DEF JobOK
  <1>4. step = "expire" => block' > journal'[job'.sub].start + Era
    BY <1>2, Types DEF JobOK
  <1> QED
    BY <1>1, <1>3, <1>4 DEF JobOK

(* The records stay, and so does the job or the lane is left.              *)
LEMMA QuietKept ==
    ASSUME IInv, block' \in Blocks, block' >= block,
           UNCHANGED <<wire, foreign, inc, wrote, index, tomb, journal, fence, sent>>,
           asks' \in [Procs -> Ask], AsksOK',
           UNCHANGED inlane \/ Release
    PROVE  IInv'
  <1>0. TypeOK /\ Records /\ JobOK
    BY DEF IInv
  <1>1. block' \in Nat
    BY AnchorAssumption DEF Blocks
  <1>2. Records'
    BY <1>0, <1>1, RecordsKept
  <1>3. /\ lane' \in Procs \cup {"foreign", "operator", "none"} /\ step' \in Steps /\ job' \in Job
        /\ (lane' = "none" <=> step' = "free") /\ JobOK'
    <2>1. CASE UNCHANGED inlane
      <3>1. UNCHANGED <<lane, step, job>>
        BY <2>1 DEF inlane
      <3>2. JobOK'
        BY <1>0, <1>1, <3>1, JobKept
      <3> QED
        BY <1>0, <3>1, <3>2 DEF TypeOK
    <2>2. CASE Release
      BY <2>2, Released
    <2> QED
      BY <2>1, <2>2
  <1>4. TypeOK'
    BY <1>0, <1>3 DEF TypeOK, Hashes
  <1> QED
    BY <1>2, <1>3, <1>4 DEF IInv

-----------------------------------------------------------------------------
(* Every action keeps the invariant: the chain.                            *)

LEMMA InitInv == Init => IInv
  <1> SUFFICES ASSUME Init PROVE IInv
    OBVIOUS
  <1>1. /\ journal = <<>> /\ Hashes = {} /\ wire = {} /\ inc = {} /\ foreign = 0 /\ fence = 0
        /\ tomb = {} /\ lane = "none" /\ step = "free" /\ job = NoJob /\ sent = 0
        /\ Len(journal) = 0
    BY DEF Init, Hashes
  <1>2. 0 \in Blocks /\ 1 \in Blocks
    BY AnchorAssumption DEF Blocks
  <1>3. block \in Blocks /\ wrote \in [Blocks -> Int] /\ asks \in [Procs -> Ask]
        /\ index \in [Epochs -> IndexRow]
    BY <1>2 DEF Init, NoAsk, Ask, IndexRow
  <1>4. job \in Job
    BY <1>1, <1>2 DEF NoJob, Job
  <1>5. TypeOK
    BY <1>1, <1>3, <1>4 DEF TypeOK, Steps
  <1>6. Records
    BY <1>1 DEF Records, IncludedOnce, OldAreAbsent, HasNewest, IsNewest, FenceHolds, ReceiptHolds,
                ExpiredNeverLands, IndexedAnchorIsProven, Init
  <1>7. AsksOK /\ JobOK
    BY <1>1 DEF AsksOK, AskOK, JobOK, Init, NoAsk
  <1> QED
    BY <1>5, <1>6, <1>7 DEF IInv

LEMMA TickStep ==
    ASSUME IInv, Tick
    PROVE  IInv'
  <1>1. /\ UNCHANGED <<wire, foreign, inc, wrote, index, tomb, journal, fence, sent>>
        /\ UNCHANGED inlane /\ asks' = asks
        /\ block' = block + 1 /\ block < MaxBlock
    BY DEF Tick, durable, inlane
  <1>2. block' \in Blocks /\ block' >= block
    BY <1>1, AnchorAssumption DEF IInv, TypeOK, Blocks
  <1>3. AsksOK' /\ asks' \in [Procs -> Ask]
    BY <1>1 DEF IInv, TypeOK, AsksOK, AskOK, Hashes
  <1> QED
    BY <1>1, <1>2, <1>3, QuietKept

(* An anchor lands within its era: everything signed before it is dead.    *)
LEMMA IncludeStep ==
    ASSUME IInv, NEW h \in wire, NEW ok \in BOOLEAN, Include(h, ok)
    PROVE  IInv'
  <1> DEFINE n == [hash |-> h, at |-> block, ok |-> ok]
  <1>0. TypeOK /\ Records /\ AsksOK /\ JobOK
    BY DEF IInv
  <1>1. /\ block <= journal[h].start + Era
        /\ wire' = {g \in wire : g > h}
        /\ foreign' = IF foreign > h THEN foreign ELSE 0
        /\ inc' = inc \cup {n}
        /\ wrote' = IF ok THEN [wrote EXCEPT ![block] = h] ELSE wrote
        /\ UNCHANGED <<block, index, tomb, journal, fence, lane, step, job, asks, sent>>
        /\ Hashes' = Hashes
    BY DEF Include, durable, inlane, Hashes
  <1>2. h \in Hashes /\ h \in Nat /\ h # 0 /\ h <= Len(journal)
    BY <1>0, Types
  <1>3. n.hash = h /\ n.at = block /\ n.ok = ok /\ n \in Inclusion
    BY <1>0, <1>2 DEF Inclusion, TypeOK
  <1> HIDE DEF n
  <1>4. TypeOK'
    <2>1. wrote' \in [Blocks -> Int]
      BY <1>0, <1>1, <1>2 DEF TypeOK
    <2>2. foreign' \in Nat /\ wire' \subseteq Hashes /\ inc' \subseteq Inclusion
      BY <1>0, <1>1, <1>3 DEF TypeOK
    <2> QED
      BY <1>0, <1>1, <2>1, <2>2 DEF TypeOK
  <1>5. \A g \in Hashes : /\ Dispatched(g)' => Dispatched(g)
                          /\ (Open(g)' <=> Open(g))
    BY <1>1, <1>3 DEF Dispatched, Open
  <1>6. IncludedOnce'
    <2>1. \A i \in inc : i.hash # h /\ i.hash \notin wire'
      BY <1>0, <1>1 DEF Records, IncludedOnce
    <2>2. h \notin wire'
      BY <1>1, <1>2
    <2> QED
      BY <1>0, <1>1, <1>2, <1>3, <2>1, <2>2, Types DEF Records, IncludedOnce
  <1>7. OldAreAbsent' /\ HasNewest' /\ IndexedAnchorIsProven'
    BY <1>0, <1>1 DEF Records, OldAreAbsent, HasNewest, IsNewest, IndexedAnchorIsProven
  <1>8. FenceHolds'
    BY <1>0, <1>1, <1>2, <1>5, Types DEF Records, FenceHolds
  <1>9. ReceiptHolds'
    <2> SUFFICES ASSUME NEW i \in inc', Open(i.hash)
                 PROVE  wire' = {} /\ foreign' = 0 /\ (i.ok => wrote'[i.at] = i.hash)
      BY <1>1 DEF ReceiptHolds, Open
    <2>1. i \notin inc
      BY <1>0, <1>1 DEF Records, ReceiptHolds
    <2>2. i = n /\ i.hash = h /\ i.at = block /\ i.ok = ok
      BY <1>1, <1>3, <2>1
    <2>3. h = Len(journal) /\ foreign <= h
      BY <1>0, <1>2, <2>2 DEF Records, FenceHolds, Dispatched
    <2>4. wire' = {}
      BY <1>0, <1>1, <2>3, Types
    <2>5. foreign' = 0
      BY <1>0, <1>1, <1>2, <2>3, Types
    <2>6. ok => wrote'[block] = h
      BY <1>0, <1>1 DEF TypeOK
    <2> QED
      BY <2>2, <2>4, <2>5, <2>6
  <1>10. ExpiredNeverLands'
    <2>1. journal[h].outcome # "expired_absent"
      BY <1>0, <1>1, <1>2, Types DEF Records, ExpiredNeverLands
    <2> QED
      BY <1>0, <1>1, <1>3, <2>1 DEF Records, ExpiredNeverLands
  <1>11. AsksOK'
    BY <1>0, <1>1 DEF AsksOK, AskOK
  <1>12. JobOK'
    <2>1. Unsent(job.sub) => Unsent(job.sub)'
      <3> SUFFICES ASSUME Unsent(job.sub) PROVE Unsent(job.sub)'
        OBVIOUS
      <3>1. job.sub # h
        BY DEF Unsent, Dispatched
      <3>2. ~Dispatched(job.sub)'
        BY <1>1, <1>3, <3>1 DEF Unsent, Dispatched
      <3>3. foreign' <= job.sub
        BY <1>0, <1>1, Types DEF Unsent
      <3> QED
        BY <1>1, <3>2, <3>3 DEF Unsent, Open
    <2>2. step = "expire" => job.sub # h
      <3> SUFFICES ASSUME step = "expire", job.sub = h PROVE FALSE
        OBVIOUS
      <3> QED
        BY <1>0, <1>1, <1>2, Types DEF JobOK
    <2>3. Open(job.sub)' <=> Open(job.sub)
      BY <1>1 DEF Open
    <2> QED
      BY <1>0, <1>1, <1>3, <2>1, <2>2, <2>3 DEF JobOK
  <1> QED
    BY <1>4, <1>6, <1>7, <1>8, <1>9, <1>10, <1>11, <1>12 DEF IInv, Records

(* Extrinsics are dropped or killed, and a foreign write may land: not     *)
(* while an included anchor is open, for then none is under way.           *)
LEMMA DeadStep ==
    ASSUME IInv, (\E h \in wire : Drop(h)) \/ ForeignLands \/ ForeignDropped
    PROVE  IInv'
  <1>0. TypeOK /\ Records /\ AsksOK /\ JobOK
    BY DEF IInv
  <1>1. /\ wire' \subseteq wire /\ foreign' \in {foreign, 0}
        /\ UNCHANGED <<block, inc, index, tomb, journal, fence, lane, step, job, asks, sent>>
        /\ Hashes' = Hashes
    BY DEF Drop, ForeignLands, ForeignDropped, durable, inlane, Hashes
  <1>2. wrote' \in [Blocks -> Int] /\ (foreign # 0 \/ wrote' = wrote)
    <2>1. CASE ForeignLands
      <3>1. wrote' = [wrote EXCEPT ![block] = Foreign] /\ foreign # 0
        BY <2>1 DEF ForeignLands
      <3> QED
        BY <1>0, <3>1 DEF TypeOK, Foreign
    <2>2. CASE (\E h \in wire : Drop(h)) \/ ForeignDropped
      BY <1>0, <2>2 DEF TypeOK, Drop, ForeignDropped
    <2> QED
      BY <2>1, <2>2
  <1>3. TypeOK'
    <2>1. foreign' \in Nat
      BY <1>0, <1>1 DEF TypeOK
    <2> QED
      BY <1>0, <1>1, <1>2, <2>1 DEF TypeOK
  <1>4. \A g : /\ Dispatched(g)' => Dispatched(g)
               /\ (Open(g)' <=> Open(g))
    BY <1>1 DEF Dispatched, Open
  <1>5. \A n \in Nat : foreign <= n => foreign' <= n
    BY <1>0, <1>1, Types
  <1>6. IncludedOnce' /\ OldAreAbsent' /\ HasNewest' /\ IndexedAnchorIsProven' /\ ExpiredNeverLands'
    BY <1>0, <1>1
       DEF Records, IncludedOnce, OldAreAbsent, HasNewest, IsNewest, IndexedAnchorIsProven, ExpiredNeverLands
  <1>7. FenceHolds'
    <2>1. Len(journal) \in Nat /\ \A h \in Hashes : h \in Nat
      BY <1>0, Types
    <2> QED
      BY <1>0, <1>1, <1>4, <1>5, <2>1 DEF Records, FenceHolds
  <1>8. ReceiptHolds'
    BY <1>0, <1>1, <1>2, <1>4 DEF Records, ReceiptHolds
  <1>9. AsksOK'
    BY <1>0, <1>1 DEF AsksOK, AskOK
  <1>10. JobOK'
    <2>1. Unsent(job.sub) => Unsent(job.sub)'
      BY <1>0, <1>1, <1>4, <1>5, Types DEF Unsent
    <2> QED
      BY <1>0, <1>1, <1>4, <2>1 DEF JobOK
  <1> QED
    BY <1>3, <1>6, <1>7, <1>8, <1>9, <1>10 DEF IInv, Records

-----------------------------------------------------------------------------
(* The index, and waiting for the lane.                                    *)

(* A row is added, or an epoch without an anchor is given up.              *)
LEMMA IndexStep ==
    ASSUME IInv, NEW e \in Epochs, RecordFinalized(e) \/ MarkGapTombstone(e)
    PROVE  IInv'
  <1>0. TypeOK /\ Records /\ AsksOK /\ JobOK
    BY DEF IInv
  <1>1. /\ UNCHANGED <<block, wire, foreign, inc, wrote, journal, fence, lane, step, job,
                       asks, sent>>
        /\ Hashes' = Hashes
    BY DEF RecordFinalized, MarkGapTombstone, chain, inlane, Hashes
  <1>2. /\ index' \in [Epochs -> IndexRow] /\ tomb' \subseteq Epochs
        /\ \A d \in Epochs : index'[d].txid = index[d].txid /\ index'[d].at = index[d].at
        /\ \A d \in tomb' : d \in tomb \/ index[d].txid = 0
    <2>1. CASE RecordFinalized(e)
      <3>1. index' = [index EXCEPT ![e].here = TRUE] /\ tomb' = tomb
        BY <2>1 DEF RecordFinalized
      <3>2. index \in [Epochs -> IndexRow] /\ index[e] \in IndexRow
        BY <1>0 DEF TypeOK
      <3>3. [index[e] EXCEPT !.here = TRUE] \in IndexRow
            /\ [index[e] EXCEPT !.here = TRUE].txid = index[e].txid
            /\ [index[e] EXCEPT !.here = TRUE].at = index[e].at
        BY <3>2 DEF IndexRow
      <3> QED
        BY <1>0, <3>1, <3>2, <3>3 DEF TypeOK
    <2>2. CASE MarkGapTombstone(e)
      BY <1>0, <2>2 DEF MarkGapTombstone, TypeOK
    <2> QED
      BY <2>1, <2>2
  <1>3. TypeOK'
    BY <1>0, <1>1, <1>2 DEF TypeOK
  <1>4. \A g : (Dispatched(g)' <=> Dispatched(g)) /\ (Open(g)' <=> Open(g))
    BY <1>1 DEF Dispatched, Open
  <1>5. IncludedOnce' /\ OldAreAbsent' /\ HasNewest' /\ ExpiredNeverLands' /\ FenceHolds' /\ ReceiptHolds'
    BY <1>0, <1>1, <1>4
       DEF Records, IncludedOnce, OldAreAbsent, HasNewest, IsNewest, ExpiredNeverLands, FenceHolds, ReceiptHolds
  <1>6. IndexedAnchorIsProven'
    BY <1>0, <1>1, <1>2 DEF Records, IndexedAnchorIsProven
  <1>7. AsksOK' /\ JobOK'
    <2>1. AsksOK'
      BY <1>0, <1>1 DEF AsksOK, AskOK
    <2>2. block' \in Nat /\ block' >= block
      BY <1>0, <1>1, Types
    <2> QED
      BY <1>0, <1>1, <2>1, <2>2, JobKept
  <1> QED
    BY <1>3, <1>5, <1>6, <1>7 DEF IInv, Records

(* get_anchor_submission returns the newest submission of the epoch.       *)
LEMMA NewestIs ==
    ASSUME TypeOK, Records, NEW e \in Epochs
    PROVE  /\ Newest(e) # 0 => IsNewest(Newest(e), e)
           /\ Newest(e) = 0 => \A g \in Hashes : journal[g].epoch # e
           /\ Newest(e) \in Nat
  <1>1. \A h \in Hashes : h \in Nat /\ h # 0
    BY Types
  <1>2. CASE \E h \in Hashes : journal[h].epoch = e
    <2>1. \E h \in Hashes : IsNewest(h, e)
      BY <1>2 DEF Records, HasNewest
    <2>2. Newest(e) = CHOOSE h \in Hashes : /\ journal[h].epoch = e
                                            /\ \A g \in Hashes : journal[g].epoch = e => g <= h
      BY <1>2 DEF Newest
    <2>3. IsNewest(Newest(e), e)
      BY <2>1, <2>2 DEF IsNewest
    <2> QED
      BY <1>1, <2>3 DEF IsNewest
  <1>3. CASE ~\E h \in Hashes : journal[h].epoch = e
    BY <1>3 DEF Newest
  <1> QED
    BY <1>2, <1>3

(* The head of anchor_epoch and of clear_confirmed_anchor_writer: what is  *)
(* read names a submission of the epoch that is asked for.                 *)
LEMMA AskStep ==
    ASSUME IInv, NEW p \in Procs,
           (\E e \in Epochs : AskAnchor(p, e)) \/ AskSweep(p) \/ LaneRefused(p)
    PROVE  IInv'
  <1>0. TypeOK /\ Records /\ AsksOK /\ JobOK
    BY DEF IInv
  <1>1. /\ UNCHANGED <<block, wire, foreign, inc, wrote, index, tomb, journal, fence, sent>>
        /\ UNCHANGED inlane /\ Hashes' = Hashes
    BY DEF AskAnchor, AskSweep, LaneRefused, chain, durable, Hashes
  <1>2. block' \in Blocks /\ block' >= block
    BY <1>0, <1>1, AnchorAssumption DEF TypeOK, Blocks
  <1>3. PICK a \in Ask : asks' = [asks EXCEPT ![p] = a] /\ AskOK(a)
    <2>1. CASE LaneRefused(p)
      <3>1. asks' = [asks EXCEPT ![p] = NoAsk]
        BY <2>1 DEF LaneRefused
      <3>2. NoAsk \in Ask /\ AskOK(NoAsk)
        BY DEF NoAsk, Ask, AskOK
      <3> QED
        BY <3>1, <3>2
    <2>2. CASE AskSweep(p)
      <3> DEFINE a == [kind |-> "sweep", epoch |-> 0, want |-> fence, mark |-> fence]
      <3>1. asks' = [asks EXCEPT ![p] = a] /\ fence # 0
        BY <2>2 DEF AskSweep
      <3>2. fence \in Hashes /\ fence \in Nat
        BY <1>0, <3>1, Types
      <3>3. a \in Ask /\ AskOK(a)
        BY <3>2 DEF Ask, AskOK
      <3> QED
        BY <3>1, <3>3
    <2>3. ASSUME NEW e \in Epochs, AskAnchor(p, e)
          PROVE  \E a \in Ask : asks' = [asks EXCEPT ![p] = a] /\ AskOK(a)
      <3> DEFINE mine == fence # 0 /\ journal[fence].epoch = e
                 w == IF mine THEN fence ELSE Newest(e)
                 m == IF mine THEN fence ELSE 0
                 a == [kind |-> "anchor", epoch |-> e, want |-> w, mark |-> m]
      <3>1. asks' = [asks EXCEPT ![p] = a]
        BY <2>3 DEF AskAnchor
      <3>2. w \in Nat /\ m \in {0, w} /\ (w # 0 => w \in Hashes /\ journal[w].epoch = e)
        <4>1. CASE mine
          BY <1>0, <4>1, Types
        <4>2. CASE ~mine
          BY <1>0, <4>2, NewestIs DEF IsNewest
        <4> QED
          BY <4>1, <4>2
      <3> HIDE DEF w, m
      <3>3. m \in Nat
        BY <3>2
      <3>4. a \in Ask
        BY <3>2, <3>3 DEF Ask
      <3>5. AskOK(a)
        BY <3>2 DEF AskOK
      <3> QED
        BY <3>1, <3>4, <3>5
    <2> QED
      BY <2>1, <2>2, <2>3
  <1>4. asks' \in [Procs -> Ask]
    BY <1>0, <1>3 DEF TypeOK
  <1>5. AsksOK'
    <2>1. \A q \in Procs : AskOK(asks'[q])
      BY <1>0, <1>3 DEF AsksOK, TypeOK
    <2> QED
      BY <1>1, <2>1 DEF AsksOK, AskOK
  <1> QED
    BY <1>1, <1>2, <1>4, <1>5, QuietKept

-----------------------------------------------------------------------------
(* Entering the lane.                                                      *)

(* What a holder is told when it enters.                                   *)
LEMMA JobNamed ==
    ASSUME NEW e \in Epochs \cup {0}, NEW h \in Nat
    PROVE  /\ NoJob \in Job
           /\ LET j == [NoJob EXCEPT !.epoch = e, !.sub = h]
              IN  j \in Job /\ j.epoch = e /\ j.sub = h /\ j.fresh = FALSE
           /\ LET j == [NoJob EXCEPT !.epoch = e]
              IN  j \in Job /\ j.epoch = e
  <1>1. 0 \in Blocks
    BY AnchorAssumption DEF Blocks
  <1> QED
    BY <1>1 DEF NoJob, Job

(* A fence goes only when its submission is settled.                       *)
LEMMA FenceLifted ==
    ASSUME TypeOK, Records, fence' \in {fence, 0}, fence' # fence => ~Open(fence),
           UNCHANGED <<block, wire, foreign, inc, wrote, index, tomb, journal>>
    PROVE  Records'
  <1>1. Hashes' = Hashes /\ \A h : (Dispatched(h)' <=> Dispatched(h)) /\ (Open(h)' <=> Open(h))
    BY DEF Hashes, Dispatched, Open
  <1>2. IncludedOnce' /\ OldAreAbsent' /\ HasNewest' /\ ExpiredNeverLands' /\ IndexedAnchorIsProven'
        /\ ReceiptHolds'
    BY <1>1 DEF Records, IncludedOnce, OldAreAbsent, HasNewest, IsNewest, ExpiredNeverLands,
                IndexedAnchorIsProven, ReceiptHolds
  <1>3. FenceHolds'
    BY <1>1 DEF Records, FenceHolds
  <1> QED
    BY <1>2, <1>3 DEF Records

(* anchor_epoch in the lane: it works for the epoch its fence is of.       *)
LEMMA EnterAnchorStep ==
    ASSUME IInv, NEW p \in Procs, EnterAnchor(p)
    PROVE  IInv'
  <1> DEFINE a == asks[p]
             e == a.epoch
             over == a.mark # 0 /\ journal[a.mark].outcome \in {"expired_absent", "acknowledged"}
  <1>0. TypeOK /\ Records /\ AsksOK /\ JobOK
    BY DEF IInv
  <1>1. /\ a.kind = "anchor" /\ lane = "none" /\ fence \in {0, a.want}
        /\ fence' = IF over THEN 0 ELSE fence
        /\ asks' = [asks EXCEPT ![p] = NoAsk]
        /\ UNCHANGED <<block, wire, foreign, inc, wrote, index, tomb, journal, sent>>
        /\ Hashes' = Hashes
    BY DEF EnterAnchor, LaneOpen, chain, Hashes
  <1>2. /\ e \in Epochs /\ a.mark \in {0, a.want}
        /\ a.want # 0 => a.want \in Hashes /\ journal[a.want].epoch = e
    BY <1>0, <1>1 DEF AsksOK, AskOK
  <1>3. a.want \in Nat
    BY <1>0 DEF TypeOK, Ask
  <1>4. fence' \in {fence, 0} /\ (fence' # fence => ~Open(fence)) /\ fence' \in Hashes \cup {0}
    BY <1>0, <1>1, <1>2 DEF Open, TypeOK
  <1>5. Records'
    BY <1>0, <1>1, <1>4, FenceLifted
  <1>6. asks' \in [Procs -> Ask] /\ AsksOK'
    BY <1>0, <1>1, AskDropped, AsksKept
  <1>7. /\ lane' \in Procs \cup {"foreign", "operator", "none"} /\ step' \in Steps /\ job' \in Job
        /\ (lane' = "none" <=> step' = "free") /\ JobOK'
    <2>1. CASE /\ Anchored(e) /\ a.want = index[e].txid
               /\ lane' = p /\ step' = "finish"
               /\ job' = [NoJob EXCEPT !.epoch = e, !.sub = a.want]
      <3>1. job' \in Job /\ job'.epoch = e /\ job'.sub = a.want
        BY <1>2, <1>3, <2>1, JobNamed
      <3>2. a.want \in Hashes /\ journal[a.want].epoch = e
        BY <1>2, <2>1 DEF Anchored
      <3>3. JobOK'
        BY <1>1, <2>1, <3>1, <3>2 DEF JobOK
      <3> QED
        BY <2>1, <3>1, <3>3, AnchorAssumption DEF Steps
    <2>2. CASE UNCHANGED inlane
      <3>1. lane' = "none" /\ step' = "free" /\ job' = job
        BY <1>0, <1>1, <2>2 DEF inlane, TypeOK
      <3>2. JobOK'
        BY <3>1 DEF JobOK
      <3> QED
        BY <1>0, <3>1, <3>2 DEF TypeOK, Steps
    <2>3. CASE /\ lane' = p /\ step' = "submission"
               /\ job' = [NoJob EXCEPT !.epoch = e]
      <3>1. job' \in Job /\ job'.epoch = e
        BY <1>2, <2>3, JobNamed
      <3>2. fence' # 0 => journal[fence'].epoch = e
        BY <1>1, <1>2
      <3>3. JobOK'
        BY <1>1, <1>2, <2>3, <3>1, <3>2 DEF JobOK
      <3> QED
        BY <2>3, <3>1, <3>3, AnchorAssumption DEF Steps
    <2> QED
      BY <2>1, <2>2, <2>3 DEF EnterAnchor
  <1>8. TypeOK'
    BY <1>0, <1>1, <1>4, <1>6, <1>7 DEF TypeOK
  <1> QED
    BY <1>5, <1>6, <1>7, <1>8 DEF IInv

(* clear_confirmed_anchor_writer in the lane: only a settled submission, or*)
(* one that is indexed, goes on.                                           *)
LEMMA EnterSweepStep ==
    ASSUME IInv, NEW p \in Procs, EnterSweep(p)
    PROVE  IInv'
  <1> DEFINE h == asks[p].want
             e == journal[h].epoch
             j == [NoJob EXCEPT !.epoch = e, !.sub = h]
  <1>0. TypeOK /\ Records /\ AsksOK /\ JobOK
    BY DEF IInv
  <1>1. /\ asks[p].kind = "sweep" /\ lane = "none"
        /\ asks' = [asks EXCEPT ![p] = NoAsk]
        /\ UNCHANGED <<block, wire, foreign, inc, wrote, index, tomb, journal, fence, sent>>
        /\ Hashes' = Hashes
    BY DEF EnterSweep, LaneOpen, chain, durable, Hashes
  <1>2. h \in Hashes /\ h \in Nat /\ e \in Epochs
    BY <1>0, <1>1, Types DEF AsksOK, AskOK
  <1>3. Records'
    BY <1>0, <1>1, FenceLifted
  <1>4. asks' \in [Procs -> Ask] /\ AsksOK'
    BY <1>0, <1>1, AskDropped, AsksKept
  <1>5. j \in Job /\ j.epoch = e /\ j.sub = h
    <2>1. e \in Epochs \cup {0}
      BY <1>2
    <2> HIDE DEF e, h
    <2> QED
      BY <1>2, <2>1, JobNamed
  <1>6. \/ lane' = p /\ step' = "finish" /\ job' = j
        \/ lane' = p /\ step' = "clear" /\ job' = j /\ ~Open(h)
        \/ UNCHANGED inlane
    BY DEF EnterSweep, Open
  <1> HIDE DEF j, h, e
  <1>7. /\ lane' \in Procs \cup {"foreign", "operator", "none"} /\ step' \in Steps /\ job' \in Job
        /\ (lane' = "none" <=> step' = "free") /\ JobOK'
    <2>1. CASE lane' = p /\ step' = "finish" /\ job' = j
      <3>1. JobOK'
        BY <1>1, <1>2, <1>5, <2>1 DEF JobOK, e
      <3> QED
        BY <1>5, <2>1, <3>1, AnchorAssumption DEF Steps
    <2>2. CASE lane' = p /\ step' = "clear" /\ job' = j /\ ~Open(h)
      <3>1. JobOK'
        BY <1>1, <1>2, <1>5, <2>2 DEF JobOK, e, Open
      <3> QED
        BY <1>5, <2>2, <3>1, AnchorAssumption DEF Steps
    <2>3. CASE UNCHANGED inlane
      <3>1. lane' = "none" /\ step' = "free" /\ job' = job
        BY <1>0, <1>1, <2>3 DEF inlane, TypeOK
      <3>2. JobOK'
        BY <3>1 DEF JobOK
      <3> QED
        BY <1>0, <3>1, <3>2 DEF TypeOK, Steps
    <2> QED
      BY <1>6, <2>1, <2>2, <2>3
  <1>8. TypeOK'
    BY <1>0, <1>1, <1>4, <1>7 DEF TypeOK
  <1> QED
    BY <1>3, <1>4, <1>7, <1>8 DEF IInv

-----------------------------------------------------------------------------
(* The work in the lane.                                                   *)

(* The outcome of one submission is written.                               *)
LEMMA OutcomeWritten ==
    ASSUME TypeOK, NEW h \in Hashes, NEW o \in {"confirmed", "expired_absent", "acknowledged"},
           journal' = [journal EXCEPT ![h].outcome = o]
    PROVE  /\ journal' \in Seq(Submission) /\ Hashes' = Hashes /\ Len(journal') = Len(journal)
           /\ journal'[h].outcome = o
           /\ \A g \in Hashes : /\ journal'[g].epoch = journal[g].epoch
                                /\ journal'[g].start = journal[g].start
                                /\ g # h => journal'[g] = journal[g]
  <1>1. journal \in Seq(Submission) /\ journal[h] \in Submission
    BY Types DEF TypeOK
  <1> DEFINE r == [journal[h] EXCEPT !.outcome = o]
  <1>2. r \in Submission /\ r.epoch = journal[h].epoch /\ r.start = journal[h].start /\ r.outcome = o
    BY <1>1 DEF Submission
  <1>3. journal' = [journal EXCEPT ![h] = r]
    OBVIOUS
  <1> HIDE DEF r
  <1> QED
    BY <1>1, <1>2, <1>3 DEF Hashes

(* A submission is settled: it was open, and is given up only if it cannot *)
(* land any more.                                                          *)
LEMMA Settled ==
    ASSUME TypeOK, Records, AsksOK,
           NEW h \in Hashes, NEW o \in {"confirmed", "expired_absent", "acknowledged"},
           journal[h].outcome \in {"none", o},
           o = "expired_absent" => /\ \A i \in inc : i.hash # h
                                   /\ block > journal[h].start + Era,
           journal' = [journal EXCEPT ![h].outcome = o],
           UNCHANGED <<block, wire, foreign, inc, wrote, index, tomb, fence, asks>>
    PROVE  Records' /\ AsksOK' /\ Hashes' = Hashes /\ journal' \in Seq(Submission) /\ ~Open(h)'
           /\ \A g \in Hashes : journal'[g].epoch = journal[g].epoch
  <1>1. /\ journal' \in Seq(Submission) /\ Hashes' = Hashes /\ Len(journal') = Len(journal)
        /\ journal'[h].outcome = o
        /\ \A g \in Hashes : /\ journal'[g].epoch = journal[g].epoch
                             /\ journal'[g].start = journal[g].start
                             /\ g # h => journal'[g] = journal[g]
    BY OutcomeWritten
  <1>2. /\ ~Open(h)'
        /\ \A g \in Hashes : /\ Open(g)' => Open(g)
                             /\ Dispatched(g)' <=> Dispatched(g)
    BY <1>1 DEF Open, Dispatched
  <1>3. IncludedOnce'
    BY <1>1 DEF Records, IncludedOnce
  <1>4. OldAreAbsent'
    BY <1>1 DEF Records, OldAreAbsent
  <1>5. HasNewest'
    BY <1>1 DEF Records, HasNewest, IsNewest
  <1>6. FenceHolds'
    BY <1>1, <1>2 DEF Records, FenceHolds
  <1>7. ReceiptHolds'
    BY <1>1, <1>2 DEF Records, ReceiptHolds, IncludedOnce
  <1>8. ExpiredNeverLands'
    BY <1>1, Types DEF Records, ExpiredNeverLands
  <1>9. IndexedAnchorIsProven'
    BY <1>1 DEF Records, IndexedAnchorIsProven
  <1>10. AsksOK'
    BY <1>1, AsksKept
  <1> QED
    BY <1>1, <1>2, <1>3, <1>4, <1>5, <1>6, <1>7, <1>8, <1>9, <1>10 DEF Records

(* The holder settles a submission and is left with the fence to clear.    *)
LEMMA SettlingStep ==
    ASSUME IInv, NEW h \in Hashes, NEW o \in {"confirmed", "expired_absent", "acknowledged"},
           journal[h].outcome \in {"none", o},
           o = "expired_absent" => /\ \A i \in inc : i.hash # h
                                   /\ block > journal[h].start + Era,
           journal' = [journal EXCEPT ![h].outcome = o],
           UNCHANGED <<block, wire, foreign, inc, wrote, index, tomb, fence, asks, sent>>,
           lane' \in Procs \cup {"foreign", "operator", "none"}, lane' # "none", step' = "clear",
           job' \in Job, job'.sub = h, job'.epoch = journal[h].epoch
    PROVE  IInv'
  <1>0. TypeOK /\ Records /\ AsksOK
    BY DEF IInv
  <1>1. /\ Records' /\ AsksOK' /\ Hashes' = Hashes /\ journal' \in Seq(Submission) /\ ~Open(h)'
        /\ \A g \in Hashes : journal'[g].epoch = journal[g].epoch
    BY <1>0, Settled
  <1>2. JobOK'
    BY <1>1 DEF JobOK, Open
  <1>3. TypeOK'
    BY <1>0, <1>1 DEF TypeOK, Steps
  <1> QED
    BY <1>1, <1>2, <1>3 DEF IInv

(* acknowledge_anchor_submission, by the operator.                         *)
LEMMA AcknowledgeStep ==
    ASSUME IInv, NEW h \in Hashes, Acknowledge(h)
    PROVE  IInv'
  <1>1. h \in Nat /\ journal[h].epoch \in Epochs \cup {0}
    BY Types DEF IInv
  <1>2. PICK e \in Epochs \cup {0} : e = journal[h].epoch
    BY <1>1
  <1>3. job' \in Job /\ job'.sub = h /\ job'.epoch = journal[h].epoch
    BY <1>1, <1>2, JobNamed DEF Acknowledge
  <1>4. /\ UNCHANGED <<block, wire, foreign, inc, wrote, index, tomb, fence, asks, sent>>
        /\ journal[h].outcome = "none" /\ lane' = "operator" /\ step' = "clear"
        /\ journal' = [journal EXCEPT ![h].outcome = "acknowledged"]
    BY DEF Acknowledge, chain
  <1> QED
    BY <1>3, <1>4, SettlingStep

(* finish_anchor_submission: confirmed when it is indexed, expired when it *)
(* is proven absent.                                                       *)
LEMMA FinishStep ==
    ASSUME IInv, FinishConfirmed \/ FinishExpired
    PROVE  IInv'
  <1>0. TypeOK /\ JobOK
    BY DEF IInv
  <1>1. /\ UNCHANGED <<block, wire, foreign, inc, wrote, index, tomb, fence, asks, sent, lane, job>>
        /\ step' = "clear" /\ step \in {"finish", "expire"}
    BY DEF FinishConfirmed, FinishExpired, chain
  <1>2. job.sub \in Hashes /\ journal[job.sub].epoch = job.epoch
    BY <1>0, <1>1 DEF JobOK
  <1>3. lane # "none" /\ lane \in Procs \cup {"foreign", "operator", "none"} /\ job \in Job
    BY <1>0, <1>1 DEF TypeOK
  <1>4. PICK h \in Hashes : h = job.sub
    BY <1>2
  <1>5. CASE FinishConfirmed
    <2>1. /\ journal[h].outcome \in {"none", "confirmed"}
          /\ journal' = [journal EXCEPT ![h].outcome = "confirmed"]
      BY <1>4, <1>5 DEF FinishConfirmed
    <2> QED
      BY <1>1, <1>2, <1>3, <1>4, <2>1, SettlingStep
  <1>6. CASE FinishExpired
    <2>1. /\ journal[h].outcome \in {"none", "expired_absent"}
          /\ journal' = [journal EXCEPT ![h].outcome = "expired_absent"]
          /\ step = "expire"
      BY <1>4, <1>6 DEF FinishExpired
    <2>2. (\A i \in inc : i.hash # h) /\ block > journal[h].start + Era
      BY <1>0, <1>4, <2>1 DEF JobOK
    <2> QED
      BY <1>1, <1>2, <1>3, <1>4, <2>1, <2>2, SettlingStep
  <1> QED
    BY <1>5, <1>6

(* The holder goes on, the records stay.                                   *)
LEMMA LaneStep ==
    ASSUME IInv, UNCHANGED <<block, wire, foreign, inc, wrote, index, tomb, journal, fence,
                             lane, asks, sent>>,
           step # "free", step' \in Steps \ {"free"}, job' \in Job, JobOK'
    PROVE  IInv'
  <1>0. TypeOK /\ Records /\ AsksOK
    BY DEF IInv
  <1>1. block' \in Nat /\ block' >= block
    BY <1>0, Types
  <1>2. Records'
    BY <1>0, <1>1, RecordsKept
  <1>3. AsksOK' /\ TypeOK'
    BY <1>0 DEF AsksOK, AskOK, TypeOK, Hashes
  <1> QED
    BY <1>2, <1>3 DEF IInv

(* prepare_authority_anchor: signed, nothing durable yet.                  *)
LEMMA PrepareStep ==
    ASSUME IInv, Prepare
    PROVE  IInv'
  <1>0. TypeOK /\ JobOK
    BY DEF IInv
  <1>1. /\ UNCHANGED <<block, wire, foreign, inc, wrote, index, tomb, journal, fence,
                       lane, asks, sent>>
        /\ step = "submission" /\ step' = "record" /\ job' = [job EXCEPT !.head = block]
        /\ Hashes' = Hashes
    BY DEF Prepare, chain, durable, Hashes
  <1>2. job' \in Job /\ job'.epoch = job.epoch
    BY <1>0, <1>1 DEF TypeOK, Job
  <1>3. JobOK'
    BY <1>0, <1>1, <1>2 DEF JobOK
  <1> QED
    BY <1>1, <1>2, <1>3, LaneStep DEF Steps

(* A submission that may have been dispatched is confirmed, never resent.  *)
LEMMA ResumeStep ==
    ASSUME IInv, Resume
    PROVE  IInv'
  <1>0. TypeOK /\ Records /\ JobOK
    BY DEF IInv
  <1>1. /\ UNCHANGED <<block, wire, foreign, inc, wrote, index, tomb, journal, fence,
                       lane, asks, sent>>
        /\ step = "submission" /\ step' = "fence"
        /\ job' = [job EXCEPT !.sub = Newest(job.epoch), !.fresh = FALSE]
        /\ Hashes' = Hashes /\ ~MayPrepare(job.epoch)
    BY DEF Resume, chain, durable, Hashes
  <1>2. job.epoch \in Epochs
    BY <1>0, <1>1 DEF JobOK
  <1>3. Newest(job.epoch) # 0
    BY <1>1 DEF MayPrepare
  <1>4. PICK e \in Epochs : e = job.epoch
    BY <1>2
  <1>5. /\ Newest(e) \in Nat /\ Newest(e) \in Hashes /\ journal[Newest(e)].epoch = e
    BY <1>0, <1>3, <1>4, NewestIs DEF IsNewest
  <1>6. job' \in Job /\ job'.epoch = e /\ job'.sub = Newest(e) /\ job'.fresh = FALSE
    BY <1>0, <1>1, <1>4, <1>5 DEF TypeOK, Job
  <1>7. JobOK'
    BY <1>1, <1>5, <1>6 DEF JobOK
  <1> QED
    BY <1>1, <1>6, <1>7, LaneStep DEF Steps

(* record_anchor_submission: every earlier submission of the epoch is      *)
(* proven absent, so that none that was dispatched is open.                *)
LEMMA RecordStep ==
    ASSUME IInv, NEW readable \in BOOLEAN, RecordSubmission(readable)
    PROVE  IInv'
  <1> DEFINE r == [epoch |-> job.epoch, start |-> job.head, era |-> readable, outcome |-> "none"]
  <1>0. TypeOK /\ Records /\ AsksOK /\ JobOK
    BY DEF IInv
  <1>len. PICK n \in Nat : n = Len(journal) + 1
    BY <1>0, Types
  <1>1. /\ UNCHANGED <<block, wire, foreign, inc, wrote, index, tomb, fence, lane, asks, sent>>
        /\ step = "record" /\ step' = "fence" /\ MayPrepare(job.epoch)
        /\ journal' = Append(journal, r)
        /\ job' = [job EXCEPT !.sub = n, !.fresh = TRUE]
    BY <1>len DEF RecordSubmission, chain
  <1>2. PICK e \in Epochs : e = job.epoch /\ (fence # 0 => journal[fence].epoch = e)
    BY <1>0, <1>1 DEF JobOK
  <1>3. r \in Submission /\ r.epoch = e /\ r.outcome = "none"
    BY <1>0, <1>2, Types DEF Submission
  <1>4. Len(journal) \in Nat /\ Hashes = 1 .. Len(journal) /\ n \in Nat /\ foreign \in Nat
    BY <1>0, Types
  <1> HIDE DEF r
  <1>5. /\ journal' \in Seq(Submission) /\ Len(journal') = n
        /\ Hashes' = Hashes \cup {n} /\ n \notin Hashes
        /\ journal'[n] = r /\ \A h \in Hashes : journal'[h] = journal[h]
    <2>1. /\ journal' \in Seq(Submission) /\ Len(journal') = n
          /\ journal'[n] = r /\ \A h \in 1 .. Len(journal) : journal'[h] = journal[h]
      BY <1>0, <1>len, <1>1, <1>3 DEF TypeOK
    <2>2. Hashes' = 1 .. n
      BY <2>1 DEF Hashes
    <2>3. 1 .. n = (1 .. Len(journal)) \cup {n} /\ n \notin 1 .. Len(journal)
      BY <1>len, <1>4
    <2> QED
      BY <1>4, <2>1, <2>2, <2>3
  <1>6. job' \in Job /\ job'.sub = n /\ job'.epoch = e
    BY <1>0, <1>1, <1>2, <1>4 DEF TypeOK, Job
  <1>7. \A h \in Hashes : h < n
    BY <1>len, <1>4
  <1>8. \A g \in Hashes : journal[g].epoch = e => journal[g].outcome = "expired_absent"
    <2> SUFFICES ASSUME NEW g \in Hashes, journal[g].epoch = e
                 PROVE  journal[g].outcome = "expired_absent"
      OBVIOUS
    <2>1. IsNewest(Newest(e), e)
      BY <1>0, NewestIs
    <2>2. Newest(e) # 0
      BY <1>0, <2>1, Types DEF IsNewest
    <2>3. journal[Newest(e)].outcome = "expired_absent"
      BY <1>1, <1>2, <2>2 DEF MayPrepare
    <2>4. g = Newest(e) \/ g < Newest(e)
      BY <1>0, <2>1, Types DEF IsNewest
    <2> QED
      BY <1>0, <2>1, <2>3, <2>4 DEF Records, OldAreAbsent, IsNewest
  <1>9. \A h \in Hashes : ~(Open(h) /\ Dispatched(h))
    <2> SUFFICES ASSUME NEW h \in Hashes, Open(h), Dispatched(h) PROVE FALSE
      OBVIOUS
    <2>1. fence = h /\ h # 0
      BY <1>0, Types DEF Records, FenceHolds
    <2> QED
      BY <1>2, <1>8, <2>1 DEF Open
  <1>10. ~Dispatched(n)' /\ Open(n)'
    <2>1. n \notin wire' /\ \A i \in inc' : i.hash # n
      BY <1>0, <1>1, <1>5, Types DEF Records, IncludedOnce
    <2> QED
      BY <1>3, <1>5, <2>1 DEF Dispatched, Open
  <1>11. \A h \in Hashes : (Open(h)' <=> Open(h)) /\ (Dispatched(h)' <=> Dispatched(h))
    BY <1>1, <1>5 DEF Open, Dispatched
  <1>12. IncludedOnce'
    BY <1>0, <1>1, <1>5 DEF Records, IncludedOnce
  <1>13. OldAreAbsent'
    <2> SUFFICES ASSUME NEW g \in Hashes', NEW h \in Hashes', g < h,
                        journal'[g].epoch = journal'[h].epoch
                 PROVE  journal'[g].outcome = "expired_absent"
      BY DEF OldAreAbsent
    <2>1. g # n
      BY <1>4, <1>5, <1>7
    <2>2. CASE h = n
      BY <1>3, <1>5, <1>8, <2>1, <2>2
    <2>3. CASE h # n
      BY <1>0, <1>5, <2>1, <2>3 DEF Records, OldAreAbsent
    <2> QED
      BY <2>2, <2>3
  <1>14. HasNewest'
    <2> SUFFICES ASSUME NEW d \in Epochs, NEW h \in Hashes', journal'[h].epoch = d
                 PROVE  \E k \in Hashes' : IsNewest(k, d)'
      BY DEF HasNewest
    <2>1. CASE d = e
      <3>1. \A g \in Hashes' : g <= n
        BY <1>4, <1>5, <1>7
      <3>2. IsNewest(n, d)'
        BY <1>3, <1>5, <2>1, <3>1 DEF IsNewest
      <3> QED
        BY <1>5, <3>2
    <2>2. CASE d # e
      <3>1. h \in Hashes /\ journal[h].epoch = d
        BY <1>3, <1>5, <2>2
      <3>2. PICK k \in Hashes : IsNewest(k, d)
        BY <1>0, <3>1 DEF Records, HasNewest
      <3>3. IsNewest(k, d)'
        BY <1>3, <1>5, <2>2, <3>2 DEF IsNewest
      <3> QED
        BY <1>5, <3>3
    <2> QED
      BY <2>1, <2>2
  <1>15. FenceHolds'
    <2>1. foreign <= n /\ foreign' <= Len(journal') + 1
      BY <1>0, <1>len, <1>1, <1>4, <1>5 DEF Records, FenceHolds
    <2>2. \A h \in Hashes' : ~(Open(h)' /\ Dispatched(h)')
      <3> SUFFICES ASSUME NEW h \in Hashes', Open(h)', Dispatched(h)' PROVE FALSE
        OBVIOUS
      <3>1. CASE h = n
        BY <1>10, <3>1
      <3>2. CASE h # n
        BY <1>5, <1>9, <1>11, <3>2
      <3> QED
        BY <3>1, <3>2
    <2> QED
      BY <2>1, <2>2 DEF FenceHolds
  <1>16. ReceiptHolds'
    <2>1. \A i \in inc : i.hash \in Hashes /\ ~Open(i.hash)
      BY <1>0, <1>9 DEF Records, IncludedOnce, Dispatched
    <2> QED
      BY <1>1, <1>11, <2>1 DEF ReceiptHolds
  <1>17. ExpiredNeverLands'
    BY <1>0, <1>1, <1>3, <1>5 DEF Records, ExpiredNeverLands
  <1>18. IndexedAnchorIsProven'
    BY <1>0, <1>1, <1>5 DEF Records, IndexedAnchorIsProven
  <1>19. AsksOK'
    BY <1>0, <1>1, <1>5, AsksKept
  <1>20. JobOK'
    <2>1. Unsent(n)'
      BY <1>0, <1>len, <1>1, <1>4, <1>5, <1>10 DEF Unsent, Records, FenceHolds
    <2> QED
      BY <1>1, <1>3, <1>5, <1>6, <2>1 DEF JobOK
  <1>21. TypeOK'
    BY <1>0, <1>1, <1>5, <1>6 DEF TypeOK, Steps
  <1> QED
    BY <1>12, <1>13, <1>14, <1>15, <1>16, <1>17, <1>18, <1>19, <1>20, <1>21 DEF IInv, Records

(* mark_anchor_writer_pending: the fence is free or the submission's own.  *)
LEMMA MarkStep ==
    ASSUME IInv, MarkFence
    PROVE  IInv'
  <1>0. TypeOK /\ Records /\ AsksOK /\ JobOK
    BY DEF IInv
  <1>1. /\ UNCHANGED <<block, wire, foreign, inc, wrote, index, tomb, journal, lane, job,
                       asks, sent>>
        /\ step = "fence" /\ fence \in {0, job.sub} /\ fence' = job.sub
        /\ step' = IF job.fresh THEN "send" ELSE "confirm"
        /\ Hashes' = Hashes
    BY DEF MarkFence, chain, Hashes
  <1>2. job.sub \in Hashes /\ journal[job.sub].epoch = job.epoch
    BY <1>0, <1>1 DEF JobOK
  <1>3. \A h : (Dispatched(h)' <=> Dispatched(h)) /\ (Open(h)' <=> Open(h))
               /\ (Unsent(h)' <=> Unsent(h))
    BY <1>1 DEF Dispatched, Open, Unsent
  <1>4. IncludedOnce' /\ OldAreAbsent' /\ HasNewest' /\ ReceiptHolds' /\ ExpiredNeverLands'
        /\ IndexedAnchorIsProven'
    BY <1>0, <1>1, <1>3
       DEF Records, IncludedOnce, OldAreAbsent, HasNewest, IsNewest, ReceiptHolds,
           ExpiredNeverLands, IndexedAnchorIsProven
  <1>5. FenceHolds'
    <2>1. \A h \in Hashes : h # 0
      BY <1>0, Types
    <2> QED
      BY <1>0, <1>1, <1>3, <2>1 DEF Records, FenceHolds
  <1>6. AsksOK'
    BY <1>0, <1>1 DEF AsksOK, AskOK
  <1>7. JobOK'
    <2>1. CASE job.fresh
      <3>1. Unsent(job.sub)
        BY <1>0, <1>1, <2>1 DEF JobOK
      <3>2. Unsent(job.sub)'
        BY <1>1, <3>1 DEF Unsent, Dispatched, Open
      <3> QED
        BY <1>1, <1>2, <2>1, <3>2 DEF JobOK
    <2>2. CASE ~job.fresh
      BY <1>1, <1>2, <2>2 DEF JobOK
    <2> QED
      BY <2>1, <2>2
  <1>8. TypeOK'
    <2>1. lane # "none" /\ step' \in Steps /\ step' # "free"
      BY <1>0, <1>1 DEF TypeOK, Steps
    <2> QED
      BY <1>0, <1>1, <1>2, <2>1 DEF TypeOK
  <1> QED
    BY <1>4, <1>5, <1>6, <1>7, <1>8 DEF IInv, Records

(* submit_authority_anchor: the one dispatch of a submission, fenced.      *)
LEMMA SendStep ==
    ASSUME IInv, Send
    PROVE  IInv'
  <1>0. TypeOK /\ Records /\ AsksOK /\ JobOK
    BY DEF IInv
  <1>1. /\ UNCHANGED <<block, foreign, inc, wrote, index, tomb, journal, fence, asks, sent>>
        /\ step = "send" /\ wire' \in {wire, wire \cup {job.sub}}
        /\ (step' = "confirm" /\ UNCHANGED <<lane, job>>) \/ Release
        /\ Hashes' = Hashes
    BY DEF Send, durable, Hashes
  <1>2. PICK s \in Hashes : s = job.sub
    BY <1>0, <1>1 DEF JobOK
  <1>3. /\ journal[s].epoch = job.epoch /\ Unsent(s) /\ fence = s
        /\ s = Len(journal) /\ Open(s) /\ ~Dispatched(s) /\ foreign <= s
    BY <1>0, <1>1, <1>2 DEF JobOK, Unsent
  <1>4. \A h : (Dispatched(h)' => Dispatched(h) \/ h = s) /\ (Open(h)' <=> Open(h))
    BY <1>1, <1>2 DEF Dispatched, Open
  <1>5. IncludedOnce'
    BY <1>0, <1>1, <1>2, <1>3 DEF Records, IncludedOnce, Dispatched
  <1>6. OldAreAbsent' /\ HasNewest' /\ IndexedAnchorIsProven'
    BY <1>0, <1>1 DEF Records, OldAreAbsent, HasNewest, IsNewest, IndexedAnchorIsProven
  <1>7. FenceHolds'
    BY <1>0, <1>1, <1>3, <1>4 DEF Records, FenceHolds
  <1>8. ReceiptHolds'
    <2>1. \A i \in inc : ~Open(i.hash)
      BY <1>0, <1>3 DEF Records, IncludedOnce, FenceHolds, Dispatched
    <2> QED
      BY <1>1, <1>4, <2>1 DEF ReceiptHolds
  <1>9. ExpiredNeverLands'
    BY <1>0, <1>1, <1>2, <1>3 DEF Records, ExpiredNeverLands, Open
  <1>10. AsksOK'
    BY <1>0, <1>1 DEF AsksOK, AskOK
  <1>11. /\ lane' \in Procs \cup {"foreign", "operator", "none"} /\ step' \in Steps /\ job' \in Job
         /\ (lane' = "none" <=> step' = "free") /\ JobOK'
    <2>1. CASE Release
      BY <2>1, Released
    <2>2. CASE step' = "confirm" /\ UNCHANGED <<lane, job>>
      <3>1. JobOK'
        BY <1>1, <1>2, <1>3, <2>2 DEF JobOK
      <3> QED
        BY <1>0, <1>1, <2>2, <3>1 DEF TypeOK, Steps
    <2> QED
      BY <1>1, <2>1, <2>2
  <1>12. TypeOK'
    <2>1. wire' \subseteq Hashes
      BY <1>0, <1>1, <1>2 DEF TypeOK
    <2> QED
      BY <1>0, <1>1, <1>11, <2>1 DEF TypeOK
  <1> QED
    BY <1>5, <1>6, <1>7, <1>8, <1>9, <1>10, <1>11, <1>12 DEF IInv, Records

(* confirm_authority_anchor: found in a finalized block, or absent from    *)
(* every block its era could reach.                                        *)
LEMMA ConfirmStep ==
    ASSUME IInv, ConfirmIncluded \/ ConfirmExpired
    PROVE  IInv'
  <1>0. TypeOK /\ Records /\ JobOK
    BY DEF IInv
  <1>1. /\ UNCHANGED <<block, wire, foreign, inc, wrote, index, tomb, journal, fence,
                       lane, asks, sent>>
        /\ step = "confirm" /\ Hashes' = Hashes
    BY DEF ConfirmIncluded, ConfirmExpired, chain, durable, Hashes
  <1>2. job.sub \in Hashes /\ journal[job.sub].epoch = job.epoch
    BY <1>0, <1>1 DEF JobOK
  <1>3. CASE ConfirmIncluded
    <2>1. PICK f \in FinalizedHeads, i \in inc :
             i.hash = job.sub /\ i.at <= f /\ i.ok /\ job' = [job EXCEPT !.at = i.at]
      BY <1>3 DEF ConfirmIncluded
    <2>2. i \in Inclusion /\ i.at \in Blocks /\ i.at \in Nat /\ block \in Nat
      BY <1>0, Types
    <2>3. f \in Nat /\ f < block
      BY AnchorAssumption DEF FinalizedHeads, Blocks
    <2>4. i = [hash |-> job.sub, at |-> i.at, ok |-> TRUE]
      BY <2>1, <2>2 DEF Inclusion
    <2>5. job' \in Job /\ job'.sub = job.sub /\ job'.epoch = job.epoch /\ job'.at = i.at
      BY <1>0, <2>1, <2>2 DEF TypeOK, Job
    <2>6. i.at < block
      BY <2>1, <2>2, <2>3
    <2>7. step' = "index"
      BY <1>3 DEF ConfirmIncluded
    <2>8. JobOK'
      BY <1>1, <1>2, <2>4, <2>5, <2>6, <2>7 DEF JobOK
    <2> QED
      BY <1>1, <2>5, <2>7, <2>8, LaneStep DEF Steps
  <1>4. CASE ConfirmExpired
    <2>1. /\ step' = "expire" /\ job' = job
          /\ \E f \in FinalizedHeads : f > journal[job.sub].start + Era + K
          /\ \A i \in inc : i.hash = job.sub => i.at > journal[job.sub].start + Era + K
      BY <1>4 DEF ConfirmExpired
    <2>2. /\ journal[job.sub].start \in Nat /\ Era \in Nat /\ K \in Nat /\ block \in Nat
          /\ \A i \in inc : i.at \in Nat
      BY <1>0, <1>2, Types
    <2>3. \A f \in FinalizedHeads : f \in Nat /\ f < block
      BY AnchorAssumption DEF FinalizedHeads, Blocks
    <2>4. block > journal[job.sub].start + Era
      BY <2>1, <2>2, <2>3
    <2>5. \A i \in inc : i.hash # job.sub
      <3> SUFFICES ASSUME NEW i \in inc, i.hash = job.sub PROVE FALSE
        OBVIOUS
      <3>1. i.at <= journal[job.sub].start + Era
        BY <1>0 DEF Records, IncludedOnce
      <3> QED
        BY <2>1, <2>2, <3>1
    <2>6. JobOK'
      BY <1>1, <1>2, <2>1, <2>4, <2>5 DEF JobOK
    <2> QED
      BY <1>0, <1>1, <2>1, <2>6, LaneStep DEF Steps, TypeOK
  <1> QED
    BY <1>3, <1>4

(* set_anchor: what was confirmed is indexed, once.                        *)
LEMMA SetAnchorStep ==
    ASSUME IInv, SetAnchor
    PROVE  IInv'
  <1> DEFINE r == IF index[job.epoch].txid = 0
                  THEN [index[job.epoch] EXCEPT !.txid = job.sub, !.at = job.at]
                  ELSE index[job.epoch]
  <1>0. TypeOK /\ Records /\ AsksOK /\ JobOK
    BY DEF IInv
  <1>1. /\ UNCHANGED <<block, wire, foreign, inc, wrote, tomb, journal, fence, lane, job,
                       asks, sent>>
        /\ step = "index" /\ step' = "finish" /\ Hashes' = Hashes /\ job.epoch \notin tomb
        /\ index' = [index EXCEPT ![job.epoch] = r]
    BY DEF SetAnchor, chain, Hashes, Served
  <1>2. /\ job.sub \in Hashes /\ journal[job.sub].epoch = job.epoch
        /\ [hash |-> job.sub, at |-> job.at, ok |-> TRUE] \in inc /\ job.at < block
    BY <1>0, <1>1 DEF JobOK
  <1>3. PICK e \in Epochs : e = job.epoch
    BY <1>0, <1>2, Types
  <1>4. /\ index[e] \in IndexRow /\ job.sub \in Nat /\ job.at \in Blocks
    BY <1>0, Types
  <1>5. /\ r \in IndexRow
        /\ index[e].txid = 0 => r.txid = job.sub /\ r.at = job.at
        /\ index[e].txid # 0 => r = index[e]
    BY <1>3, <1>4 DEF IndexRow
  <1> HIDE DEF r
  <1>6. /\ index' \in [Epochs -> IndexRow] /\ index'[e] = r
        /\ \A d \in Epochs : d # e => index'[d] = index[d]
    BY <1>0, <1>1, <1>3, <1>5 DEF TypeOK
  <1>7. \A h : (Dispatched(h)' <=> Dispatched(h)) /\ (Open(h)' <=> Open(h))
    BY <1>1 DEF Dispatched, Open
  <1>8. IncludedOnce' /\ OldAreAbsent' /\ HasNewest' /\ FenceHolds' /\ ReceiptHolds'
        /\ ExpiredNeverLands'
    BY <1>0, <1>1, <1>7
       DEF Records, IncludedOnce, OldAreAbsent, HasNewest, IsNewest, FenceHolds, ReceiptHolds,
           ExpiredNeverLands
  <1>9. IndexedAnchorIsProven'
    <2> SUFFICES ASSUME NEW d \in Epochs, index'[d].txid # 0
                 PROVE  /\ index'[d].txid \in Hashes /\ journal[index'[d].txid].epoch = d
                        /\ [hash |-> index'[d].txid, at |-> index'[d].at, ok |-> TRUE] \in inc
                        /\ index'[d].at < block
                        /\ d \notin tomb
      BY <1>1 DEF IndexedAnchorIsProven
    <2>1. CASE d = e /\ index[e].txid = 0
      BY <1>1, <1>2, <1>3, <1>5, <1>6, <2>1
    <2>2. CASE index'[d] = index[d]
      BY <1>0, <2>2 DEF Records, IndexedAnchorIsProven
    <2> QED
      BY <1>5, <1>6, <2>1, <2>2
  <1>10. AsksOK'
    BY <1>0, <1>1 DEF AsksOK, AskOK
  <1>11. JobOK'
    BY <1>1, <1>2 DEF JobOK
  <1>12. TypeOK'
    BY <1>0, <1>1, <1>6 DEF TypeOK, Steps
  <1> QED
    BY <1>8, <1>9, <1>10, <1>11, <1>12 DEF IInv, Records

(* clear_anchor_writer_pending, of a settled submission.                   *)
LEMMA ClearStep ==
    ASSUME IInv, ClearFence
    PROVE  IInv'
  <1>0. TypeOK /\ Records /\ AsksOK /\ JobOK
    BY DEF IInv
  <1>1. /\ UNCHANGED <<block, wire, foreign, inc, wrote, index, tomb, journal, asks, sent>>
        /\ step = "clear" /\ fence \in {0, job.sub} /\ fence' = 0 /\ Release /\ Hashes' = Hashes
    BY DEF ClearFence, chain, Hashes
  <1>2. ~Open(job.sub)
    BY <1>0, <1>1 DEF JobOK
  <1>3. Records'
    BY <1>0, <1>1, <1>2, FenceLifted
  <1>4. AsksOK'
    BY <1>0, <1>1 DEF AsksOK, AskOK
  <1>5. TypeOK' /\ JobOK'
    BY <1>0, <1>1, Released DEF TypeOK
  <1> QED
    BY <1>3, <1>4, <1>5 DEF IInv

(* A hold, an error, a death: the lane is left, the records stay.          *)
LEMMA LeaveStep ==
    ASSUME IInv, Raises \/ ForeignLeaves
    PROVE  IInv'
  <1>1. /\ UNCHANGED <<block, wire, foreign, inc, wrote, index, tomb, journal, fence, asks, sent>>
        /\ Release
    BY DEF Raises, ForeignLeaves, chain, durable
  <1>2. block' \in Blocks /\ block' >= block /\ asks' \in [Procs -> Ask]
    BY <1>1, AnchorAssumption DEF IInv, TypeOK, Blocks
  <1>3. AsksOK'
    BY <1>1 DEF IInv, AsksOK, AskOK, Hashes
  <1> QED
    BY <1>1, <1>2, <1>3, QuietKept

(* Another writer sends only while there is no fence.                      *)
LEMMA ForeignStep ==
    ASSUME IInv, ForeignSends
    PROVE  IInv'
  <1>0. TypeOK /\ Records /\ AsksOK
    BY DEF IInv
  <1>1. /\ UNCHANGED <<block, wire, inc, wrote, index, tomb, journal, fence, asks>>
        /\ fence = 0 /\ foreign' = Len(journal) + 1 /\ sent' = sent + 1
        /\ lane' = "foreign" /\ step' = "foreign" /\ job' = NoJob /\ Hashes' = Hashes
    BY DEF ForeignSends, LaneOpen, durable, Hashes
  <1>2. Len(journal) \in Nat /\ \A h \in Hashes : h # 0
    BY <1>0, Types
  <1>3. \A h \in Hashes : ~(Open(h) /\ Dispatched(h))
    BY <1>0, <1>1, <1>2 DEF Records, FenceHolds
  <1>4. \A h : (Dispatched(h)' <=> Dispatched(h)) /\ (Open(h)' <=> Open(h))
    BY <1>1 DEF Dispatched, Open
  <1>5. IncludedOnce' /\ OldAreAbsent' /\ HasNewest' /\ ExpiredNeverLands' /\ IndexedAnchorIsProven'
    BY <1>0, <1>1
       DEF Records, IncludedOnce, OldAreAbsent, HasNewest, IsNewest, ExpiredNeverLands,
           IndexedAnchorIsProven
  <1>6. FenceHolds'
    <2>1. foreign' <= Len(journal') + 1
      BY <1>1, <1>2
    <2> QED
      BY <1>1, <1>3, <1>4, <2>1 DEF FenceHolds
  <1>7. ReceiptHolds'
    <2>1. \A i \in inc : ~Open(i.hash)
      BY <1>0, <1>3 DEF Records, IncludedOnce, Dispatched
    <2> QED
      BY <1>1, <1>4, <2>1 DEF ReceiptHolds
  <1>8. AsksOK' /\ JobOK'
    BY <1>0, <1>1 DEF AsksOK, AskOK, JobOK
  <1>9. TypeOK'
    <2>1. foreign' \in Nat /\ sent' \in Nat
      BY <1>0, <1>1, <1>2 DEF TypeOK
    <2>2. NoJob \in Job
      BY AnchorAssumption DEF NoJob, Job, Blocks
    <2> QED
      BY <1>0, <1>1, <2>1, <2>2 DEF TypeOK, Steps
  <1> QED
    BY <1>5, <1>6, <1>7, <1>8, <1>9 DEF IInv, Records

-----------------------------------------------------------------------------
(* The invariant and what follows from it.                                 *)

LEMMA StepInv == IInv /\ [Next]_vars => IInv'
  <1> SUFFICES ASSUME IInv, [Next]_vars PROVE IInv'
    OBVIOUS
  <1>1. CASE Chain
    BY <1>1, TickStep, IncludeStep, DeadStep DEF Chain
  <1>2. CASE \E e \in Epochs : RecordFinalized(e) \/ MarkGapTombstone(e)
    BY <1>2, IndexStep
  <1>3. CASE \E p \in Procs, e \in Epochs : AskAnchor(p, e)
    BY <1>3, AskStep
  <1>4. CASE \E p \in Procs : AskSweep(p) \/ LaneRefused(p) \/ EnterAnchor(p) \/ EnterSweep(p)
    BY <1>4, AskStep, EnterAnchorStep, EnterSweepStep
  <1>5. CASE \E h \in Hashes : Acknowledge(h)
    BY <1>5, AcknowledgeStep
  <1>6. CASE InLane
    BY <1>6, PrepareStep, ResumeStep, RecordStep, MarkStep, SendStep, ConfirmStep,
       SetAnchorStep, FinishStep, ClearStep, LeaveStep DEF InLane, Work
  <1>7. CASE ForeignSends \/ ForeignLeaves
    BY <1>7, ForeignStep, LeaveStep
  <1>8. CASE UNCHANGED vars
    <2>1. /\ UNCHANGED <<block, wire, foreign, inc, wrote, index, tomb, journal, fence, asks, sent>>
          /\ UNCHANGED inlane
      BY <1>8 DEF vars, chain, durable
    <2>2. block' \in Blocks /\ block' >= block /\ asks' \in [Procs -> Ask]
      BY <2>1, AnchorAssumption DEF IInv, TypeOK, Blocks
    <2>3. AsksOK'
      BY <2>1 DEF IInv, AsksOK, AskOK, Hashes
    <2> QED
      BY <2>1, <2>2, <2>3, QuietKept
  <1> QED
    BY <1>1, <1>2, <1>3, <1>4, <1>5, <1>6, <1>7, <1>8 DEF Next

LEMMA Invariance == Spec => []IInv
  BY InitInv, StepInv, PTL DEF Spec

(* Every variable stays in its domain, the fence names a journalled        *)
(* submission and only a holder of the lane has a step to take.            *)
THEOREM AnchorTypeCorrect == Spec => []TypeOK
  <1>1. IInv => TypeOK
    BY DEF IInv
  <1> QED
    BY <1>1, Invariance, PTL

(* Until it is settled a dispatched anchor is fenced and its receipt is    *)
(* still in the archive, whoever raced, died or timed out                  *)
(* (mark_anchor_writer_pending, _anchor_with_durable_submission).          *)
THEOREM FencedUntilSettledCorrect == Spec => []FencedUntilSettled
  <1>1. IInv => FencedUntilSettled
    <2> SUFFICES ASSUME IInv PROVE FencedUntilSettled
      OBVIOUS
    <2>1. UnresolvedIsFenced
      BY DEF IInv, Records, FenceHolds, UnresolvedIsFenced, Open, Dispatched
    <2>2. ReceiptSurvives
      BY DEF IInv, Records, ReceiptHolds, ReceiptSurvives, Open
    <2> QED
      BY <2>1, <2>2 DEF FencedUntilSettled
  <1> QED
    BY <1>1, Invariance, PTL

(* The digest of an epoch is on chain once at most, and a submission that  *)
(* was given up as absent never lands (record_anchor_submission,           *)
(* AuthorityAnchorExpiredAbsent).                                          *)
THEOREM LandsAtMostOnceCorrect == Spec => []LandsAtMostOnce
  <1>1. IInv => LandsAtMostOnce
    <2> SUFFICES ASSUME IInv PROVE LandsAtMostOnce
      OBVIOUS
    <2>1. AnchoredAtMostOnce
      <3> SUFFICES ASSUME NEW i \in inc, NEW j \in inc,
                          journal[i.hash].epoch = journal[j.hash].epoch
                   PROVE  i = j
        BY DEF AnchoredAtMostOnce
      <3>1. i.hash \in Hashes /\ j.hash \in Hashes
        BY DEF IInv, Records, IncludedOnce
      <3>2. /\ journal[i.hash].outcome # "expired_absent"
            /\ journal[j.hash].outcome # "expired_absent"
        BY <3>1 DEF IInv, Records, ExpiredNeverLands
      <3>3. ~(i.hash < j.hash) /\ ~(j.hash < i.hash)
        BY <3>1, <3>2 DEF IInv, Records, OldAreAbsent
      <3>4. i.hash = j.hash
        BY <3>1, <3>3, Types DEF IInv
      <3> QED
        BY <3>4 DEF IInv, Records, IncludedOnce
    <2> QED
      BY <2>1 DEF IInv, Records, LandsAtMostOnce
  <1> QED
    BY <1>1, Invariance, PTL

(* An index entry with an anchor is backed by a finalized inclusion of     *)
(* that hash, for that epoch, at that block (set_anchor).                  *)
THEOREM IndexedAnchorIsProvenCorrect == Spec => []IndexedAnchorIsProven
  <1>1. IInv => IndexedAnchorIsProven
    BY DEF IInv, Records
  <1> QED
    BY <1>1, Invariance, PTL
=============================================================================
