-------------------------------- MODULE EpochLog --------------------------------
(***************************************************************************)
(* The epoch log of vidaio/epoch/log.py: how its rows are folded and       *)
(* weighed (vidaio/tokenomics), and the invariants its decoder enforces on *)
(* the bytes before anything else reads them.                              *)
(*                                                                         *)
(* A log l is a record: census and miners (uid to identity, and to         *)
(* economic row), refs and avail (the committed packets, and the signed    *)
(* observations of a miner that did not answer), earn (carry-in and        *)
(* cycles), cursors, shares, burn, the competition's input and result, the *)
(* reward window, the content rounds and the round commits with their      *)
(* cursor.  A digest is the object it names, so a packet is its own        *)
(* digest.  The EWMA is in integer units with decay 3/4.                   *)
(***************************************************************************)
EXTENDS BundleVerify

CONSTANTS
    Protocol,  \* the keys of tokenomics.track_weights
    Owner,     \* the canonical burn uid
    Excluded,  \* the exclusion sentinel, -1
    Crown      \* what an open reward window adds to its holder's share

-----------------------------------------------------------------------------
(* The EWMA and the weight vector, as the authority and the auditor both   *)
(* compute them.                                                           *)

is_excluded(s) == s = Excluded

accumulate(old, score) ==
    IF is_excluded(score) THEN Excluded
    ELSE (3 * (IF is_excluded(old) THEN 0 ELSE old) + score) \div 4

Payable(acc) == ~is_excluded(acc) /\ acc > 0

(* The lowest uid keeps an identity slot, a later one that meets a kept    *)
(* one loses; meet are the pairs that share a slot.                        *)
Losers(cands, meet) ==
    LET keeps[u \in cands] == \A v \in cands : (v < u /\ keeps[v]) => <<u, v>> \notin meet
    IN  {u \in cands : ~keeps[u]}

dedup_losers(ms) ==
    LET payable == {u \in DOMAIN ms : Payable(ms[u].acc)}
    IN  Losers(payable, {<<u, v>> \in payable \X payable :
                           ms[v].ip = ms[u].ip \/ ms[v].ck = ms[u].ck})

(* build_weight_vector: an eligible miner earns by its accumulator, the    *)
(* holder of an open window by the window, the burn uid when nobody does.  *)
build_weight_vector(ms, burn, window) ==
    LET eligible == {u \in DOMAIN ms : /\ ~ms[u].excl /\ Payable(ms[u].acc)
                                       /\ ms[u].track \in Protocol} \ dedup_losers(ms)
        earned(u) == (IF u \in eligible THEN ms[u].acc ELSE 0)
                     + (IF ms[u].hk = window THEN Crown ELSE 0)
        paid == {u \in DOMAIN ms : earned(u) > 0}
    IN  IF paid # {} THEN [u \in paid |-> earned(u)]
        ELSE IF burn = None THEN << >> ELSE [u \in {burn} |-> Crown]

-----------------------------------------------------------------------------
(* A competition c: the packets of its subjects, contenders under their    *)
(* uid and the baseline under None, each on the committed items; the       *)
(* contenders excluded as duplicates; the archive of the winner.           *)

Contenders(c) == {p.uid : p \in c.items} \ {None}

PacketsOf(c, u) == {p \in c.items : p.uid = u}

(* competition_dedup_losers: as for inference, and by the whole output     *)
(* matrix too.                                                             *)
competition_dedup_losers(c, census) ==
    LET Outputs(u) == {p.out : p \in PacketsOf(c, u)}
    IN  Losers(Contenders(c), {<<u, v>> \in Contenders(c) \X Contenders(c) :
                                 \/ census[u].ip = census[v].ip \/ census[u].ck = census[v].ck
                                 \/ Outputs(u) = Outputs(v)})

(* aggregate_subject_scores: the matrices are of one size, so the sum      *)
(* stands for the mean.                                                    *)
Aggregate(c, u) == FoldSet(LAMBDA p, s : s + p.score, 0, PacketsOf(c, u))

derive_competition_economics(c) ==
    [contenders |-> [u \in Contenders(c) \ c.excl |-> Aggregate(c, u)], base |-> Aggregate(c, None)]

(* The best contenders above the baseline.                                 *)
winners(result) ==
    LET cs == result.contenders
    IN  {u \in DOMAIN cs : cs[u] > result.base /\ \A v \in DOMAIN cs : cs[v] <= cs[u]}

(* resolve_reward_window: the winner opens its window; without one the     *)
(* predecessor's goes on.                                                  *)
resolve_reward_window(prior, result, census) ==
    IF result = None \/ winners(result) = {} THEN prior ELSE census[Min(winners(result))].hk

-----------------------------------------------------------------------------
(* What a log states about a uid.                                          *)

MediaOf(l, u) == {p \in l.refs : p.uid = u}
AvailabilityOf(l, u) == {p \in l.avail : p.uid = u}
InferenceOf(l, u) == MediaOf(l, u) \cup AvailabilityOf(l, u)

ContendersOf(l) == IF l.comp = None THEN {} ELSE Contenders(l.comp)

CycleKeys(l, u) == {l.earn[u].cycles[i].key : i \in DOMAIN l.earn[u].cycles}
Folding(l) == {u \in DOMAIN l.earn : l.earn[u].cycles # << >>}

(* folded_scores: in the committed order, which the decoder has found      *)
(* ascending.                                                              *)
folded_scores(cycles) == [i \in DOMAIN cycles |-> cycles[i].score]

SameIdentity(a, b) == a.hk = b.hk /\ a.ck = b.ck /\ a.ip = b.ip

-----------------------------------------------------------------------------
(* The validators of the model, each a part of WellFormed.                 *)

RefsNameTracks(l) == \A p \in l.refs : p.ref # None /\ p.ref \in Protocol

KeysAscend(l) ==
    \A u \in DOMAIN l.earn :
        LET cs == l.earn[u].cycles
        IN  \A i \in 1..(Len(cs) - 1) : cs[i].key < cs[i + 1].key

(* Every observation backs exactly one cycle of its uid, as a zero.        *)
AvailabilityBacks(l) ==
    /\ \A p, q \in l.avail : p.uid = q.uid /\ (p.key = q.key \/ p.ch = q.ch) => p = q
    /\ l.avail \cap l.refs = {}
    /\ \A p \in l.avail :
          LET hits == {<<u, i>> \in UNION {{u} \X DOMAIN l.earn[u].cycles : u \in DOMAIN l.earn} :
                          l.earn[u].cycles[i].pkt = p}
          IN  /\ p.track \in Protocol /\ Cardinality(hits) = 1
              /\ \A h \in hits : /\ h[1] = p.uid
                                 /\ l.earn[h[1]].cycles[h[2]].key = p.key
                                 /\ l.earn[h[1]].cycles[h[2]].score = 0

(* One entry per challenge and dispatch key, one commit block per round,   *)
(* and a cursor that covers them.                                          *)
RoundCommitIndex(l) ==
    /\ \A r, s \in l.rounds : (r.ch = s.ch \/ r.key = s.key) => r = s
    /\ \A r, s \in l.rounds : r.round = s.round => r.commit = s.commit
    /\ l.rounds # {} => /\ l.roundCursor # None
                        /\ \A r \in l.rounds : r.key <= l.roundCursor

(* Every subject covers the committed items on the competition's track,    *)
(* each by one packet of its own; contenders and one baseline.             *)
CompetitionComplete(l) ==
    l.comp # None =>
        LET items == {p.ch : p \in l.comp.items}
        IN  /\ Contenders(l.comp) # {} /\ \E p \in l.comp.items : p.uid = None
            /\ \A u \in Contenders(l.comp) \cup {None} :
                  /\ {p.ch : p \in PacketsOf(l.comp, u)} = items
                  /\ Cardinality(PacketsOf(l.comp, u)) = Cardinality(items)
            /\ \A p \in l.comp.items : p.ctx # None => p.ref = p.ctx.track

(* A result comes with its evidence, for the contenders that were not      *)
(* excluded, under the identities of the census.                           *)
ResultBacked(l) ==
    /\ (l.result = None) = (l.comp = None)
    /\ l.comp # None =>
          /\ DOMAIN l.result.contenders = Contenders(l.comp) \ l.comp.excl
          /\ DOMAIN l.result.contenders \subseteq DOMAIN l.census

(* Every economic row is a row of the census, on a protocol track.         *)
RowsInCensus(l) ==
    \A u \in DOMAIN l.miners :
        /\ u \in DOMAIN l.census /\ SameIdentity(l.census[u], l.miners[u])
        /\ l.miners[u].track \in Protocol

CursorsCover(l) ==
    /\ DOMAIN l.census \subseteq DOMAIN l.cursors
    /\ \A u \in Folding(l) : /\ u \in DOMAIN l.cursors /\ l.cursors[u] # None
                             /\ l.cursors[u] >= Max(CycleKeys(l, u))

(* The burn uid takes something, and is nobody's seat.                     *)
BurnReserved(l) ==
    l.burn # None => /\ l.burn \in DOMAIN l.shares
                     /\ l.burn \notin DOMAIN l.miners \cup DOMAIN l.earn \cup ContendersOf(l)
                     /\ MediaOf(l, l.burn) = {}

AccOf(l, u) == IF u \in DOMAIN l.miners THEN l.miners[u].acc ELSE 0

(* Who is paid is backed: by a competition, by evidence of this epoch, or  *)
(* by an accumulator it carried in.                                        *)
WeightBacked(l) ==
    \A u \in DOMAIN l.shares \ {l.burn} :
        \/ /\ AccOf(l, u) <= 0
           /\ u \in ContendersOf(l) \/ (u \in DOMAIN l.miners /\ l.miners[u].hk = l.window)
        \/ InferenceOf(l, u) # {}
        \/ u \notin DOMAIN l.earn /\ AccOf(l, u) > 0

(* The shares allocate the whole emission.                                 *)
Allocated(l) == l.shares # << >>

(* The bytes are those of the accepted schema, with its fields.            *)
Decodes(l) == l.shape # "invalid"

(* EpochLog.from_json accepts the bytes.                                   *)
WellFormed(l) ==
    /\ Decodes(l)
    /\ RefsNameTracks(l) /\ KeysAscend(l) /\ AvailabilityBacks(l) /\ RoundCommitIndex(l)
    /\ CompetitionComplete(l) /\ ResultBacked(l) /\ RowsInCensus(l) /\ CursorsCover(l)
    /\ Allocated(l) /\ BurnReserved(l) /\ WeightBacked(l)
=============================================================================
