------------------------------ MODULE RewardWindow ------------------------------
(***************************************************************************)
(* From completed competitions to the weight vector of an epoch: the       *)
(* selection of a result (vidaio/competition/epoch_evidence.py and         *)
(* evidence_guard.py), the reward-window fold of the finalizer             *)
(* (vidaio/tokenomics/breakthrough.py) and the vector it composes and puts *)
(* on the u16 grid (tokenomics/weights.py, quantize.py).                   *)
(*                                                                         *)
(* Competitions complete, contenders leave and join the subnet and         *)
(* evidence is unreadable at times, between the epochs that fold a result. *)
(*                                                                         *)
(* Emissions follow the v3 profile: a window pays all of them, an idle     *)
(* subnet burns.  Shares are integers of Unit; a hotkey is its uid.        *)
(***************************************************************************)
EXTENDS Integers, Sequences, FiniteSets, SequencesExt

CONSTANTS
    Hotkeys,      \* hotkeys of miners, ordered integers
    Sink,         \* the owner's uid, which burns
    Outcomes,     \* competitions that may complete
    MarginNum,    \* breakthrough_margin_floor, a ratio
    MarginDen,
    CrownSplit,   \* crown_split and podium_split, integer parts
    PodiumSplit,
    Redistribute, \* redistribute_empty_places
    Unit,         \* the whole emission
    Grid,         \* the u16 grid, 65535
    WindowLength, \* result_window_hours, in epochs
    MaxTime,      \* bound of the model: epochs
    MaxCycle,     \* bound of the model: competitions
    None

(* A completed competition: the scores of its BUILT contenders, the score  *)
(* of the baseline (None: its rerun failed; 0: none, or measured at zero), *)
(* the anchored bars and the policy for a result without a qualifier.      *)
OutcomeOK(c) ==
    /\ DOMAIN c.scores \subseteq Hotkeys
    /\ \A h \in DOMAIN c.scores : c.scores[h] \in Nat
    /\ c.base \in Nat \cup {None}
    /\ c.crownMin \in Nat \cup {None} /\ c.podiumMin \in Nat \cup {None}
    /\ c.closes \in BOOLEAN

ASSUME RewardAssumption ==
    /\ Hotkeys \subseteq Nat /\ Sink \in Nat \ Hotkeys
    /\ \A c \in Outcomes : OutcomeOK(c)
    /\ MarginNum \in Nat /\ MarginDen \in Nat \ {0}
    /\ Unit \in Nat \ {0} /\ Grid \in Nat /\ WindowLength \in Nat \ {0}
    /\ Grid > Cardinality(Hotkeys)
    /\ Redistribute \in BOOLEAN

VARIABLES
    now,       \* the close-block time of the last epoch
    done,      \* competitions in the order of their completion event
    census,    \* registered hotkeys
    window,    \* reward_window_state of the last log
    released,  \* winners whose sealed archive was made public
    log,       \* the last log: its time, evidence, vector, and whether a paid place was deregistered
    paid       \* ghost: the times each cycle's window was active in a log

vars == <<now, done, census, window, released, log, paid>>

Idle == [kind |-> "IDLE", cycle |-> 0, start |-> 0, end |-> 0, podium |-> <<>>]

TotalOf(f) == FoldFunction(+, 0, f)

-----------------------------------------------------------------------------
(* The rules of a result.                                                  *)

(* qualifies_for_podium                                                    *)
QualifiesForPodium(c, h) == c.podiumMin = None \/ c.scores[h] >= c.podiumMin

(* podium_contenders of the score-ordered result                           *)
PodiumContenders(c) ==
    SetToSortSeq({h \in DOMAIN c.scores : QualifiesForPodium(c, h)},
                 LAMBDA a, b : \/ c.scores[a] > c.scores[b]
                               \/ (c.scores[a] = c.scores[b] /\ a < b))

(* qualifies_for_crown: against a baseline at zero only the absolute bar   *)
(* decides.                                                                *)
QualifiesForCrown(c, score) ==
    IF c.base = 0 THEN c.crownMin # None /\ score >= c.crownMin
    ELSE /\ c.crownMin # None => score >= c.crownMin
         /\ score * MarginDen >= c.base * (MarginDen + MarginNum)

ZeroBaselinePayable(c) == c.crownMin # None \/ c.podiumMin # None
Decidable(c) == c.base # None /\ (c.base = 0 => ZeroBaselinePayable(c))
Winner(c) == PodiumContenders(c)[1]
Split(kind) == IF kind = "CROWN" THEN CrownSplit ELSE PodiumSplit

(* The window a result opens at its application time                       *)
Opened(c, cycle, at) ==
    LET kind == IF QualifiesForCrown(c, c.scores[Winner(c)]) THEN "CROWN" ELSE "PODIUM"
        paidRanks == PodiumContenders(c)
        places == IF Len(paidRanks) < Len(Split(kind)) THEN Len(paidRanks) ELSE Len(Split(kind))
    IN  [kind |-> kind, cycle |-> cycle, start |-> at, end |-> at + WindowLength,
         podium |-> SubSeq(paidRanks, 1, places)]

(* Mutant: the last applied cycle may be applied again.                    *)
NewerOrSame(prior, cycle) == cycle >= prior.cycle

(* A cycle newer than the last applied one                                 *)
Newer(prior, cycle) == cycle > prior.cycle

(* resolve_reward_window.  A result that cannot be decided leaves the      *)
(* prior window and its cycle for a later try.                             *)
Resolve(prior, c, cycle, at) ==
    CASE ~Newer(prior, cycle) \/ c.base = None -> prior
      [] Newer(prior, cycle) /\ c.base # None /\ PodiumContenders(c) = <<>> ->
            IF c.closes THEN Idle ELSE prior
      [] Newer(prior, cycle) /\ c.base # None /\ PodiumContenders(c) # <<>> ->
            IF Decidable(c) THEN Opened(c, cycle, at) ELSE prior

(* window_active: half open                                                *)
Active(w, at) == w.kind # "IDLE" /\ w.start <= at /\ at < w.end

-----------------------------------------------------------------------------
(* The vector.                                                             *)

(* place_shares: the parts of the filled places, in units                  *)
PlaceShare(w, i) ==
    LET split == Split(w.kind)
        filled == SubSeq(split, 1, Len(w.podium))
        whole == TotalOf(IF Redistribute THEN filled ELSE split)
    IN  (split[i] * Unit) \div whole

(* build_weight_vector: registered podium hotkeys are paid, what is left   *)
(* goes to the sink and never to another place.                            *)
Compose(w, at, reg) ==
    LET places == {i \in DOMAIN w.podium : Active(w, at) /\ w.podium[i] \in reg}
        due == [h \in {w.podium[i] : i \in places} |->
                  PlaceShare(w, CHOOSE i \in places : w.podium[i] = h)]
        left == Unit - TotalOf(due)
        burn == {u \in {Sink} : left > 0}
    IN  [u \in (DOMAIN due) \cup burn |-> IF u = Sink THEN left ELSE due[u]]

(* The uids in the order of a key, largest first, ties by uid              *)
ByLargest(key) ==
    SetToSortSeq(DOMAIN key, LAMBDA a, b : key[a] > key[b] \/ (key[a] = key[b] /\ a < b))

(* Overflow of the floors of one: taken off round by round, heaviest       *)
(* first, never below one.                                                 *)
Reclaim(units, deficit) ==
    LET order == ByLargest(units)  n == Len(order)
        after[k \in 0 .. n * Grid] ==
          IF k = 0 THEN [units |-> units, due |-> deficit]
          ELSE LET s == after[k - 1]  u == order[((k - 1) % n) + 1] IN
               IF s.due > 0 /\ s.units[u] > 1
               THEN [units |-> [s.units EXCEPT ![u] = @ - 1], due |-> s.due - 1]
               ELSE s
    IN  after[n * Grid].units

(* Mutant: the remainder goes to the heaviest, once each.                  *)
SpreadOnce(units, rest, remainder) ==
    LET order == ByLargest(units) IN
    [u \in DOMAIN units |->
        units[u] + Cardinality({i \in DOMAIN order : order[i] = u /\ i < remainder})]

(* The rounding remainder, by largest fractional part and round again      *)
Spread(units, rest, remainder) ==
    LET order == ByLargest(rest)  n == Len(order) IN
    [u \in DOMAIN units |->
        units[u] + Cardinality({i \in 0 .. remainder - 1 : order[(i % n) + 1] = u})]

(* quantize_u16, in exact arithmetic                                       *)
Quantize(weights) ==
    LET total == TotalOf(weights)
        rest == [u \in DOMAIN weights |-> (weights[u] * Grid) % total]
        units == [u \in DOMAIN weights |->
                    LET floor == (weights[u] * Grid) \div total
                    IN  IF floor > 1 THEN floor ELSE 1]
        remainder == Grid - TotalOf(units)
    IN  IF remainder >= 0 THEN Spread(units, rest, remainder)
        ELSE Reclaim(units, -remainder)

-----------------------------------------------------------------------------
Init ==
    /\ now = 0 /\ done = <<>> /\ census = Hotkeys /\ window = Idle
    /\ released = {} /\ paid = [k \in 1 .. MaxCycle |-> {}]
    /\ log = [time |-> 0, evidence |-> "none", absent |-> FALSE,
              vector |-> Quantize(Compose(Idle, 0, Hotkeys))]

(* The terminal transition of a competition; its ordinal is its cycle.     *)
Complete(c) ==
    /\ Len(done) < MaxCycle
    /\ done' = Append(done, c)
    /\ UNCHANGED <<now, census, window, released, log, paid>>

Leave(h) ==
    /\ h \in census
    /\ census' = census \ {h}
    /\ UNCHANGED <<now, done, window, released, log, paid>>

Join(h) ==
    /\ h \in Hotkeys \ census
    /\ census' = census \cup {h}
    /\ UNCHANGED <<now, done, window, released, log, paid>>

(* build_competition_epoch_evidence of the latest completed competition: a *)
(* missing contender or an unreadable document is an error, no qualifying  *)
(* contender is no evidence.                                               *)
Evidence(readable) ==
    LET c == done[Len(done)] IN
    IF Len(done) = 0 THEN "none"
    ELSE IF ~(DOMAIN c.scores \subseteq census) THEN "error"
    ELSE IF DOMAIN c.scores = {} THEN "none"
    ELSE IF ~readable THEN "error"
    ELSE IF PodiumContenders(c) = <<>> THEN "none"
    ELSE "result"

(* Mutant: only a crown over a measured baseline is disclosed.             *)
DisclosesOverBaseline(c) ==
    Decidable(c) /\ c.base > 0 /\ QualifiesForCrown(c, c.scores[Winner(c)])

(* The archive of a crown's winner is released before the result leaves    *)
(* the builder.                                                            *)
Discloses(c) == Decidable(c) /\ QualifiesForCrown(c, c.scores[Winner(c)])

ReleasedBy(evidence) ==
    released \cup {<<k, Winner(done[k])>> :
                     k \in {j \in {Len(done)} : evidence = "result" /\ Discloses(done[j])}}

(* guarded_competition_evidence and build_log: an error, a quarantined     *)
(* competition or a cycle that is not newer defers the result; the epoch   *)
(* is composed from the window it leaves.                                  *)
CloseEpoch(readable, quarantined) ==
    LET k == Len(done)  at == now + 1
        evidence == Evidence(readable)
        folds == evidence = "result" /\ ~quarantined /\ Newer(window, k)
        next == IF folds THEN Resolve(window, done[k], k, at) ELSE window
    IN  /\ now < MaxTime
        /\ now' = at
        /\ window' = next
        /\ released' = ReleasedBy(evidence)
        /\ log' = [time |-> at, evidence |-> evidence,
                   absent |-> Active(next, at)
                       /\ \E i \in DOMAIN next.podium : next.podium[i] \notin census,
                   vector |-> Quantize(Compose(next, at, census))]
        /\ paid' = IF Active(next, at) THEN [paid EXCEPT ![next.cycle] = @ \cup {at}] ELSE paid
        /\ UNCHANGED <<done, census>>

(* An epoch that is held after its evidence was built (the store, the      *)
(* anchor, a tombstone): time passes and no log is written.                *)
HoldEpoch(readable) ==
    /\ now < MaxTime
    /\ now' = now + 1
    /\ released' = ReleasedBy(Evidence(readable))
    /\ UNCHANGED <<done, census, window, log, paid>>

Next ==
    \/ \E c \in Outcomes : Complete(c)
    \/ \E h \in Hotkeys : Leave(h) \/ Join(h)
    \/ \E readable, quarantined \in BOOLEAN : CloseEpoch(readable, quarantined)
    \/ \E readable \in BOOLEAN : HoldEpoch(readable)

Spec == Init /\ [][Next]_vars

-----------------------------------------------------------------------------
(* Properties.                                                             *)

(* Every variable stays in its domain; a window has a podium of no more    *)
(* places than its split (RewardWindowState.__post_init__).                *)
TypeOK ==
    /\ now \in 0 .. MaxTime /\ census \subseteq Hotkeys
    /\ Len(done) <= MaxCycle /\ \A k \in DOMAIN done : done[k] \in Outcomes
    /\ window # Idle =>
          /\ window.kind \in {"CROWN", "PODIUM"} /\ window.cycle \in DOMAIN done
          /\ window.start < window.end
          /\ Len(window.podium) \in 1 .. Len(Split(window.kind))
    /\ log.time <= now /\ log.evidence \in {"none", "error", "result"}

(* A competition is paid for one window and not longer, however late its   *)
(* result is applied and however often it is selected again                *)
(* (resolve_reward_window).                                                *)
PaidOneWindow ==
    \A k \in DOMAIN paid : \A s, t \in paid[k] : t - s < WindowLength

(* A crown is paid only after the winning archive was made public, with    *)
(* every combination of baseline and bars (the disclosure boundary of      *)
(* build_competition_epoch_evidence).                                      *)
CrownIsDisclosed ==
    window.kind = "CROWN" => <<window.cycle, window.podium[1]>> \in released

(* The vector of an epoch uses the whole grid, gives every payee at least  *)
(* one unit, pays only podium places and the sink, keeps their order up to *)
(* the unit of rounding, and burns the place of a hotkey that left instead *)
(* of sharing it out (quantize_u16 over build_weight_vector).              *)
GridIsSpent ==
    LET v == log.vector IN
    /\ TotalOf(v) = Grid
    /\ \A u \in DOMAIN v : v[u] >= 1
    /\ \A u \in DOMAIN v : u = Sink \/ \E i \in DOMAIN window.podium : window.podium[i] = u
    /\ \A i, j \in DOMAIN window.podium :
          i < j /\ {window.podium[i], window.podium[j]} \subseteq DOMAIN v =>
              v[window.podium[i]] + 1 >= v[window.podium[j]]
    /\ log.absent => Sink \in DOMAIN v
=============================================================================
