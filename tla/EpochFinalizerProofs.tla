-------------------------- MODULE EpochFinalizerProofs --------------------------
(***************************************************************************)
(* Proofs about EpochFinalizer, for any processes, epochs, uids and finite *)
(* set of ordering keys, on a store that creates conditionally (WriteOnce; *)
(* on the local development store, which overwrites, an index row may name *)
(* bytes that were replaced since).                                        *)
(*                                                                         *)
(* A log is good for its epoch (GoodLog) when it continues the newest      *)
(* anchored epoch before it, folds no packet of an anchored one, and its   *)
(* cursors are at or above every packet folded so far.  What makes that    *)
(* stable is that an epoch is closed only once all epochs before it are    *)
(* settled: then no epoch before it is anchored or given up any more.      *)
(***************************************************************************)
EXTENDS EpochFinalizer, FiniteSetTheorems, WellFoundedInduction, TLAPS

(* Every epoch before e is anchored or given up.                           *)
SettledBelow(e) == \A f \in Epochs : f < e => Settled(f)

(* The epochs whose packets are in the history of epoch e.                 *)
Before(e) == {f \in anchored : f < e}

(* Cursors of log l: at or above every packet that l or an anchored epoch  *)
(* before e folded.                                                        *)
CursorsBound(e, l) ==
    /\ \A u \in DOMAIN l.cursors : l.cursors[u] \in Nat
    /\ \A u \in Uids : \A k \in l.folds[u] : u \in DOMAIN l.cursors /\ k <= l.cursors[u]
    /\ \A f \in Before(e), u \in Uids : \A k \in member[f].folds[u] :
          u \in DOMAIN l.cursors /\ k <= l.cursors[u]

Continues(e, l) ==
    \/ Before(e) = {} /\ l.prior = NoLog
    \/ \E f \in Before(e) : /\ \A g \in Before(e) : g <= f
                            /\ l.prior = member[f]

GoodLog(e, l) ==
    /\ l.epoch = e /\ l.folds \in [Uids -> SUBSET Keys]
    /\ SettledBelow(e) /\ Continues(e, l) /\ CursorsBound(e, l)
    /\ \A f \in Before(e), u \in Uids : l.folds[u] \cap member[f].folds[u] = {}

MembersOK ==
    /\ member = [e \in Epochs |-> member[e]]
    /\ \A e \in Epochs : member[e] # NoLog => GoodLog(e, member[e])

IndexOK ==
    /\ index = [e \in Epochs |-> index[e]]
    /\ marker \subseteq Epochs
    /\ \A e \in marker : member[e] # NoLog
    /\ \A e \in Epochs : index[e] # NoLog =>
          e \in marker /\ index[e] = [digest |-> member[e], close |-> member[e].close]

SettledOK ==
    /\ anchored \subseteq Epochs /\ tomb \subseteq Epochs /\ anchored \cap tomb = {}
    /\ \A e \in anchored \cup tomb : index[e] # NoLog

(* What a call knows at each of its steps.                                 *)
CallOK(p) ==
    LET c == proc[p] IN
    \/ c.pc \in {"idle", "refused"}
    \/ c.pc = "prior" /\ c.epoch \in Epochs /\ c.args \in Args /\ SettledBelow(c.epoch)
    \/ /\ c.pc \in {"probe", "member"} /\ c.epoch \in Epochs
       /\ c.epoch \in marker \/ GoodLog(c.epoch, c.log)
    \/ /\ c.pc = "marker" /\ c.epoch \in Epochs
       /\ c.log = member[c.epoch] /\ c.log # NoLog
    \/ /\ c.pc \in {"index", "anchor"} /\ c.epoch \in marker
       /\ c.log = member[c.epoch]

CallsOK ==
    /\ proc = [p \in Procs |-> proc[p]]
    /\ \A p \in Procs : proc[p] = [pc |-> proc[p].pc, epoch |-> proc[p].epoch,
                                   args |-> proc[p].args, log |-> proc[p].log]
    /\ \A p \in Procs : CallOK(p)

IInv == MembersOK /\ IndexOK /\ SettledOK /\ CallsOK

-----------------------------------------------------------------------------
(* Least and greatest elements.                                            *)

(* A set of naturals has a least element.                                  *)
LEMMA NatMin ==
    ASSUME NEW S \in SUBSET Nat, S # {}
    PROVE  \E x \in S : \A y \in S : x <= y
  <1>1. PICK x \in S : \A y \in S : ~(<<y, x>> \in OpToRel(<, Nat))
    BY NatLessThanWellFounded, WFMin
  <1>2. \A y \in S : ~(y < x)
    BY <1>1 DEF OpToRel
  <1> QED
    BY <1>2

(* A bounded one has a greatest element.                                   *)
LEMMA NatMax ==
    ASSUME NEW S \in SUBSET Nat, S # {}, NEW b \in Nat, \A y \in S : y <= b
    PROVE  \E x \in S : \A y \in S : y <= x
  <1> DEFINE B == {m \in Nat : \A y \in S : y <= m}
  <1>1. PICK m \in B : \A n \in B : m <= n
    <2>1. B \in SUBSET Nat /\ b \in B
      OBVIOUS
    <2> HIDE DEF B
    <2> QED
      BY <2>1, NatMin
  <1>2. m \in S
    <2> SUFFICES ASSUME m \notin S PROVE FALSE
      OBVIOUS
    <2>1. \A y \in S : y <= m - 1
      OBVIOUS
    <2>2. m - 1 \in Nat
      <3>1. PICK y \in S : TRUE
        OBVIOUS
      <3>2. y \in Nat /\ y <= m - 1
        BY <2>1
      <3> QED
        BY <3>2
    <2>3. m - 1 \in B
      BY <2>1, <2>2
    <2> QED
      BY <1>1, <2>3
  <1> QED
    BY <1>2

(* A finite set of naturals is bounded.                                    *)
LEMMA FiniteBound ==
    ASSUME NEW K \in SUBSET Nat, IsFiniteSet(K)
    PROVE  \E b \in Nat : \A y \in K : y <= b
  <1> DEFINE Bounded(S) == \E b \in Nat : \A y \in S : y <= b
             Bad == {n \in Nat : \E S \in SUBSET Nat :
                        IsFiniteSet(S) /\ Cardinality(S) = n /\ ~Bounded(S)}
  <1>1. Bad = {}
    <2> SUFFICES ASSUME Bad # {} PROVE FALSE
      OBVIOUS
    <2>1. PICK n \in Bad : \A m \in Bad : n <= m
      <3>1. Bad \in SUBSET Nat
        OBVIOUS
      <3> HIDE DEF Bad
      <3> QED
        BY <3>1, NatMin
    <2>2. PICK S \in SUBSET Nat : IsFiniteSet(S) /\ Cardinality(S) = n /\ ~Bounded(S)
      OBVIOUS
    <2>3. PICK x \in S : TRUE
      BY <2>2
    <2>4. IsFiniteSet(S \ {x}) /\ Cardinality(S \ {x}) = n - 1
      BY <2>2, FS_RemoveElement
    <2>5. n - 1 \in Nat
      BY <2>4, FS_CardinalityType
    <2>6. S \ {x} \in SUBSET Nat /\ n - 1 \notin Bad
      BY <2>1, <2>5
    <2>7. Bounded(S \ {x})
      <3> HIDE DEF Bounded
      <3> QED
        BY <2>4, <2>5, <2>6
    <2>8. PICK b \in Nat : \A y \in S \ {x} : y <= b
      BY <2>7
    <2>9. \A y \in S : y <= b + x
      BY <2>8
    <2>10. b + x \in Nat
      OBVIOUS
    <2> QED
      BY <2>2, <2>9, <2>10
  <1>2. Cardinality(K) \in Nat
    BY FS_CardinalityType
  <1>3. Bounded(K)
    <2> HIDE DEF Bounded
    <2> QED
      BY <1>1, <1>2
  <1> QED
    BY <1>3

(* The ordering keys a call folds have a least and a greatest one.         *)
LEMMA KeysHaveBounds ==
    ASSUME NEW S \in SUBSET Keys, S # {}
    PROVE  /\ Least(S) \in S /\ \A y \in S : Least(S) <= y
           /\ Most(S) \in S /\ \A y \in S : y <= Most(S)
  <1>1. Keys \in SUBSET Nat /\ IsFiniteSet(Keys)
    BY FinalizerAssumption
  <1>2. PICK b \in Nat : \A y \in Keys : y <= b
    BY <1>1, FiniteBound
  <1>3. S \in SUBSET Nat /\ \A y \in S : y <= b
    BY <1>1, <1>2
  <1>4. (\E x \in S : \A y \in S : x <= y) /\ (\E x \in S : \A y \in S : y <= x)
    BY <1>3, NatMin, NatMax
  <1> QED
    BY <1>4 DEF Least, Most

(* So does a set of epochs have a newest one.                              *)
LEMMA NewestEpoch ==
    ASSUME NEW S \in SUBSET Epochs, S # {}
    PROVE  \E x \in S : \A y \in S : y <= x
  <1>1. S \in SUBSET Nat /\ MaxEpoch \in Nat /\ \A y \in S : y <= MaxEpoch
    BY FinalizerAssumption DEF Epochs
  <1> QED
    BY <1>1, NatMax

-----------------------------------------------------------------------------
(* What a good log leans on does not move.                                 *)

(* Epochs only get settled, members are only added.                        *)
Grows ==
    /\ anchored \subseteq anchored' /\ tomb \subseteq tomb'
    /\ anchored' \cap tomb' = {}
    /\ \A e \in Epochs : member[e] # NoLog => member'[e] = member[e]

(* Below a settled prefix, what is anchored is settled for good.           *)
LEMMA BeforeKept ==
    ASSUME NEW e \in Epochs, SettledBelow(e), Grows, anchored' \subseteq Epochs
    PROVE  SettledBelow(e)' /\ Before(e)' = Before(e)
  <1>1. SettledBelow(e)'
    BY DEF SettledBelow, Settled, Grows
  <1>2. ASSUME NEW f \in anchored', f < e
        PROVE  f \in anchored
    BY <1>2 DEF SettledBelow, Settled, Grows
  <1> QED
    BY <1>1, <1>2 DEF Before, Grows

LEMMA GoodLogKept ==
    ASSUME IInv, Grows, anchored' \subseteq Epochs, NEW e \in Epochs, NEW l, GoodLog(e, l)
    PROVE  GoodLog(e, l)'
  <1>1. SettledBelow(e)' /\ Before(e)' = Before(e)
    BY BeforeKept DEF GoodLog
  <1>2. \A f \in Before(e) : member'[f] = member[f]
    <2>1. \A f \in Before(e) : f \in Epochs /\ member[f] # NoLog
      BY DEF IInv, SettledOK, IndexOK, Before
    <2> QED
      BY <2>1 DEF Grows
  <1>3. Continues(e, l)'
    BY <1>1, <1>2 DEF GoodLog, Continues
  <1>4. CursorsBound(e, l)'
    BY <1>1, <1>2 DEF GoodLog, CursorsBound
  <1> QED
    BY <1>1, <1>2, <1>3, <1>4 DEF GoodLog

(* A call stays right while others move.                                   *)
LEMMA CallKept ==
    ASSUME IInv, Grows, anchored' \subseteq Epochs, marker \subseteq marker',
           NEW p \in Procs, CallOK(p), proc'[p] = proc[p]
    PROVE  CallOK(p)'
  <1>1. CASE proc[p].pc = "prior"
    BY <1>1, BeforeKept DEF CallOK
  <1>2. CASE proc[p].pc \in {"probe", "member"}
    <2>1. PICK e, l : e = proc[p].epoch /\ l = proc[p].log
      OBVIOUS
    <2>2. e \in Epochs /\ (e \in marker \/ GoodLog(e, l))
      BY <1>2, <2>1 DEF CallOK
    <2>3. e \in marker' \/ GoodLog(e, l)'
      BY <2>2, GoodLogKept
    <2>4. proc'[p].epoch = e /\ proc'[p].log = l /\ proc'[p].pc \in {"probe", "member"}
      BY <1>2, <2>1
    <2> QED
      BY <2>2, <2>3, <2>4 DEF CallOK
  <1>3. CASE proc[p].pc = "marker"
    BY <1>3 DEF CallOK, Grows
  <1>4. CASE proc[p].pc \in {"index", "anchor"}
    BY <1>4 DEF CallOK, Grows, IInv, IndexOK
  <1>5. CASE proc[p].pc \in {"idle", "refused"}
    BY <1>5 DEF CallOK
  <1> QED
    BY <1>1, <1>2, <1>3, <1>4, <1>5 DEF CallOK

(* One call moves to c and the others are where they were.                 *)
LEMMA CallMoves ==
    ASSUME IInv, Grows, anchored' \subseteq Epochs, marker \subseteq marker',
           NEW p \in Procs, NEW c, proc' = [proc EXCEPT ![p] = c],
           c = [pc |-> c.pc, epoch |-> c.epoch, args |-> c.args, log |-> c.log],
           CallOK(p)'
    PROVE  CallsOK'
  <1>1. \A q \in Procs : proc'[q] = IF q = p THEN c ELSE proc[q]
    BY DEF IInv, CallsOK
  <1>2. \A q \in Procs : CallOK(q)'
    BY <1>1, CallKept DEF IInv, CallsOK
  <1>3. proc' = [q \in Procs |-> proc'[q]]
    BY DEF IInv, CallsOK
  <1>4. \A q \in Procs : proc'[q] = [pc |-> proc'[q].pc, epoch |-> proc'[q].epoch,
                                     args |-> proc'[q].args, log |-> proc'[q].log]
    BY <1>1 DEF IInv, CallsOK
  <1> QED
    BY <1>2, <1>3, <1>4 DEF CallsOK

(* The members and the index, when the store stays as it is.               *)
LEMMA StoreKept ==
    ASSUME IInv, Grows, anchored' \subseteq Epochs, member' = member
    PROVE  MembersOK'
  <1>1. \A e \in Epochs : member[e] # NoLog => GoodLog(e, member[e])'
    BY GoodLogKept DEF IInv, MembersOK
  <1> QED
    BY <1>1 DEF IInv, MembersOK

LEMMA InitInv == Init => IInv
  <1> SUFFICES ASSUME Init PROVE IInv
    OBVIOUS
  <1>1. MembersOK /\ IndexOK /\ SettledOK
    BY DEF Init, MembersOK, IndexOK, SettledOK
  <1>2. \A p \in Procs : proc[p] = Idle
    BY DEF Init
  <1>3. CallsOK
    BY <1>2 DEF Init, CallsOK, CallOK, Idle
  <1> QED
    BY <1>1, <1>3 DEF IInv

-----------------------------------------------------------------------------
(* The predecessor and the log built on it.                                *)

(* The predecessor is the newest anchored epoch before e, unless e is      *)
(* already finalized and the call only recovers it.                        *)
LEMMA PredecessorOK ==
    ASSUME IInv, NEW e \in Epochs, SettledBelow(e)
    PROVE  \/ e \in marker
           \/ Predecessor(e) = 0 /\ Before(e) = {}
           \/ Predecessor(e) \in Before(e) /\ \A g \in Before(e) : g <= Predecessor(e)
  <1> DEFINE S == {f \in Epochs : Served(f)}
  <1>0. Epochs \subseteq Nat \ {0}
    BY FinalizerAssumption DEF Epochs
  <1>1. \A f \in anchored : f \in Epochs /\ Served(f)
    BY DEF IInv, SettledOK, Served
  <1>2. \A f \in Epochs : Served(f) /\ f < e => f \in Before(e)
    BY DEF SettledBelow, Settled, Served, Before
  <1>3. CASE S = {}
    <2>1. Latest = 0
      BY <1>3 DEF Latest
    <2> QED
      BY <1>0, <1>1, <1>3, <2>1 DEF Predecessor, Before
  <1>4. CASE S # {}
    <2>1. \E x \in S : \A y \in S : y <= x
      <3>1. S \in SUBSET Epochs
        OBVIOUS
      <3> HIDE DEF S
      <3> QED
        BY <1>4, <3>1, NewestEpoch
    <2>2. PICK n \in Epochs : n = Latest /\ Served(n) /\ \A f \in Epochs : Served(f) => f <= n
      BY <2>1 DEF Latest
    <2>3. CASE n < e
      <3>1. Predecessor(e) = n
        BY <2>2, <2>3 DEF Predecessor
      <3>2. n \in Before(e) /\ \A g \in Before(e) : g <= n
        BY <1>1, <1>2, <2>2, <2>3 DEF Before
      <3> QED
        BY <3>1, <3>2
    <2>4. CASE ~(n < e)
      <3>1. index[n] # NoLog /\ n \in marker /\ GoodLog(n, member[n])
        BY <2>2 DEF Served, IInv, IndexOK, MembersOK
      <3>2. CASE n = e
        BY <3>1, <3>2
      <3>3. CASE n # e
        <4>1. e < n
          BY <1>0, <2>4, <3>3
        <4>2. Settled(e)
          BY <3>1, <4>1 DEF GoodLog, SettledBelow
        <4>3. index[e] # NoLog
          BY <4>2 DEF Settled, IInv, SettledOK
        <4> QED
          BY <4>3 DEF IInv, IndexOK
      <3> QED
        BY <3>2, <3>3
    <2> QED
      BY <2>3, <2>4
  <1> QED
    BY <1>3, <1>4

(* What the predecessor's cursors say of the history.                      *)
LEMMA PriorCursors ==
    ASSUME IInv, NEW e \in Epochs, NEW prior,
           \/ Before(e) = {} /\ prior = NoLog
           \/ \E f \in Before(e) : (\A g \in Before(e) : g <= f) /\ prior = member[f],
           NEW c, c = CursorsOf(prior)
    PROVE  /\ \A u \in DOMAIN c : c[u] \in Nat
           /\ \A f \in Before(e), u \in Uids : \A k \in member[f].folds[u] :
                 u \in DOMAIN c /\ k <= c[u]
  <1>1. CASE Before(e) = {} /\ prior = NoLog
    <2>1. DOMAIN c = {}
      BY <1>1 DEF CursorsOf
    <2> QED
      BY <1>1, <2>1
  <1>2. ASSUME NEW f \in Before(e), \A g \in Before(e) : g <= f, prior = member[f]
        PROVE  /\ \A u \in DOMAIN c : c[u] \in Nat
               /\ \A g \in Before(e), u \in Uids : \A k \in member[g].folds[u] :
                     u \in DOMAIN c /\ k <= c[u]
    <2>1. f \in Epochs /\ member[f] # NoLog
      BY DEF Before, IInv, SettledOK, IndexOK
    <2>2. c = member[f].cursors
      BY <1>2, <2>1 DEF CursorsOf
    <2>3. CursorsBound(f, member[f])
      BY <2>1 DEF IInv, MembersOK, GoodLog
    <2>4. \A g \in Before(e) : g = f \/ g \in Before(f)
      <3>1. \A g \in Before(e) : g \in Nat
        BY FinalizerAssumption DEF Before, IInv, SettledOK, Epochs
      <3> QED
        BY <1>2, <3>1 DEF Before
    <2> QED
      BY <2>2, <2>3, <2>4 DEF CursorsBound
  <1> QED
    BY <1>1, <1>2

(* The log that ReadPrior assembles is good.                               *)
LEMMA BuiltLogGood ==
    ASSUME IInv, NEW e \in Epochs, SettledBelow(e), NEW a \in Args, NEW prior, NEW now,
           \/ Before(e) = {} /\ prior = NoLog
           \/ \E f \in Before(e) : (\A g \in Before(e) : g <= f) /\ prior = member[f],
           ~Replayed(a, CursorsOf(prior))
    PROVE  GoodLog(e, Log(e, a, prior, now))
  <1>1. PICK c : c = CursorsOf(prior)
    OBVIOUS
  <1>2. /\ \A u \in DOMAIN c : c[u] \in Nat
        /\ \A f \in Before(e), u \in Uids : \A k \in member[f].folds[u] :
              u \in DOMAIN c /\ k <= c[u]
    BY <1>1, PriorCursors
  <1>3. a.folds \in [Uids -> SUBSET Keys]
    BY DEF Args
  <1>4. Keys \subseteq Nat \ {0}
    BY FinalizerAssumption DEF NoKey
  <1>5. \A u \in Folding(a) : /\ a.folds[u] \in SUBSET Keys
                              /\ Most(a.folds[u]) \in a.folds[u]
                              /\ \A k \in a.folds[u] : k <= Most(a.folds[u]) /\ Least(a.folds[u]) <= k
                              /\ Least(a.folds[u]) \in a.folds[u]
    BY <1>3, KeysHaveBounds DEF Folding
  <1>6. \A u \in Folding(a) \cap DOMAIN c : \A k \in a.folds[u] : k > c[u]
    <2> SUFFICES ASSUME NEW u \in Folding(a) \cap DOMAIN c, NEW k \in a.folds[u]
                 PROVE  k > c[u]
      OBVIOUS
    <2>1. c[u] = 0 \/ ~(Least(a.folds[u]) <= c[u])
      BY <1>1 DEF Replayed, NoKey
    <2>2. k \in Nat \ {0} /\ Least(a.folds[u]) \in Nat /\ Least(a.folds[u]) <= k /\ c[u] \in Nat
      BY <1>2, <1>4, <1>5
    <2> QED
      BY <2>1, <2>2
  <1> DEFINE l == Log(e, a, prior, now)
             D == DOMAIN c \cup a.census \cup Folding(a)
  <1>7. l.epoch = e /\ l.folds = a.folds /\ l.prior = prior /\ l.cursors = Advanced(a, c, D)
    BY <1>1 DEF Log, Total
  <1>8. /\ DOMAIN l.cursors = D
        /\ \A u \in D : l.cursors[u] = IF u \in Folding(a) THEN Most(a.folds[u])
                                       ELSE IF u \in DOMAIN c THEN c[u] ELSE 0
    BY <1>7 DEF Advanced, NoKey
  <1> HIDE DEF l
  <1>9. Continues(e, l)
    BY <1>7 DEF Continues
  <1>10. CursorsBound(e, l)
    <2>1. ASSUME NEW u \in DOMAIN l.cursors
          PROVE  l.cursors[u] \in Nat
      <3>1. u \in Folding(a) => Most(a.folds[u]) \in Nat
        BY <1>4, <1>5
      <3>2. u \in DOMAIN c => c[u] \in Nat
        BY <1>2
      <3> HIDE DEF D
      <3> QED
        BY <1>8, <3>1, <3>2
    <2>2. ASSUME NEW u \in Uids, NEW k \in l.folds[u]
          PROVE  u \in DOMAIN l.cursors /\ k <= l.cursors[u]
      <3>1. u \in Folding(a) /\ k \in a.folds[u]
        BY <1>7 DEF Folding
      <3>2. u \in D /\ k <= Most(a.folds[u])
        BY <1>5, <3>1
      <3> HIDE DEF D
      <3> QED
        BY <1>8, <3>1, <3>2
    <2>3. ASSUME NEW f \in Before(e), NEW u \in Uids, NEW k \in member[f].folds[u]
          PROVE  u \in DOMAIN l.cursors /\ k <= l.cursors[u]
      <3>1. u \in DOMAIN c /\ k <= c[u] /\ u \in D /\ c[u] \in Nat
        BY <1>2
      <3>2. f \in Epochs /\ member[f].folds \in [Uids -> SUBSET Keys]
        BY DEF Before, IInv, SettledOK, IndexOK, MembersOK, GoodLog
      <3>3. k \in Nat
        BY <1>4, <3>2
      <3>4. CASE u \in Folding(a)
        <4>1. Most(a.folds[u]) \in Nat /\ Most(a.folds[u]) > c[u]
          BY <1>4, <1>5, <1>6, <3>1, <3>4
        <4> QED
          BY <1>8, <3>1, <3>3, <3>4, <4>1
      <3>5. CASE u \notin Folding(a)
        BY <1>8, <3>1, <3>5
      <3> QED
        BY <3>4, <3>5
    <2> QED
      BY <2>1, <2>2, <2>3 DEF CursorsBound
  <1>11. ASSUME NEW f \in Before(e), NEW u \in Uids, NEW k \in l.folds[u] \cap member[f].folds[u]
         PROVE  FALSE
    <2>1. u \in Folding(a)
      BY <1>7 DEF Folding
    <2>2. u \in DOMAIN c /\ k <= c[u] /\ c[u] \in Nat
      BY <1>2
    <2>3. k \in Nat /\ k > c[u]
      BY <1>4, <1>5, <1>6, <1>7, <2>1, <2>2
    <2> QED
      BY <2>2, <2>3
  <1>12. GoodLog(e, l)
    BY <1>3, <1>7, <1>9, <1>10, <1>11 DEF GoodLog
  <1> QED
    BY <1>12 DEF l

-----------------------------------------------------------------------------
(* The steps.                                                              *)

(* A step that only moves one call.                                        *)
LEMMA QuietStep ==
    ASSUME IInv, UNCHANGED <<member, marker, index, anchored, tomb>>,
           NEW p \in Procs, NEW c, proc' = [proc EXCEPT ![p] = c],
           c = [pc |-> c.pc, epoch |-> c.epoch, args |-> c.args, log |-> c.log],
           CallOK(p)'
    PROVE  IInv'
  <1>1. Grows /\ anchored' \subseteq Epochs
    BY DEF Grows, IInv, SettledOK
  <1>2. MembersOK'
    BY <1>1, StoreKept
  <1>3. IndexOK' /\ SettledOK'
    BY DEF IInv, IndexOK, SettledOK
  <1>4. CallsOK'
    BY <1>1, CallMoves
  <1> QED
    BY <1>2, <1>3, <1>4 DEF IInv

(* A call's record after its program counter was set.                      *)
LEMMA CallGoto ==
    ASSUME IInv, NEW p \in Procs, NEW x, Goto(p, x)
    PROVE  proc' = [proc EXCEPT ![p] = [pc |-> x, epoch |-> proc[p].epoch,
                                        args |-> proc[p].args, log |-> proc[p].log]]
  <1>1. /\ proc = [q \in Procs |-> proc[q]]
        /\ proc[p] = [pc |-> proc[p].pc, epoch |-> proc[p].epoch,
                      args |-> proc[p].args, log |-> proc[p].log]
    BY DEF IInv, CallsOK
  <1>2. proc' = [proc EXCEPT ![p] = [proc[p] EXCEPT !.pc = x]]
    BY <1>1 DEF Goto
  <1>3. [proc[p] EXCEPT !.pc = x] = [pc |-> x, epoch |-> proc[p].epoch,
                                     args |-> proc[p].args, log |-> proc[p].log]
    BY <1>1
  <1> QED
    BY <1>2, <1>3

(* A call ends: refused, or it raised, or its process died.                *)
LEMMA EndStep ==
    ASSUME IInv, NEW p \in Procs, Refused(p) \/ Raises(p)
    PROVE  IInv'
  <1>1. proc' = [proc EXCEPT ![p] = Idle] /\ UNCHANGED <<member, marker, index, anchored, tomb>>
    BY DEF Refused, Raises
  <1>2. Idle = [pc |-> Idle.pc, epoch |-> Idle.epoch, args |-> Idle.args, log |-> Idle.log]
        /\ Idle.pc = "idle"
    BY DEF Idle
  <1>3. proc'[p] = Idle
    BY <1>1 DEF IInv, CallsOK
  <1>4. CallOK(p)'
    BY <1>2, <1>3 DEF CallOK, Idle
  <1> QED
    BY <1>1, <1>2, <1>4, QuietStep

LEMMA CallStep ==
    ASSUME IInv, NEW p \in Procs, NEW e \in Epochs, NEW a \in Args, Call(p, e, a)
    PROVE  IInv'
  <1> DEFINE c == [pc |-> "prior", epoch |-> e, args |-> a, log |-> NoLog]
  <1>1. proc' = [proc EXCEPT ![p] = c] /\ UNCHANGED <<member, marker, index, anchored, tomb>>
    BY DEF Call
  <1>2. /\ c = [pc |-> c.pc, epoch |-> c.epoch, args |-> c.args, log |-> c.log]
        /\ c.pc = "prior" /\ c.epoch = e /\ c.args = a
    OBVIOUS
  <1> HIDE DEF c
  <1>3. proc'[p] = c
    BY <1>1 DEF IInv, CallsOK
  <1>4. SettledBelow(e)'
    BY <1>1 DEF Call, SettledBelow, Settled
  <1>5. CallOK(p)'
    BY <1>2, <1>3, <1>4 DEF CallOK
  <1> QED
    BY <1>1, <1>2, <1>5, QuietStep

(* A log is assembled on the newest anchored epoch, or the epoch is        *)
(* finalized already.                                                      *)
LEMMA ReadPriorStep ==
    ASSUME IInv, NEW p \in Procs, ReadPrior(p)
    PROVE  IInv'
  <1>1. proc[p].pc = "prior"
    BY DEF ReadPrior, At
  <1>2. PICK e \in Epochs, a \in Args : e = proc[p].epoch /\ a = proc[p].args
    BY <1>1 DEF IInv, CallsOK, CallOK
  <1>3. SettledBelow(e)
    BY <1>1, <1>2 DEF IInv, CallsOK, CallOK
  <1>4. PICK prior : prior = IF Predecessor(e) = 0 THEN NoLog ELSE member[Predecessor(e)]
    OBVIOUS
  <1> DEFINE good == /\ ~Replayed(a, CursorsOf(prior))
                     /\ ClaimAccepted(a, CursorsOf(prior))
  <1>5. PICK x, z : /\ x = (IF good THEN "probe" ELSE "refused")
                    /\ z = (IF good THEN Log(e, a, prior, clock) ELSE NoLog)
    OBVIOUS
  <1> DEFINE c == [pc |-> x, epoch |-> e, args |-> NoLog, log |-> z]
  <1>6. UNCHANGED <<member, marker, index, anchored, tomb>>
    BY DEF ReadPrior
  <1>7. proc' = [proc EXCEPT ![p] = c]
    BY <1>2, <1>4, <1>5 DEF ReadPrior
  <1>8. /\ c = [pc |-> c.pc, epoch |-> c.epoch, args |-> c.args, log |-> c.log]
        /\ c.pc = x /\ c.epoch = e /\ c.log = z
    OBVIOUS
  <1> HIDE DEF c
  <1>9. proc'[p] = c
    BY <1>7 DEF IInv, CallsOK
  <1>10. CASE ~good
    <2>1. x = "refused"
      BY <1>5, <1>10
    <2>2. CallOK(p)'
      BY <1>8, <1>9, <2>1 DEF CallOK
    <2> QED
      BY <1>6, <1>7, <1>8, <2>2, QuietStep
  <1>11. CASE good
    <2>1. x = "probe" /\ z = Log(e, a, prior, clock)
      BY <1>5, <1>11
    <2>2. e \in marker \/ GoodLog(e, z)
      <3>1. ASSUME e \notin marker
            PROVE  \/ Before(e) = {} /\ prior = NoLog
                   \/ \E f \in Before(e) : (\A g \in Before(e) : g <= f) /\ prior = member[f]
        <4>1. CASE Predecessor(e) = 0 /\ Before(e) = {}
          BY <1>4, <4>1
        <4>2. CASE Predecessor(e) \in Before(e) /\ \A g \in Before(e) : g <= Predecessor(e)
          <5>1. Predecessor(e) # 0
            BY <4>2, FinalizerAssumption DEF Before, IInv, SettledOK, Epochs
          <5> QED
            BY <1>4, <4>2, <5>1
        <4> QED
          BY <1>3, <3>1, <4>1, <4>2, PredecessorOK
      <3>2. ASSUME e \notin marker PROVE GoodLog(e, z)
        BY <1>3, <1>11, <2>1, <3>1, <3>2, BuiltLogGood
      <3> QED
        BY <3>2
    <2>3. Grows /\ anchored' \subseteq Epochs
      BY <1>6 DEF Grows, IInv, SettledOK
    <2>4. e \in marker' \/ GoodLog(e, z)'
      BY <1>6, <2>2, <2>3, GoodLogKept
    <2>5. CallOK(p)'
      BY <1>8, <1>9, <2>1, <2>4 DEF CallOK
    <2> QED
      BY <1>6, <1>7, <1>8, <2>5, QuietStep
  <1> QED
    BY <1>10, <1>11

(* Recover and Build, after the marker was probed.                         *)
LEMMA ProbeStep ==
    ASSUME IInv, NEW p \in Procs, Recover(p) \/ Build(p)
    PROVE  IInv'
  <1>1. proc[p].pc = "probe" /\ UNCHANGED <<member, marker, index, anchored, tomb>>
    BY DEF Recover, Build, At
  <1>2. PICK e \in Epochs, l \in {proc[p].log} : e = proc[p].epoch
    BY <1>1 DEF IInv, CallsOK, CallOK
  <1>3. e \in marker \/ GoodLog(e, l)
    BY <1>1, <1>2 DEF IInv, CallsOK, CallOK
  <1>4. PICK x, y, z : /\ x = (IF e \in marker THEN "index" ELSE "member")
                       /\ y = (IF e \in marker THEN NoLog ELSE proc[p].args)
                       /\ z = (IF e \in marker THEN member[e] ELSE l)
    OBVIOUS
  <1> DEFINE c == [pc |-> x, epoch |-> e, args |-> y, log |-> z]
  <1>5. proc' = [proc EXCEPT ![p] = c]
    <2>1. CASE Recover(p)
      BY <1>2, <1>4, <2>1 DEF Recover
    <2>2. CASE Build(p)
      <3>1. Goto(p, "member") /\ x = "member" /\ z = proc[p].log /\ y = proc[p].args
        BY <1>2, <1>4, <2>2 DEF Build
      <3>2. proc' = [proc EXCEPT ![p] = [pc |-> "member", epoch |-> proc[p].epoch,
                                         args |-> proc[p].args, log |-> proc[p].log]]
        BY <3>1, CallGoto
      <3> QED
        BY <1>2, <3>1, <3>2
    <2> QED
      BY <2>1, <2>2
  <1>6. /\ c = [pc |-> c.pc, epoch |-> c.epoch, args |-> c.args, log |-> c.log]
        /\ c.pc = x /\ c.epoch = e /\ c.log = z
    OBVIOUS
  <1> HIDE DEF c
  <1>7. proc'[p] = c
    BY <1>5 DEF IInv, CallsOK
  <1>8. Grows /\ anchored' \subseteq Epochs
    BY <1>1 DEF Grows, IInv, SettledOK
  <1>9. CallOK(p)'
    <2>1. CASE e \in marker
      BY <1>1, <1>4, <1>6, <1>7, <2>1 DEF CallOK
    <2>2. CASE e \notin marker
      <3>1. GoodLog(e, z)' /\ x = "member"
        BY <1>3, <1>4, <1>8, <2>2, GoodLogKept
      <3> QED
        BY <1>6, <1>7, <3>1 DEF CallOK
    <2> QED
      BY <2>1, <2>2
  <1> QED
    BY <1>1, <1>5, <1>6, <1>9, QuietStep

(* The conditional create: the object of an epoch is written once.         *)
LEMMA PutMemberStep ==
    ASSUME WriteOnce, IInv, NEW p \in Procs, PutMember(p)
    PROVE  IInv'
  <1>1. proc[p].pc = "member" /\ Goto(p, "marker") /\ UNCHANGED <<marker, index, anchored, tomb>>
    BY DEF PutMember, At
  <1>2. PICK e \in Epochs, l \in {proc[p].log} : e = proc[p].epoch
    BY <1>1 DEF IInv, CallsOK, CallOK
  <1>3. /\ e \notin marker /\ GoodLog(e, l) /\ member[e] \in {NoLog, l}
        /\ member' = [member EXCEPT ![e] = l]
    BY <1>1, <1>2 DEF IInv, CallsOK, CallOK, PutMember, RawPut
  <1>4. \A f \in Epochs : member'[f] = IF f = e THEN l ELSE member[f]
    BY <1>3 DEF IInv, MembersOK
  <1>5. l # NoLog
    <2>1. l.epoch = e /\ e # 0 /\ NoLog.epoch = 0
      BY <1>3, FinalizerAssumption DEF GoodLog, Epochs, NoLog
    <2> QED
      BY <2>1
  <1>6. Grows /\ anchored' \subseteq Epochs
    BY <1>1, <1>3, <1>4 DEF Grows, IInv, SettledOK
  <1>7. MembersOK'
    <2>1. ASSUME NEW f \in Epochs, member'[f] # NoLog
          PROVE  GoodLog(f, member[f])'
      <3>1. PICK m : m = member'[f]
        OBVIOUS
      <3>2. GoodLog(f, m)
        BY <1>3, <1>4, <2>1, <3>1 DEF IInv, MembersOK
      <3>3. GoodLog(f, m)'
        BY <1>6, <3>2, GoodLogKept
      <3> QED
        BY <3>1, <3>3
    <2>2. member' = [f \in Epochs |-> member'[f]]
      BY <1>3 DEF IInv, MembersOK
    <2> QED
      BY <2>1, <2>2 DEF MembersOK
  <1>8. IndexOK' /\ SettledOK'
    <2>1. \A f \in marker : member'[f] = member[f]
      BY <1>3, <1>4 DEF IInv, IndexOK
    <2> QED
      BY <1>1, <2>1 DEF IInv, IndexOK, SettledOK
  <1>9. CallsOK'
    <2> DEFINE c == [pc |-> "marker", epoch |-> e, args |-> proc[p].args, log |-> l]
    <2>1. proc' = [proc EXCEPT ![p] = c]
      <3>1. proc' = [proc EXCEPT ![p] = [pc |-> "marker", epoch |-> proc[p].epoch,
                                         args |-> proc[p].args, log |-> proc[p].log]]
        BY <1>1, CallGoto
      <3> QED
        BY <1>2, <3>1
    <2>2. /\ c = [pc |-> c.pc, epoch |-> c.epoch, args |-> c.args, log |-> c.log]
          /\ c.pc = "marker" /\ c.epoch = e /\ c.log = l
      OBVIOUS
    <2> HIDE DEF c
    <2>3. proc'[p] = c
      BY <2>1 DEF IInv, CallsOK
    <2>4. CallOK(p)'
      BY <1>4, <1>5, <2>2, <2>3 DEF CallOK
    <2> QED
      BY <1>1, <1>6, <2>1, <2>2, <2>4, CallMoves
  <1> QED
    BY <1>7, <1>8, <1>9 DEF IInv

LEMMA FinalizeSetStep ==
    ASSUME IInv, NEW p \in Procs, FinalizeSet(p)
    PROVE  IInv'
  <1>1. /\ proc[p].pc = "marker" /\ Goto(p, "index")
        /\ UNCHANGED <<member, index, anchored, tomb>>
    BY DEF FinalizeSet, At
  <1>2. PICK e \in Epochs, l \in {proc[p].log} : e = proc[p].epoch
    BY <1>1 DEF IInv, CallsOK, CallOK
  <1>3. l = member[e] /\ member[e] # NoLog /\ marker' = marker \cup {e}
    BY <1>1, <1>2 DEF IInv, CallsOK, CallOK, FinalizeSet
  <1>4. Grows /\ anchored' \subseteq Epochs
    BY <1>1 DEF Grows, IInv, SettledOK
  <1>5. MembersOK'
    BY <1>1, <1>4, StoreKept
  <1>6. IndexOK' /\ SettledOK'
    BY <1>1, <1>3 DEF IInv, IndexOK, SettledOK
  <1>7. CallsOK'
    <2> DEFINE c == [pc |-> "index", epoch |-> e, args |-> proc[p].args, log |-> l]
    <2>1. proc' = [proc EXCEPT ![p] = c]
      <3>1. proc' = [proc EXCEPT ![p] = [pc |-> "index", epoch |-> proc[p].epoch,
                                         args |-> proc[p].args, log |-> proc[p].log]]
        BY <1>1, CallGoto
      <3> QED
        BY <1>2, <3>1
    <2>2. /\ c = [pc |-> c.pc, epoch |-> c.epoch, args |-> c.args, log |-> c.log]
          /\ c.pc = "index" /\ c.epoch = e /\ c.log = l
      OBVIOUS
    <2> HIDE DEF c
    <2>3. proc'[p] = c
      BY <2>1 DEF IInv, CallsOK
    <2>4. CallOK(p)'
      BY <1>1, <1>3, <2>2, <2>3 DEF CallOK
    <2> QED
      BY <1>3, <1>4, <2>1, <2>2, <2>4, CallMoves
  <1> QED
    BY <1>5, <1>6, <1>7 DEF IInv

(* The row is that of the stored log, and a row that is there stays.       *)
LEMMA RecordFinalizedStep ==
    ASSUME IInv, NEW p \in Procs, RecordFinalized(p)
    PROVE  IInv'
  <1>1. /\ proc[p].pc = "index" /\ Goto(p, "anchor")
        /\ UNCHANGED <<member, marker, anchored, tomb>>
    BY DEF RecordFinalized, At
  <1>2. PICK e \in marker, l \in {proc[p].log} : e = proc[p].epoch
    BY <1>1 DEF IInv, CallsOK, CallOK
  <1>3. e \in Epochs /\ l = member[e]
    BY <1>1, <1>2 DEF IInv, CallsOK, CallOK, IndexOK
  <1>4. PICK row : row = [digest |-> member[e], close |-> member[e].close]
    OBVIOUS
  <1>5. e \notin tomb /\ index[e] \in {NoLog, row} /\ index' = [index EXCEPT ![e] = row]
    BY <1>2, <1>3, <1>4 DEF RecordFinalized
  <1>6. Grows /\ anchored' \subseteq Epochs
    BY <1>1 DEF Grows, IInv, SettledOK
  <1>7. MembersOK'
    BY <1>1, <1>6, StoreKept
  <1>8. /\ index' = [f \in Epochs |-> index'[f]]
        /\ \A f \in Epochs : index'[f] = IF f = e THEN row ELSE index[f]
    BY <1>5 DEF IInv, IndexOK
  <1>9. IndexOK'
    BY <1>1, <1>2, <1>4, <1>8 DEF IInv, IndexOK
  <1>10. SettledOK'
    <2>1. \A f \in anchored \cup tomb : f \in Epochs /\ index[f] # NoLog
      BY DEF IInv, SettledOK
    <2>2. \A f \in anchored \cup tomb : index'[f] = index[f]
      BY <1>5, <1>8, <2>1
    <2> QED
      BY <1>1, <2>1, <2>2 DEF IInv, SettledOK
  <1>11. CallsOK'
    <2> DEFINE c == [pc |-> "anchor", epoch |-> e, args |-> proc[p].args, log |-> l]
    <2>1. proc' = [proc EXCEPT ![p] = c]
      <3>1. proc' = [proc EXCEPT ![p] = [pc |-> "anchor", epoch |-> proc[p].epoch,
                                         args |-> proc[p].args, log |-> proc[p].log]]
        BY <1>1, CallGoto
      <3> QED
        BY <1>2, <3>1
    <2>2. /\ c = [pc |-> c.pc, epoch |-> c.epoch, args |-> c.args, log |-> c.log]
          /\ c.pc = "anchor" /\ c.epoch = e /\ c.log = l
      OBVIOUS
    <2> HIDE DEF c
    <2>3. proc'[p] = c
      BY <2>1 DEF IInv, CallsOK
    <2>4. CallOK(p)'
      BY <1>1, <1>2, <1>3, <2>2, <2>3 DEF CallOK
    <2> QED
      BY <1>1, <1>6, <2>1, <2>2, <2>4, CallMoves
  <1> QED
    BY <1>7, <1>9, <1>10, <1>11 DEF IInv

LEMMA AnchorReturnsStep ==
    ASSUME IInv, NEW p \in Procs, AnchorReturns(p)
    PROVE  IInv'
  <1>1. /\ proc[p].pc = "anchor" /\ proc' = [proc EXCEPT ![p] = Idle]
        /\ UNCHANGED <<member, marker, index, tomb>>
    BY DEF AnchorReturns, At
  <1>2. PICK e \in Epochs : e = proc[p].epoch
    BY <1>1 DEF IInv, CallsOK, CallOK, IndexOK
  <1>3. index[e] # NoLog /\ e \notin tomb /\ anchored' = anchored \cup {e}
    BY <1>2 DEF AnchorReturns, Served
  <1>4. Grows /\ anchored' \subseteq Epochs
    BY <1>1, <1>3 DEF Grows, IInv, SettledOK
  <1>5. MembersOK'
    BY <1>1, <1>4, StoreKept
  <1>6. IndexOK' /\ SettledOK'
    BY <1>1, <1>3 DEF IInv, IndexOK, SettledOK
  <1>7. Idle = [pc |-> Idle.pc, epoch |-> Idle.epoch, args |-> Idle.args, log |-> Idle.log]
        /\ Idle.pc = "idle"
    BY DEF Idle
  <1>8. CallOK(p)'
    <2>1. proc'[p] = Idle
      BY <1>1 DEF IInv, CallsOK
    <2> QED
      BY <1>7, <2>1 DEF CallOK, Idle
  <1>9. CallsOK'
    BY <1>1, <1>4, <1>7, <1>8, CallMoves
  <1> QED
    BY <1>5, <1>6, <1>9 DEF IInv

LEMMA TombstoneStep ==
    ASSUME IInv, NEW e \in Epochs, MarkGapTombstone(e)
    PROVE  IInv'
  <1>1. /\ index[e] # NoLog /\ e \notin anchored /\ tomb' = tomb \cup {e}
        /\ UNCHANGED <<member, marker, index, anchored, proc>>
    BY DEF MarkGapTombstone, Served
  <1>2. Grows /\ anchored' \subseteq Epochs
    BY <1>1 DEF Grows, IInv, SettledOK
  <1>3. MembersOK'
    BY <1>1, <1>2, StoreKept
  <1>4. IndexOK' /\ SettledOK'
    BY <1>1 DEF IInv, IndexOK, SettledOK
  <1>5. CallsOK'
    BY <1>1, <1>2, CallKept DEF IInv, CallsOK
  <1> QED
    BY <1>3, <1>4, <1>5 DEF IInv

LEMMA StepInv == WriteOnce /\ IInv /\ [Next]_vars => IInv'
  <1> SUFFICES ASSUME WriteOnce, IInv, [Next]_vars PROVE IInv'
    OBVIOUS
  <1>1. ASSUME NEW p \in Procs, NEW e \in Epochs, NEW a \in Args, Call(p, e, a)
        PROVE  IInv'
    BY <1>1, CallStep
  <1>2. ASSUME NEW p \in Procs, Step(p)
        PROVE  IInv'
    BY <1>2, ReadPriorStep, EndStep, ProbeStep, PutMemberStep, FinalizeSetStep,
       RecordFinalizedStep, AnchorReturnsStep DEF Step
  <1>3. ASSUME NEW e \in Epochs, MarkGapTombstone(e)
        PROVE  IInv'
    BY <1>3, TombstoneStep
  <1>4. CASE UNCHANGED vars
    <2>1. UNCHANGED <<member, marker, index, anchored, tomb, proc>>
      BY <1>4 DEF vars
    <2>2. Grows /\ anchored' \subseteq Epochs
      BY <2>1 DEF Grows, IInv, SettledOK
    <2>3. MembersOK'
      BY <2>1, <2>2, StoreKept
    <2>4. IndexOK' /\ SettledOK'
      BY <2>1 DEF IInv, IndexOK, SettledOK
    <2>5. CallsOK'
      BY <2>1, <2>2, CallKept DEF IInv, CallsOK
    <2> QED
      BY <2>3, <2>4, <2>5 DEF IInv
  <1> QED
    BY <1>1, <1>2, <1>3, <1>4 DEF Next

LEMMA Invariance == WriteOnce => (Spec => []IInv)
  <1> SUFFICES ASSUME WriteOnce PROVE Spec => []IInv
    OBVIOUS
  <1>1. IInv /\ [Next]_vars => IInv'
    BY StepInv
  <1> QED
    BY <1>1, InitInv, PTL DEF Spec

-----------------------------------------------------------------------------
(* The history of a log.                                                   *)

(* A set that has the log, and with a log its predecessor, has the chain.  *)
LEMMA ChainIn ==
    ASSUME NEW log, NEW H, log \in H, \A l \in H : l.prior \in H \cup {NoLog}
    PROVE  Chain(log) \subseteq H
  <1> DEFINE A == {log} \ {NoLog}
             G(S) == (S \cup {l.prior : l \in S}) \ {NoLog}
             Def(g, m) == g = [n \in 0 .. m |-> IF n = 0 THEN A ELSE G(g[n - 1])]
             Bad == {m \in Nat : ~\E g : Def(g, m)}
  <1>1. Bad = {}
    <2> SUFFICES ASSUME Bad # {} PROVE FALSE
      OBVIOUS
    <2>1. PICK m \in Bad : \A k \in Bad : m <= k
      <3>1. Bad \in SUBSET Nat
        OBVIOUS
      <3> HIDE DEF Bad
      <3> QED
        BY <3>1, NatMin
    <2> HIDE DEF A, G
    <2>2. CASE m = 0
      <3>1. Def([n \in 0 .. 0 |-> A], 0)
        OBVIOUS
      <3> QED
        BY <2>2, <3>1
    <2>3. CASE m # 0
      <3>1. m - 1 \in Nat /\ m - 1 \notin Bad
        BY <2>1, <2>3
      <3>2. PICK g : Def(g, m - 1)
        BY <3>1
      <3> DEFINE h == [n \in 0 .. m |-> IF n < m THEN g[n] ELSE G(g[m - 1])]
      <3>3. \A n \in 0 .. m - 1 : g[n] = IF n = 0 THEN A ELSE G(g[n - 1])
        BY <3>2
      <3>4. ASSUME NEW n \in 0 .. m
            PROVE  h[n] = IF n = 0 THEN A ELSE G(h[n - 1])
        <4>1. CASE n = 0
          <5>1. h[n] = g[0] /\ g[0] = A
            BY <2>3, <3>1, <3>3, <4>1
          <5> QED
            BY <4>1, <5>1
        <4>2. CASE n # 0
          <5>1. n - 1 \in 0 .. m - 1 /\ h[n - 1] = g[n - 1]
            BY <3>1, <4>2
          <5>2. h[n] = G(g[n - 1])
            <6>1. CASE n < m
              <7>1. n \in 0 .. m - 1 /\ h[n] = g[n]
                BY <6>1
              <7> HIDE DEF h
              <7> QED
                BY <3>3, <4>2, <7>1
            <6>2. CASE ~(n < m)
              <7>1. n = m
                BY <6>2
              <7> QED
                BY <7>1
            <6> QED
              BY <6>1, <6>2
          <5> HIDE DEF h
          <5> QED
            BY <4>2, <5>1, <5>2
        <4> QED
          BY <4>1, <4>2
      <3>5. h = [n \in 0 .. m |-> h[n]]
        OBVIOUS
      <3> HIDE DEF h
      <3>6. Def(h, m)
        BY <3>4, <3>5
      <3> QED
        BY <3>6
    <2> QED
      BY <2>2, <2>3
  <1>2. \E g : Def(g, MaxEpoch)
    BY <1>1, FinalizerAssumption
  <1>3. PICK u : Def(u, MaxEpoch) /\ Chain(log) = u[MaxEpoch]
    <2> DEFINE v == CHOOSE g : Def(g, MaxEpoch)
    <2>1. Def(v, MaxEpoch)
      BY <1>2
    <2>2. Chain(log) = v[MaxEpoch]
      BY DEF Chain
    <2> HIDE DEF v, Def
    <2> QED
      BY <2>1, <2>2
  <1>4. \A n \in 0 .. MaxEpoch : u[n] = IF n = 0 THEN A ELSE G(u[n - 1])
    BY <1>3
  <1> DEFINE Out == {n \in 0 .. MaxEpoch : ~(u[n] \subseteq H)}
  <1>5. Out = {}
    <2> SUFFICES ASSUME Out # {} PROVE FALSE
      OBVIOUS
    <2>1. PICK n \in Out : \A k \in Out : n <= k
      <3>1. Out \in SUBSET Nat
        OBVIOUS
      <3> HIDE DEF Out
      <3> QED
        BY <3>1, NatMin
    <2>2. CASE n = 0
      BY <1>4, <2>2
    <2>3. CASE n # 0
      <3>1. n - 1 \in 0 .. MaxEpoch /\ n - 1 \notin Out
        <4>1. n \in 0 .. MaxEpoch /\ n - 1 \in 0 .. MaxEpoch /\ ~(n <= n - 1)
          BY <2>3, FinalizerAssumption
        <4> HIDE DEF Out
        <4> QED
          BY <2>1, <4>1
      <3>2. u[n - 1] \subseteq H /\ u[n] = G(u[n - 1])
        BY <1>4, <2>3, <3>1
      <3>3. u[n] \subseteq H
        BY <3>2
      <3> QED
        BY <3>3
    <2> QED
      BY <2>2, <2>3
  <1>6. MaxEpoch \in 0 .. MaxEpoch
    BY FinalizerAssumption
  <1>7. u[MaxEpoch] \subseteq H
    BY <1>5, <1>6
  <1> QED
    BY <1>3, <1>7

-----------------------------------------------------------------------------
(* What the invariant says.                                                *)

(* On a store that creates conditionally, the index points at the stored   *)
(* bytes whatever crashes, changed parameters or second finalizer came in  *)
(* between (finalizer.py finalize, index.py record_finalized).             *)
THEOREM PointerMatchesBytesCorrect == WriteOnce => (Spec => []PointerMatchesBytes)
  <1> SUFFICES ASSUME WriteOnce PROVE Spec => []PointerMatchesBytes
    OBVIOUS
  <1>1. IInv => PointerMatchesBytes
    BY DEF IInv, IndexOK, PointerMatchesBytes
  <1>2. Spec => []IInv
    BY Invariance
  <1> QED
    BY <1>1, <1>2, PTL

(* A served log continues the newest anchored epoch before it              *)
(* (service.py _prior_log_for).                                            *)
THEOREM ContinuesAnchoredCorrect == WriteOnce => (Spec => []ContinuesAnchored)
  <1> SUFFICES ASSUME WriteOnce PROVE Spec => []ContinuesAnchored
    OBVIOUS
  <1>1. IInv => ContinuesAnchored
    <2> SUFFICES ASSUME IInv, NEW e \in Epochs, Served(e)
                 PROVE  IF Before(e) = {} THEN member[e].prior = NoLog
                        ELSE member[e].prior = member[Most(Before(e))]
      BY DEF ContinuesAnchored, Before
    <2>1. Continues(e, member[e])
      BY DEF Served, IInv, IndexOK, MembersOK, GoodLog
    <2>2. CASE Before(e) = {}
      BY <2>1, <2>2 DEF Continues
    <2>3. CASE Before(e) # {}
      <3>1. PICK f \in Before(e) : (\A g \in Before(e) : g <= f) /\ member[e].prior = member[f]
        BY <2>1, <2>3 DEF Continues
      <3>2. Most(Before(e)) \in Before(e) /\ \A g \in Before(e) : g <= Most(Before(e))
        BY <3>1 DEF Most
      <3>3. \A g \in Before(e) : g \in Nat
        BY FinalizerAssumption DEF Before, IInv, SettledOK, Epochs
      <3>4. Most(Before(e)) = f
        BY <3>1, <3>2, <3>3
      <3> QED
        BY <2>3, <3>1, <3>4
    <2> QED
      BY <2>2, <2>3
  <1>2. Spec => []IInv
    BY Invariance
  <1> QED
    BY <1>1, <1>2, PTL

(* No packet is folded twice in the history of an indexed log, whatever    *)
(* cursors its caller claims (service.py _bind_fold_cursors).              *)
THEOREM FoldedOnceCorrect == WriteOnce => (Spec => []FoldedOnce)
  <1> SUFFICES ASSUME WriteOnce PROVE Spec => []FoldedOnce
    OBVIOUS
  <1>1. IInv => FoldedOnce
    <2> SUFFICES ASSUME IInv, NEW e \in Epochs, index[e] # NoLog,
                        NEW k \in Chain(index[e].digest), NEW l \in Chain(index[e].digest),
                        NEW u \in Uids, k # l
                 PROVE  k.folds[u] \cap l.folds[u] = {}
      BY DEF FoldedOnce
    <2> DEFINE H == {member[f] : f \in Before(e) \cup {e}}
    <2>1. index[e].digest = member[e] /\ GoodLog(e, member[e])
      BY DEF IInv, IndexOK, MembersOK
    <2>2. \A f \in Before(e) \cup {e} : f \in Epochs /\ f \in Nat /\ GoodLog(f, member[f])
      <3>1. \A f \in Before(e) : f \in Epochs /\ member[f] # NoLog
        BY DEF Before, IInv, SettledOK, IndexOK
      <3> QED
        BY <2>1, <3>1, FinalizerAssumption DEF IInv, MembersOK, Epochs
    <2>3. \A f \in Before(e) \cup {e} : Before(f) \subseteq Before(e)
      <3>1. \A f \in anchored : f \in Nat
        BY FinalizerAssumption DEF IInv, SettledOK, Epochs
      <3> QED
        BY <2>2, <3>1 DEF Before
    <2>4. Chain(member[e]) \subseteq H
      <3>1. member[e] \in H
        OBVIOUS
      <3>2. ASSUME NEW f \in Before(e) \cup {e}
            PROVE  member[f].prior \in H \cup {NoLog}
        <4>1. Continues(f, member[f])
          BY <2>2 DEF GoodLog
        <4> QED
          BY <2>3, <4>1 DEF Continues
      <3>3. \A m \in H : m.prior \in H \cup {NoLog}
        BY <3>2
      <3> HIDE DEF H
      <3> QED
        BY <3>1, <3>3, ChainIn
    <2>5. PICK f \in Before(e) \cup {e}, g \in Before(e) \cup {e} :
            k = member[f] /\ l = member[g]
      BY <2>1, <2>4
    <2>6. f # g /\ f \in Nat /\ g \in Nat
      BY <2>2, <2>5
    <2>7. ASSUME NEW i \in Before(e) \cup {e}, NEW j \in Before(e) \cup {e}, i < j
          PROVE  member[j].folds[u] \cap member[i].folds[u] = {}
      <3>1. i \in Before(j)
        BY <2>2, <2>7 DEF Before
      <3> QED
        BY <2>2, <3>1 DEF GoodLog
    <2>8. f < g \/ g < f
      BY <2>6
    <2> QED
      BY <2>5, <2>7, <2>8
  <1>2. Spec => []IInv
    BY Invariance
  <1> QED
    BY <1>1, <1>2, PTL

=============================================================================
