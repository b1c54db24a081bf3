----------------------------- MODULE SharedSnapshot -----------------------------
(***************************************************************************)
(* How a thin validator turns the authority's latest epoch into a weight   *)
(* intent: SharedSnapshotProvider of vidaio/weightsetter/shared_snapshot.py,*)
(* and the parts of WeightSetter.attempt_once that use it (the boundary    *)
(* re-check, the epoch floor, the uid/hotkey binding, the recovery of an   *)
(* intent's packets).                                                      *)
(*                                                                         *)
(* The pointer, the marker, the bytes and the anchor are read one after    *)
(* the other from four sources while the authority publishes, the chain    *)
(* closes epochs and uids are recycled.  In a world that is not faithful   *)
(* the API and the store may answer anything; the chain is believed in     *)
(* every world.                                                            *)
(*                                                                         *)
(* A digest is the document it names.                                      *)
(***************************************************************************)
EXTENDS Integers, Sequences, SequencesExt

CONSTANTS
    MaxEpoch,   \* bound of the model: epochs
    Worlds,     \* the surroundings to explore, see below
    Scale,      \* the sum of a weight vector, 65535
    Uids,       \* uids of the subnet
    Hotkeys,    \* hotkeys that may hold them
    Registered, \* the hotkey each uid starts with
    Owner,      \* the uid of the subnet owner
    MaxIntents, \* bound of the model: intents
    None

Epochs == 1 .. MaxEpoch

(* A world: whether the API and the store answer what the authority        *)
(* published, the documents an epoch log may be, and the bounds on closed  *)
(* epochs and recycled uids.                                               *)
Docs == UNION {w.docs : w \in Worlds}

(* A document: its epoch, its u16 pairs, its census pairs, and the sink    *)
(* uid or None.                                                            *)
ASSUME SnapshotAssumption ==
    /\ MaxEpoch \in Nat /\ Scale \in Nat /\ Owner \in Uids
    /\ \A d \in Docs : d.epoch \in Epochs
    /\ \A w \in Worlds : w.faithful \in BOOLEAN /\ w.epochs <= MaxEpoch /\ w.moves \in Nat
    /\ Registered \in [Uids -> Hotkeys] /\ IsInjective(Registered)

VARIABLES
    world,     \* the world of this behaviour
    closed,    \* the latest finalized closed epoch
    anchors,   \* the digest on chain for each epoch
    holder,    \* the hotkey that holds each uid
    store,     \* the log object of each epoch
    marked,    \* epochs with a _FINALIZED marker
    served,    \* epochs the authority's index serves
    proved,    \* those of them with an indexed anchor
    pc,        \* where the attempt is
    pointer,   \* the pointer it fetched
    doc,       \* the bytes it mirrored
    binding,   \* the hotkey it bound each target to
    verdict,   \* how the last attempt ended
    intents,   \* weight_intents: the documents admitted, in order
    written,   \* vectors handed to the chain
    packets,   \* packet sets recovered for intents
    since,     \* ghost: closed when the bytes of this attempt were verified
    moves      \* recycled uids so far

chain     == <<world, closed, anchors, holder, moves>>
authority == <<store, marked, served, proved>>
attempt   == <<pc, pointer, doc, binding, since>>
durable   == <<intents, written, packets>>
vars      == <<chain, authority, attempt, durable, verdict>>

Pointers == [epoch : Epochs, digest : Docs, anchored : BOOLEAN]
Claims == [epoch : 1 .. world.epochs, digest : world.docs, anchored : BOOLEAN]

Init ==
    /\ world \in Worlds
    /\ closed = 0 /\ anchors = [e \in Epochs |-> None]
    /\ holder = Registered /\ moves = 0
    /\ store = [e \in Epochs |-> None]
    /\ marked = {} /\ served = {} /\ proved = {}
    /\ pc = "idle" /\ pointer = None /\ doc = None /\ binding = None
    /\ verdict = "none" /\ since = 0
    /\ intents = <<>> /\ written = {} /\ packets = {}

-----------------------------------------------------------------------------
(* The chain and the authority.                                            *)

CloseEpoch ==
    /\ closed < world.epochs
    /\ closed' = closed + 1
    /\ UNCHANGED <<world, anchors, holder, moves, authority, attempt, durable, verdict>>

(* A uid is recycled: a hotkey without one takes the slot.                 *)
Recycle(u, h) ==
    /\ moves < world.moves
    /\ \A v \in Uids : holder[v] # h
    /\ holder' = [holder EXCEPT ![u] = h]
    /\ moves' = moves + 1
    /\ UNCHANGED <<world, closed, anchors, authority, attempt, durable, verdict>>

(* The authority publishes a closed epoch: object, marker, index, anchor,  *)
(* indexed anchor (EpochFinalizer, AuthorityAnchor).                       *)
Publish(e) ==
    /\ e <= closed
    /\ \/ /\ store[e] = None
          /\ \E d \in world.docs : d.epoch = e /\ store' = [store EXCEPT ![e] = d]
          /\ UNCHANGED <<marked, served, proved, anchors>>
       \/ /\ store[e] # None /\ e \notin marked
          /\ marked' = marked \cup {e} /\ UNCHANGED <<store, served, proved, anchors>>
       \/ /\ e \in marked /\ e \notin served
          /\ served' = served \cup {e} /\ UNCHANGED <<store, marked, proved, anchors>>
       \/ /\ e \in served /\ anchors[e] = None
          /\ anchors' = [anchors EXCEPT ![e] = store[e]]
          /\ UNCHANGED <<store, marked, served, proved>>
       \/ /\ anchors[e] # None /\ e \notin proved
          /\ proved' = proved \cup {e} /\ UNCHANGED <<store, marked, served, anchors>>
    /\ UNCHANGED <<world, closed, holder, moves, attempt, durable, verdict>>

(* GET /epoch/latest and GET /epoch/{id}                                   *)
PointerOf(e) == [epoch |-> e, digest |-> store[e], anchored |-> e \in proved]
Newest == {e \in served : \A f \in served : f <= e}
LatestPointers == IF world.faithful THEN {PointerOf(e) : e \in Newest} ELSE Claims
PointersFor(e) == IF ~world.faithful THEN Claims
                  ELSE IF e \in served THEN {PointerOf(e)} ELSE {}

(* get_set_member, once the marker is there                                *)
BytesOf(e) == IF ~world.faithful THEN world.docs ELSE IF e \in marked THEN {store[e]} ELSE {}

(* latest_closed_epoch with its second exact lookup: one finalized view,   *)
(* which may be a node's that trails by one epoch.                         *)
Boundaries == {b \in {closed - 1, closed} : b > 0}

-----------------------------------------------------------------------------
(* parse_authority_submission: what makes a log submittable.               *)

Ascending(s) == \A i, j \in DOMAIN s : i < j => s[i][1] < s[j][1]
Values(s) == {s[i][2] : i \in DOMAIN s}
Keyed(s) == {s[i][1] : i \in DOMAIN s}

UsableVector(d) ==
    /\ d.pairs # <<>>
    /\ Ascending(d.pairs)
    /\ Values(d.pairs) \subseteq 1 .. Scale
    /\ FoldSeq(LAMBDA p, sum : p[2] + sum, 0, d.pairs) = Scale

UsableCensus(d) ==
    /\ Ascending(d.census)
    /\ \A i, j \in DOMAIN d.census : i # j => d.census[i][2] # d.census[j][2]

TargetsBound(d) == Keyed(d.pairs) \ Keyed(d.census) \subseteq {d.burn}

Parses(d, p) ==
    /\ d.epoch = p.epoch
    /\ UsableVector(d) /\ UsableCensus(d) /\ TargetsBound(d)

-----------------------------------------------------------------------------
(* _resolve: pointer, boundary, marker, bytes, three-way digest, parse.    *)

Hold   == pc' = "idle" /\ verdict' = "hold"
Refuse == pc' = "idle" /\ verdict' = "refuse"
Going(next) == pc' = next /\ UNCHANGED verdict

(* _fetch_pointer, after the last resolution is forgotten                  *)
FetchPointer ==
    /\ pc = "idle" /\ Len(intents) < MaxIntents
    /\ \E p \in LatestPointers : pointer' = p
    /\ doc' = None /\ binding' = None /\ since' = 0
    /\ Going("boundary")
    /\ UNCHANGED <<chain, authority, durable>>

(* Mutant: a boundary ahead of the pointer is not looked for.              *)
BoundaryHoldsAtLeast(b) == pointer.epoch <= b

(* _verify_latest_pointer_boundary: the pointer is the latest closed epoch.*)
BoundaryHolds(b) == pointer.epoch = b

VerifyBoundary ==
    /\ pc = "boundary"
    /\ \E b \in Boundaries :
          IF BoundaryHolds(b) THEN Going("bytes") ELSE Hold
    /\ UNCHANGED <<chain, authority, pointer, doc, binding, since, durable>>

(* _fetch_authenticated_bytes: the marker, then the object                 *)
MirrorBytes ==
    /\ pc = "bytes"
    /\ \E d \in BytesOf(pointer.epoch) : doc' = d
    /\ Going("digest")
    /\ UNCHANGED <<chain, authority, pointer, binding, since, durable>>

(* Mutant: what the chain does not hold is not compared.                   *)
AnchorAgreesIfAny(p) == anchors[p.epoch] \in {None, p.digest}

(* The anchor is read at the pointer's block; absent is a disagreement.    *)
AnchorAgrees(p) == anchors[p.epoch] = p.digest

(* Mutant: an epoch that is not anchored yet is refused, not held.         *)
VerifyDigestHasty ==
    /\ pc = "digest"
    /\ IF doc # pointer.digest \/ ~AnchorAgrees(pointer)
       THEN Refuse ELSE Going("parse")
    /\ since' = closed
    /\ UNCHANGED <<chain, authority, pointer, doc, binding, durable>>

(* _verify_digest_chain: bytes, pointer, chain.  An unanchored pointer     *)
(* holds; any inequality refuses.                                          *)
VerifyDigest ==
    /\ pc = "digest"
    /\ CASE doc # pointer.digest -> Refuse
         [] doc = pointer.digest /\ ~pointer.anchored -> Hold
         [] doc = pointer.digest /\ pointer.anchored ->
              IF AnchorAgrees(pointer) THEN Going("parse") ELSE Refuse
    /\ since' = closed
    /\ UNCHANGED <<chain, authority, pointer, doc, binding, durable>>

(* _resolve_from_pointer: only the submission view can refuse; what the    *)
(* strict audit model thinks of the log is reported.                       *)
Parse ==
    /\ pc = "parse"
    /\ IF Parses(doc, pointer) THEN Going("bind") ELSE Refuse
    /\ UNCHANGED <<chain, authority, pointer, doc, binding, since, durable>>

Targets == Keyed(doc.pairs)
CensusHotkey(d, u) == d.census[CHOOSE i \in DOMAIN d.census : d.census[i][1] = u][2]

(* _submission_hotkey_binding: a paid sink is re-bound to the live owner;  *)
(* every other target keeps its census hotkey, and must have one.          *)
Bind ==
    /\ pc = "bind"
    /\ IF (doc.burn \in Targets /\ doc.burn # Owner) \/ ~TargetsBound(doc)
       THEN Hold /\ UNCHANGED binding
       ELSE /\ binding' = [u \in Targets |->
                  IF u = doc.burn THEN holder[u] ELSE CensusHotkey(doc, u)]
            /\ Going("recheck")
    /\ UNCHANGED <<chain, authority, pointer, doc, since, durable>>

(* latest_snapshot_epoch_id: no older epoch than one already admitted      *)
AboveFloor == \A i \in DOMAIN intents : intents[i].epoch <= doc.epoch

(* _shared_epoch_is_safe re-reads the boundary, then the intent is         *)
(* recorded.                                                               *)
RecordIntent ==
    /\ pc = "recheck"
    /\ \E b \in Boundaries :
          IF BoundaryHolds(b) /\ AboveFloor
          THEN intents' = Append(intents, doc) /\ Going("write")
          ELSE Hold /\ UNCHANGED intents
    /\ UNCHANGED <<chain, authority, pointer, doc, binding, since, written, packets>>

(* Mutant: the targets are checked against the view the binding was made   *)
(* from.                                                                   *)
TargetsUnmovedThen == TRUE

(* _reconcile_targets, on a metagraph fetched for this write; the          *)
(* inclusion that follows is WeightSetter's                                *)
TargetsUnmoved == \A u \in Targets : holder[u] = binding[u]

Write ==
    /\ pc = "write"
    /\ written' = IF TargetsUnmoved
                  THEN written \cup {[doc |-> doc, paid |-> [u \in Targets |-> holder[u]]]}
                  ELSE written
    /\ pc' = "idle" /\ verdict' = "none"
    /\ UNCHANGED <<chain, authority, pointer, doc, binding, since, intents, packets>>

(* A source is unreachable, or the process dies: the attempt is over.      *)
Unavailable ==
    /\ pc # "idle"
    /\ Hold
    /\ UNCHANGED <<chain, authority, pointer, doc, binding, since, durable>>

(* score_packet_digests_for_epoch: by id, and the pointer must carry the   *)
(* digest frozen in the intent.                                            *)
PacketsFor(i, p, d) ==
    /\ p.digest = intents[i]
    /\ d = p.digest /\ p.anchored /\ AnchorAgrees(p) /\ Parses(d, p)

(* Publication asks for the packets of an old intent while the next        *)
(* attempt resolves.                                                       *)
RecoverPackets(i) ==
    /\ \E p \in PointersFor(intents[i].epoch) : \E d \in BytesOf(p.epoch) :
          /\ PacketsFor(i, p, d)
          /\ packets' = packets \cup {[intent |-> i, from |-> d]}
    /\ UNCHANGED <<chain, authority, attempt, intents, written, verdict>>

Next ==
    \/ CloseEpoch
    \/ \E u \in Uids, h \in Hotkeys : Recycle(u, h)
    \/ \E e \in Epochs : Publish(e)
    \/ FetchPointer \/ VerifyBoundary \/ MirrorBytes \/ VerifyDigest \/ Parse
    \/ Bind \/ RecordIntent \/ Write \/ Unavailable
    \/ \E i \in DOMAIN intents : RecoverPackets(i)

Spec == Init /\ [][Next]_vars

-----------------------------------------------------------------------------
(* Properties.                                                             *)

(* Every variable stays in its domain.                                     *)
TypeOK ==
    /\ world \in Worlds /\ closed \in 0 .. world.epochs /\ moves \in 0 .. world.moves
    /\ anchors \in [Epochs -> Docs \cup {None}]
    /\ store \in [Epochs -> Docs \cup {None}]
    /\ proved \subseteq served /\ served \subseteq marked /\ marked \subseteq Epochs
    /\ holder \in [Uids -> Hotkeys]
    /\ pc \in {"idle", "boundary", "bytes", "digest", "parse", "bind", "recheck", "write"}
    /\ verdict \in {"none", "hold", "refuse"}
    /\ pc \notin {"idle", "boundary"} => pointer \in Pointers
    /\ pc \in {"parse", "bind", "recheck", "write"} => doc \in Docs
    /\ pc \in {"recheck", "write"} => DOMAIN binding = Targets

(* Whatever the API and the store answer, an admitted intent carries the   *)
(* document the chain holds for its epoch (_verify_digest_chain).          *)
AdmittedIsAnchored == \A i \in DOMAIN intents : anchors[intents[i].epoch] = intents[i]

(* An epoch that had closed when the bytes were verified is not passed     *)
(* over: the intent admitted after it is at most the one epoch older that  *)
(* a trailing node may report (_verify_latest_pointer_boundary, read       *)
(* again after the bytes are parsed).                                      *)
AdmittedIsCurrent ==
    [][Len(intents') > Len(intents) => intents'[Len(intents')].epoch >= since - 1]_vars

(* What can be paid, stated of the vector as a function: it sums to Scale, *)
(* every target is the sink or has one hotkey, no hotkey is paid under two *)
(* uids.                                                                   *)
Payable(d) ==
    LET amount[u \in Keyed(d.pairs)] ==
          CHOOSE v \in Values(d.pairs) : \E i \in DOMAIN d.pairs : d.pairs[i] = <<u, v>>
        names(u) == {d.census[i][2] : i \in {j \in DOMAIN d.census : d.census[j][1] = u}}
    IN  /\ \E s \in [1 .. Len(d.pairs) -> Keyed(d.pairs)] :
              /\ IsInjective(s)
              /\ FoldSeq(LAMBDA u, sum : amount[u] + sum, 0, s) = Scale
        /\ \A u \in Keyed(d.pairs) : u # d.burn =>
              \E h \in Hotkeys : names(u) = {h} /\ \A v \in Keyed(d.census) \ {u} : h \notin names(v)

AdmittedIsPayable == \A i \in DOMAIN intents : Payable(intents[i])

(* A written vector pays the hotkeys that earned it: a slot recycled       *)
(* between census, binding and the metagraph read of the write is never    *)
(* paid (set_weights).                                                     *)
PaysWhoEarned ==
    \A w \in written : \A u \in DOMAIN w.paid : u # w.doc.burn =>
        \E i \in DOMAIN w.doc.census : w.doc.census[i] = <<u, w.paid[u]>>

(* The packets published for an intent are those of its own document,      *)
(* however often the authority's pointer has moved on                      *)
(* (score_packet_digests_for_epoch).                                       *)
PacketsBelong == \A q \in packets : q.from = intents[q.intent]

(* What a validator acts on is the anchored document: the vector it admits *)
(* can be paid, and the packets it publishes for it are that document's.   *)
IntentIsTheDocument == AdmittedIsAnchored /\ AdmittedIsPayable /\ PacketsBelong

(* A faithful authority is never accused: what it publishes is held while  *)
(* it is incomplete and never refused, in whatever order the four sources  *)
(* are read (HOLD and REFUSE of attempt_once).                             *)
FaithfulNeverRefused == world.faithful => verdict # "refuse"
=============================================================================
