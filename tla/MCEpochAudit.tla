------------------------------ MODULE MCEpochAudit ------------------------------
(* Worlds of up to three uids and the logs an authority may publish about  *)
(* each: the faithful one and, for every field, what a faulty finalizer    *)
(* could put there instead, with the rest of the log made to agree.        *)
EXTENDS EpochAudit

Seat(h, c, i) == [hk |-> h, ck |-> c, ip |-> i]
S1 == Seat("h1", "k1", "i1")
S2 == Seat("h2", "k2", "i2")
S3 == Seat("h3", "k3", "i3")
Twin == Seat("h2", "k2", "i1")

Answer(u, ch, h, v, worth, content, out, res) ==
    [uid |-> u, ch |-> ch, hk |-> h, vmaf |-> v, worth |-> worth, content |-> content,
     out |-> out, res |-> res]
\* an ordinary answer: above the threshold, content and bytes of its own
Plain(u, ch, h, worth) == Answer(u, ch, h, 95, worth, h, h, <<0, 0>>)

Observation(u, ch, k, h) ==
    [uid |-> u, ch |-> ch, key |-> k, track |-> "compression", ref |-> "compression", hk |-> h,
     score |-> 0, excl |-> FALSE, kind |-> "avail"]

Dispatch(k, track, a, c, r) ==
    [key |-> k, track |-> track, anchor |-> a, commit |-> c, round |-> r, scorer |-> "w1"]
Row(seat, acc) == [hk |-> seat.hk, ck |-> seat.ck, ip |-> seat.ip, track |-> "compression",
                   acc |-> acc, excl |-> FALSE]

PriorOf(miners, census, cursors, window) ==
    [miners |-> miners, census |-> census, cursors |-> cursors, window |-> window,
     close |-> 10, roundCursor |-> 1]

Prior13 == PriorOf((1 :> Row(S1, 64)) @@ (2 :> Row(S2, 32)), (1 :> S1) @@ (2 :> S2) @@ (3 :> S3),
                   (1 :> 1) @@ (2 :> None) @@ (3 :> 1), None)

Ref(d) == [digest |-> d, bytes |-> d, tree |-> d]
Record == [root |-> "r", policy |-> "executed", start |-> 5, enrolled |-> 2,
           receipt |-> [verified |-> TRUE, root |-> "r", block |-> 3, final |-> 4, at |-> 4,
                        event |-> 1],
           onchain |-> [root |-> "r", block |-> 3, at |-> 3],
           archives |-> ("h1" :> {Ref("a1")}) @@ ("h2" :> {Ref("a2")}) @@ (None :> {Ref("b")}),
           registry |-> Ref("b"), bound |-> TRUE, damaged |-> {}, releasable |-> TRUE,
           wrong |-> {}]

\* c0 was folded before, c9 was never anchored, e1 is the competition's item
Old == {Plain(1, "c0", "h1", 64), Plain(2, "c0", "h2", 64)}
Base == [genesis |-> FALSE, prior |-> Prior13, meta |-> (1 :> S1) @@ (2 :> S2), close |-> 20,
         disp |-> ("c0" :> Dispatch(1, "compression", 2, 3, 1))
                  @@ ("c1" :> Dispatch(2, "compression", 11, 12, 2))
                  @@ ("c2" :> Dispatch(3, "compression", 13, 14, 3))
                  @@ ("c9" :> Dispatch(4, "compression", None, 15, 4))
                  @@ ("e1" :> Dispatch(5, "compression", 9, 16, 5)),
         chs |-> {"c1", "c2"}, matrix |-> {}, meas |-> Old, avail |-> {}, unwritten |-> {},
         lacks |-> {}, record |-> Record,
         order |-> ("h1" :> 2) @@ ("h2" :> 1) @@ ("h3" :> 3) @@ ("h9" :> 4)]
With(w, ms) == [w EXCEPT !.meas = @ \cup ms]

\* the first epoch: both answer, one of them a challenge of another track
Genesis == With([Base EXCEPT !.genesis = TRUE, !.prior = None, !.disp["c2"].track = "upscaling"],
                {Plain(1, "c1", "h1", 64), Plain(2, "c2", "h2", 32)})
\* two cycles of one miner, the other carried forward, a third deregistered
Carry == With(Base, {Plain(1, "c1", "h1", 16), Plain(1, "c2", "h1", 64)})
\* uid 2 has a new holder since its former one answered; uid 1 did not answer
Recycled == With([Base EXCEPT !.meta = (1 :> S1) @@ (2 :> S3),
                              !.avail = {Observation(1, "c1", 2, "h1")}],
                 {Plain(2, "c1", "h2", 32), Plain(2, "c2", "h3", 64)})
\* one content, shared; both from one address
Shared == With([Base EXCEPT !.meta = (1 :> S1) @@ (2 :> Twin),
                            !.prior.miners = (1 :> Row(S1, 64)) @@ (2 :> Row(Twin, 32))],
               {Answer(u, "c1", IF u = 1 THEN "h1" ELSE "h2", 95, 64, "same", IF u = 1 THEN "a" ELSE "b", <<0, 0>>) : u \in {1, 2}})
\* a competition opens a window: one contender is the other's twin by address,
\* and has moved to another uid since
Crowned == With([Shared EXCEPT !.meas = Old, !.matrix = {"e1"}],
                {Plain(1, "e1", "h1", 48), Plain(3, "e1", "h2", 64), Plain(None, "e1", None, 32)})
\* an answer too near the source is folded as zero
Near == With([Base EXCEPT !.meta = @ @@ (3 :> S3)],
             {Plain(1, "c1", "h1", 48), Plain(2, "c1", "h2", 32),
              [Plain(3, "c1", "h3", 64) EXCEPT !.res = <<12, 8>>]})
\* the same bytes twice, and a content shared by a uid whose witness was lost
Copied == With([Base EXCEPT !.meta = @ @@ (3 :> S3), !.unwritten = {3}],
               {Answer(u, "c1", IF u = 1 THEN "h1" ELSE "h2", 95, 64, "same", "bytes", <<0, 0>>) : u \in {1, 2}}
               \cup {Answer(1, "c2", "h1", 95, 48, "same", "a", <<0, 0>>),
                     Answer(3, "c2", "h3", 95, 48, "same", "b", <<0, 0>>)})
\* measurements on either side of the threshold and of the floor
Boundary == With([Base EXCEPT !.meta = @ @@ (3 :> S3)],
                 {Answer(1, "c1", "h1", 90, 64, "x", "x", <<0, 0>>),
                  Answer(2, "c1", "h2", 89, 64, "y", "y", <<0, 0>>),
                  Answer(3, "c1", "h3", 85, 64, "z", "z", <<0, 0>>),
                  Answer(1, "c2", "h1", 84, 64, "u", "u", <<0, 0>>)})
\* nobody is registered: the epoch burns
Empty == [Base EXCEPT !.meta = << >>]

MCWorlds == {Genesis, Carry, Recycled, Shared, Crowned, Near, Copied, Boundary, Empty}

\* competitions that have to wait: evidence that is not complete, or no winner
Deferred ==
    {[Crowned EXCEPT !.record.receipt.at = 6, !.record.wrong = {"policy"}],
     [Crowned EXCEPT !.record.receipt = None, !.record.wrong = {"policy"}],
     [Crowned EXCEPT !.record.policy = "other", !.record.wrong = {"policy"}],
     [Crowned EXCEPT !.record.bound = FALSE, !.record.wrong = {"items"}],
     [Crowned EXCEPT !.record.damaged = {<<"h1", "e1", "image">>}, !.record.wrong = {"images"}],
     [Crowned EXCEPT !.record.releasable = FALSE],
     [Crowned EXCEPT !.record.archives["h2"] = {Ref("a2"), Ref("a3")}],
     [Crowned EXCEPT !.record.registry = Ref("other")],
     [Crowned EXCEPT !.meta = 1 :> S1],
     With([Crowned EXCEPT !.meas = Old],
          {Plain(1, "e1", "h1", 16), Plain(2, "e1", "h2", 16), Plain(None, "e1", None, 32)})}

\* and one whose baseline was packed anew
Repacked == [Crowned EXCEPT !.record.archives[None] = {[Ref("b2") EXCEPT !.tree = "b"]}]

\* epochs the finalizer refuses
Refused ==
    {With([Base EXCEPT !.chs = {"c0", "c1"}], {Plain(1, "c1", "h1", 16)}),
     [Recycled EXCEPT !.avail = {Observation(1, "c1", 7, "h1")}],
     [Crowned EXCEPT !.record.onchain.root = "other", !.record.wrong = {"policy"}],
     [Carry EXCEPT !.lacks = {<<"c1", "bundle">>}],
     [Carry EXCEPT !.lacks = {<<"c2", "commitment">>}]}

\* an epoch without anything wrong is never held up
ASSUME HonestEpochsClose == \A w \in MCWorlds \cup Deferred \cup {Repacked} : FaithfulLog(w) # None

\* the rest of a log made to agree with its rows
Reweigh(l) == [l EXCEPT !.shares = build_weight_vector(l.miners, Owner, l.window),
                        !.burn = IF build_weight_vector(l.miners, None, l.window) = << >>
                                 THEN Owner ELSE None]
Drop(f, u) == [v \in DOMAIN f \ {u} |-> f[v]]
Put(f, u, x) == [v \in DOMAIN f \cup {u} |-> IF v = u THEN x ELSE f[v]]

\* a log whose earning input for u is e, everything else re-derived from it
Refold(l, u, e) ==
    Reweigh([l EXCEPT !.earn = Put(@, u, e),
        !.miners[u].acc = FoldLeft(accumulate, e.prior, folded_scores(e.cycles)),
        !.cursors[u] = IF e.cycles = << >> THEN @ ELSE Max({e.cycles[i].key : i \in DOMAIN e.cycles})])

\* packet p replaced by q in the manifest and in the fold
Forge(l, p, q) ==
    LET l2 == [l EXCEPT !.refs = (@ \ {p}) \cup {q}]
        e == l.earn[p.uid]
    IN  Refold(l2, p.uid, [e EXCEPT !.cycles = [i \in DOMAIN e.cycles |->
            IF e.cycles[i].pkt = p THEN [pkt |-> q, key |-> q.key, score |-> q.score]
            ELSE e.cycles[i]]])

\* the content index rewritten to agree with a forged original
Reindex(l, p, q) ==
    IF p.by # "measured" \/ p.ch \notin DOMAIN l.content THEN l
    ELSE [l EXCEPT !.content[p.ch].roster = {IF r = p THEN q ELSE r : r \in @}]

Remeasure(p, v, s) ==
    LET f == Measurement(v, s)
    IN  [p EXCEPT !.metrics = f.metrics, !.gate = f.gate, !.facts = f.facts, !.zero = f.zero,
                  !.score = f.score]

Forgeries(p) ==
    {[p EXCEPT !.score = 64 - @], [p EXCEPT !.key = 7], [p EXCEPT !.hk = "h9"],
     [p EXCEPT !.hk = "h9", !.b.hk = "h9"], [p EXCEPT !.b.ch = "c9"],
     [p EXCEPT !.track = "upscaling", !.ref = "upscaling"], [p EXCEPT !.track = "upscaling"],
     [p EXCEPT !.of = "w2", !.b.of = "w2"], [p EXCEPT !.backends = {"other"}],
     [p EXCEPT !.b.backends = {"other"}], [p EXCEPT !.b.corrupt = {"output"}],
     [p EXCEPT !.b.stage = "pre_reveal"], [p EXCEPT !.b.reveal = "invalid"],
     [p EXCEPT !.b.reveal = "other"], [p EXCEPT !.b.proof = FALSE],
     [p EXCEPT !.by = "validator", !.b.by = "validator"],
     [p EXCEPT !.gate = ~@]}
    \cup (IF p.by = "measured"
          THEN {Remeasure(p, 95, 16), Remeasure(p, 94, 64), Remeasure(p, 89, 64),
                Remeasure(p, 90, 64), Remeasure(p, 80, 0)}
          ELSE {})

RowEdits(h) ==
    UNION {{Reweigh([h EXCEPT !.miners[u].acc = a]) : a \in {0, 16, Excluded}}
           \cup {Reweigh([h EXCEPT !.miners[u].excl = ~@]), [h EXCEPT !.miners[u].excl = ~@],
                 Reweigh([h EXCEPT !.miners[u].track = "upscaling"]),
                 Reweigh([h EXCEPT !.miners[u].hk = "h9", !.census[u].hk = "h9"]),
                 Reweigh([h EXCEPT !.miners = Drop(@, u)]),
                 Reweigh([h EXCEPT !.miners = Drop(@, u), !.earn = Drop(@, u), !.avail = {},
                            !.refs = {p \in @ : p.uid # u}])}
           : u \in DOMAIN h.miners}

StalePacket(w, u) ==
    Original(w, CHOOSE m \in w.meas : m.ch = "c0" /\ m.uid = u)

FoldEdits(h, w) ==
    UNION {LET e == h.earn[u]
               n == Len(e.cycles)
           IN  {Refold(h, u, [e EXCEPT !.prior = 16]), Refold(h, u, [e EXCEPT !.prior = 32]),
                Refold(h, u, [e EXCEPT !.prior = 64]),
                Refold(h, u, [e EXCEPT !.cycles = Tail(@)]),
                Refold(h, u, [e EXCEPT !.cycles = @ \o <<[@[n] EXCEPT !.key = 9]>>]),
                Refold(h, u, [e EXCEPT !.cycles[1].score = 48]),
                Refold(h, u, [e EXCEPT !.cycles[1].key = 1])}
           : u \in DOMAIN h.earn}
    \cup {LET e == h.earn[u]
              p == StalePacket(w, u)
          IN  [Refold([h EXCEPT !.refs = @ \cup {p},
                                !.content = Put(@, "c0", [roster |-> {p}, skipped |-> {}]),
                                !.rounds = @ \cup {[ch |-> "c0", key |-> 1, anchor |-> 2,
                                                    commit |-> 3, round |-> 1]}],
                      u, [e EXCEPT !.cycles = <<[pkt |-> p, key |-> 1, score |-> p.score]>> \o @])
                 EXCEPT !.cursors = h.cursors]
          : u \in DOMAIN h.earn \cap {1, 2}}
    \cup UNION {{Forge(h, p, q) : q \in Forgeries(p)} \cup
                {Reindex(Forge(h, p, q), p, q) : q \in Forgeries(p)} : p \in h.refs}
    \cup {[h EXCEPT !.avail = {[p EXCEPT !.hk = "h9"]}] : p \in h.avail}

ContentEdits(h, ch) ==
    {[h EXCEPT !.content = Drop(@, ch)],
     [h EXCEPT !.content[ch].skipped = derive_components(h.content[ch].roster)]}
    \cup {[h EXCEPT !.content[ch].roster = @ \ {q}] : q \in h.content[ch].roster}
    \cup {[h EXCEPT !.content[ch].roster = (@ \ {q}) \cup {[q EXCEPT !.content = "forged"]}] :
            q \in h.content[ch].roster}

LogEdits(h) ==
    UNION {{[h EXCEPT !.cursors = Drop(@, u)], [h EXCEPT !.cursors[u] = 5],
            [h EXCEPT !.cursors[u] = None]} : u \in DOMAIN h.cursors}
    \cup UNION {{[h EXCEPT !.census = Drop(@, u)], [h EXCEPT !.census[u].ip = "i9"]} :
                u \in DOMAIN h.census}
    \cup {[h EXCEPT !.prior = p] : p \in {"none", "other"}}
    \cup {[h EXCEPT !.shape = s] : s \in {"invalid", "duplicate", "unexpected"}}
    \cup {[h EXCEPT !.shares = << >>, !.burn = Owner], [h EXCEPT !.burn = 7],
          [h EXCEPT !.created = "skewed"], [h EXCEPT !.roundCursor = 6],
          [h EXCEPT !.rounds = {}], [h EXCEPT !.rounds = {[r EXCEPT !.commit = 9] : r \in @}],
          [h EXCEPT !.rounds = {[r EXCEPT !.anchor = 12] : r \in @}],
          Reweigh([h EXCEPT !.window = "h1"]), Reweigh([h EXCEPT !.window = None])}
    \cup UNION {ContentEdits(h, ch) : ch \in DOMAIN h.content}

Rejudged(h, its, excl) ==
    LET c == [h.comp EXCEPT !.items = its, !.excl = excl]
        r == derive_competition_economics(c)
    IN  Reweigh([h EXCEPT !.comp = c, !.result = r,
                          !.window = resolve_reward_window(None, r, h.census)])

CompetitionEdits(h) ==
    IF h.comp = None THEN {}
    ELSE {[h EXCEPT !.comp.broken = {b}] : b \in {"policy", "items", "images"}}
         \cup {[h EXCEPT !.comp.archive = "corrupt"], [h EXCEPT !.comp = None],
               Reweigh([h EXCEPT !.comp = None, !.result = None, !.window = None]),
               [h EXCEPT !.result.base = 0], Rejudged(h, h.comp.items, {})}
         \cup UNION {{Rejudged(h, (h.comp.items \ {p}) \cup {q}, h.comp.excl) :
                         q \in {Remeasure(p, 95, 64), Remeasure(p, 95, 16),
                                [p EXCEPT !.hk = "h9", !.b.hk = "h9"], [p EXCEPT !.ctx.manifest = "other"],
                                [p EXCEPT !.ctx.threshold = "other"], [p EXCEPT !.b.stage = "sealed"],
                                [p EXCEPT !.ctx.track = "upscaling"]}} : p \in h.comp.items}

Faithful == {<<w, FaithfulLog(w)>> : w \in MCWorlds \cup Deferred \cup Refused \cup {Repacked}}

Edits(w, h) == RowEdits(h) \cup FoldEdits(h, w) \cup LogEdits(h) \cup CompetitionEdits(h)

\* every faithful log, and every edit of the ones of MCWorlds
MCCases ==
    {[world |-> f[1], log |-> f[2]] : f \in {g \in Faithful : g[2] # None}}
    \cup UNION {{[world |-> f[1], log |-> l] : l \in Edits(f[1], f[2])}
                : f \in {g \in Faithful : g[1] \in MCWorlds}}

MCOutages == {{}} \cup {{e} : e \in Evidence} \cup {{"packets", "bundles"}, {"prior", "metagraph"}}
MCExcluded == -1
MCProtocol == {"compression", "upscaling"}
MCSamples == {0, 9}
=============================================================================
