----------------------------- MODULE MCRewardWindow -----------------------------
(* Competitions for TLC: over a baseline, without one, with a failed       *)
(* rerun, and without a qualifier.                                         *)
EXTENDS RewardWindow

Outcome(scores, base, crownMin, podiumMin) ==
    [scores |-> scores, base |-> base, crownMin |-> crownMin,
     podiumMin |-> podiumMin, closes |-> TRUE]

MCOutcomes ==
    { Outcome(<<4, 3, 2, 3>>, 2, None, None),
      Outcome(<<2, 2, 1>>, 2, None, 1),
      Outcome(<<1, 3>>, 0, 3, None),
      Outcome(<<3, 3, 3>>, None, None, None),
      Outcome(<<1, 1>>, 1, None, 2) }

MCCrownSplit == <<10, 1, 1>>
MCPodiumSplit == <<2, 1, 1>>
=============================================================================
