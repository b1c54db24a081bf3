--------------------------- MODULE MCSharedSnapshot ---------------------------
(* Documents for TLC: for each epoch an honest log, one with another       *)
(* vector, and logs that parse_authority_submission must refuse.           *)
EXTENDS SharedSnapshot

FirstHolders == <<"h1", "h2", "h3">>

Doc(e, pairs, census, burn) ==
    [epoch |-> e, pairs |-> pairs, census |-> census, burn |-> burn]

Census == <<<<1, "h1">>, <<2, "h2">>>>
Honest(e) == Doc(e, <<<<1, 2>>, <<2, 1>>>>, Census, None)
Sinking(e) == Doc(e, <<<<1, 1>>, <<3, 2>>>>, Census, 3)

HonestDocs == {Honest(e) : e \in Epochs} \cup {Sinking(MaxEpoch)}

OddDocs ==
    {Honest(1), Honest(2)} \cup
    { Doc(1, <<<<1, 3>>>>, Census, None),
      Doc(1, <<<<1, 2>>, <<3, 1>>>>, Census, None),
      Doc(1, <<<<1, 2>>, <<1, 1>>>>, Census, None),
      Doc(1, <<<<1, 2>>, <<2, 2>>>>, Census, None),
      Doc(1, <<<<1, 2>>, <<2, 1>>>>, <<<<1, "h1">>, <<2, "h1">>>>, None) }

MCWorlds ==
    { [faithful |-> TRUE, docs |-> HonestDocs, epochs |-> 3, moves |-> 2],
      [faithful |-> FALSE, docs |-> OddDocs, epochs |-> 2, moves |-> 0] }
=============================================================================
