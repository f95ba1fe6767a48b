----------------------------- MODULE MCPublisher -----------------------------
(***************************************************************************)
(* Publisher on a small instance: one or two packages of one or two parts, *)
(* three segments, two draws, one chain step, and one stray intent per way *)
(* a provider could spoil a package.                                       *)
(***************************************************************************)
EXTENDS Publisher

CONSTANTS c1, c2, emit, other, n, p, q, live, rotated, keyless

MCKeyed == {live, rotated}
MCAuthorised == {live, keyless}

Ask(c, parts) == [contract |-> c, entry |-> emit, name |-> n, parts |-> parts]

MCRequestLists ==
    {<<>>, <<Ask(c1, <<p, p, q>>)>>,
     <<Ask(c1, <<p, q>>), Ask(c1, <<q>>)>>, <<Ask(c1, <<p>>), Ask(c2, <<p>>)>>}

Ran(events, nested, coins) ==
    [contract |-> c1, entry |-> emit, events |-> events, nested |-> nested, coins |-> coins]

MCStrayExecutions ==
    {Ran(<<>>, FALSE, FALSE), Ran(<<Misc(n, q), Misc(n, q)>>, FALSE, FALSE),
     Ran(<<Misc(n, q)>>, FALSE, TRUE)}

Call(entry, guaranteed, fallible) ==
    [kind |-> "call", contract |-> c1, entry |-> entry,
     guaranteed |-> guaranteed, fallible |-> fallible]

Log(parts) == [logs |-> [k \in DOMAIN parts |-> Misc(n, parts[k])], reads |-> live]
Sole(part) == Call(emit, Log(<<part>>), None)
Holding(actions, dust) == [actions |-> actions, offer |-> FALSE, dust |-> dust]

MCStrayIntents ==
    {Holding(<<>>, TRUE),                                             \* the payer's DUST spend
     Holding(<<Sole(q), Sole(p)>>, FALSE),                            \* parts reordered
     Holding(<<Sole(p), Sole(q)>>, TRUE),                             \* DUST spend in the package
     Holding(<<Sole(p), Call(emit, Log(<<q>>), Log(<<q>>))>>, FALSE), \* emits again, fallibly
     Holding(<<Sole(p), Sole(q), Call(other, Log(<<q>>), None)>>, FALSE), \* a call too many
     Holding(<<Sole(p), Call(emit, [Log(<<q>>) EXCEPT !.reads = rotated], None)>>, FALSE)}
=============================================================================
