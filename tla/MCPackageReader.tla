--------------------------- MODULE MCPackageReader ---------------------------
(***************************************************************************)
(* PackageReader on a small instance: transactions of one or two intents   *)
(* with whole packages, repeated payloads, fallible, foreign, unreadable   *)
(* and nested-in-one-intent logs, and up to four deliveries.              *)
(***************************************************************************)
EXTENDS PackageReader

CONSTANTS c, d, emit, other, n, m, p, q, live, home, away, hash

Log(parts) == [logs |-> [k \in DOMAIN parts |-> Misc(n, parts[k])], reads |-> live]
Unread(kind) == [logs |-> <<Misc(n, p), [kind |-> kind]>>, reads |-> live]
Call(contract, entry, guaranteed, fallible) ==
    [kind |-> "call", contract |-> contract, entry |-> entry,
     guaranteed |-> guaranteed, fallible |-> fallible]
Sole(part) == Call(c, emit, Log(<<part>>), None)
Holding(actions) == [actions |-> actions, offer |-> FALSE, dust |-> FALSE]
Tx(intents) == [intents |-> intents, zswap |-> {}, form |-> "bound"]

MCCandidates ==
    {Tx([s \in {1} |-> Holding(<<Sole(p), Sole(p)>>)]),
     Tx([s \in {1, 2} |-> IF s = 1 THEN Holding(<<Sole(q)>>) ELSE Holding(<<Sole(p)>>)]),
     Tx([s \in {2} |-> Holding(<<Sole(p), Call(d, emit, Log(<<q>>), None)>>)]),
     Tx([s \in {1} |-> Holding(<<Call(c, emit, Log(<<p>>), Log(<<q>>)), Sole(q)>>)]),
     Tx([s \in {1} |-> Holding(<<Sole(p), Call(c, other, None, Log(<<q>>))>>)]),
     Tx([s \in {1} |-> Holding(<<Sole(q), Call(c, emit, Unread("garbled"), None)>>)]),
     Tx([s \in {1} |-> Holding(<<Sole(q), Call(c, emit, Unread("misshaped"), None)>>)])}

MCTarget == [contract |-> c, entry |-> emit, name |-> n]
MCReadOptions == [optIns |-> {<<c, n>>}, network |-> home, maxEvents |-> 3, maxGroups |-> 1]
MCNoise ==
    {Event(home, c, hash, 1, 1, Value(m, p)),       \* another name
     Event(home, d, hash, 1, 1, Value(n, p)),       \* another contract
     Event(away, c, hash, 1, 1, Value(n, p)),       \* another network
     Event(home, c, hash, 0, 1, Value(n, p))}       \* not an intent's segment
=============================================================================
