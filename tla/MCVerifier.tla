------------------------------ MODULE MCVerifier ------------------------------
(***************************************************************************)
(* Verifier on a small instance: two blocks, pages of two events, a limit  *)
(* of four, two lies, and three transactions that land in six ways, and    *)
(* one made up without a hash.                                             *)
(***************************************************************************)
EXTENDS Verifier

CONSTANTS c, d, emit, other, n, m, p, q, live, home, committed, rotated

Log(name, part) == [logs |-> <<Misc(name, part)>>, reads |-> live]
Call(contract, entry, guaranteed, fallible) ==
    [kind |-> "call", contract |-> contract, entry |-> entry,
     guaranteed |-> guaranteed, fallible |-> fallible]
Sole(part) == Call(c, emit, Log(n, part), None)
Holding(actions) == [actions |-> actions, offer |-> FALSE, dust |-> FALSE]
Tx(intents) == [intents |-> intents, zswap |-> {}, form |-> "bound"]
Landing(tx, succeeded, status) == [tx |-> tx, succeeded |-> succeeded, status |-> status]

Whole == Tx([s \in {1} |-> Holding(<<Sole(p), Sole(q)>>)])
Pair == Tx([s \in {1, 2} |-> IF s = 1 THEN Holding(<<Sole(q), Call(c, other, Log(m, p), None)>>)
                                      ELSE Holding(<<Sole(p)>>)])
Split == Tx([s \in {2} |-> Holding(<<Sole(q), Call(c, other, None, Log(n, p))>>)])

MCLandings == {Landing(Whole, {}, "SUCCESS"), Landing(Whole, {}, "FAILURE"),
               Landing(Pair, {}, "SUCCESS"),
               Landing(Pair, {}, "PARTIAL_SUCCESS"),    \* something else of it failed
               Landing(Split, {2}, "SUCCESS"), Landing(Split, {}, "PARTIAL_SUCCESS")}

\* The first intent of Pair without its other call and without the second intent.
MCUnhashed == <<[Tx([s \in {1} |-> Holding(<<Sole(q)>>)]) EXCEPT !.form = "unproven"]>>

MCTarget == [contract |-> c, entry |-> emit, name |-> n]
Ask(level, hash, segment, node) == [level |-> level, hash |-> hash, segment |-> segment, node |-> node]
MCRequests == {Ask(3, None, None, FALSE), Ask(1, None, None, FALSE), Ask(1, 1, None, FALSE),
               Ask(3, 1, None, TRUE), Ask(2, 2, 2, FALSE)}
=============================================================================
