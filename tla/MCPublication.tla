---------------------------- MODULE MCPublication ----------------------------
(***************************************************************************)
(* Publication on a small instance: two messages in one transaction        *)
(* against one of a second run, and a stranger's transaction with a        *)
(* fallible call.  Each run's drafts are one honest transaction per state  *)
(* and one that emits its last part again in the fallible phase.           *)
(***************************************************************************)
EXTENDS Publication

CONSTANTS c, emit, other, n, p, q, live, rotated, home, hash, r1, r2

Log(part, st) == [logs |-> <<Misc(n, part)>>, reads |-> st]
Call(part, st, fallible) ==
    [kind |-> "call", contract |-> c, entry |-> emit, guaranteed |-> Log(part, st), fallible |-> fallible]
Holding(actions) == [actions |-> actions, offer |-> FALSE, dust |-> FALSE]
Paying == [actions |-> <<>>, offer |-> FALSE, dust |-> TRUE]
Tx(intents) == [intents |-> intents, zswap |-> {}, form |-> "bound"]

MCTarget == [contract |-> c, entry |-> emit, name |-> n]

Pkg(s, parts) == [contract |-> c, entry |-> emit, name |-> n, segment |-> s, parts |-> parts]

\* Two packages at segments 1 and 2, one of two parts.
Two(st, fallible) ==
    Tx([s \in {1, 2} |-> IF s = 1 THEN Holding(<<Call(p, st, None), Call(p, st, None)>>)
                                  ELSE Holding(<<Call(q, st, fallible)>>)])
\* One package at segment 3, the payer's DUST spend at 4.
One(st, fallible) ==
    Tx([s \in {3, 4} |-> IF s = 3 THEN Holding(<<Call(q, st, fallible)>>) ELSE Paying])

MCAsked == [r \in Runs |-> IF r = r2 THEN <<<<q>>>> ELSE <<<<p, p>>, <<q>>>>]

MCDrafts ==
    UNION {{[run |-> r, state |-> st,
             tx |-> IF r = r2 THEN One(st, f) ELSE Two(st, f),
             packages |-> IF r = r2 THEN <<Pkg(3, <<q>>)>> ELSE <<Pkg(1, <<p, p>>), Pkg(2, <<q>>)>>] :
                f \in {None, Log(q, st)}} : r \in Runs, st \in States}

\* A stranger's call of the same contract in the fallible section, with a fallible Zswap
\* offer at a segment of the first run.
MCOthers ==
    {[Tx([s \in {5} |-> Holding(<<[kind |-> "call", contract |-> c, entry |-> other,
                                   guaranteed |-> None, fallible |-> Log(p, live)]>>)])
        EXCEPT !.zswap = {1}]}

MCPathOf == [r \in Runs |-> r1]
MCStateChanges == [st \in States |-> IF st = live THEN {rotated} ELSE {}]
MCAhead == [r \in Runs |-> IF r = r1 THEN 1 ELSE 0]
MCApart == [r \in Runs |-> r]
=============================================================================
