---------------------------- MODULE MCDeployment ----------------------------
(***************************************************************************)
(* Deployment on a small instance: two deploys that are given the same     *)
(* files, a third that reuses what is there at the first one's record      *)
(* path, two pins with different digests on a board that exists, and a     *)
(* pin on the first deploy's board.                                        *)
(***************************************************************************)
EXTENDS Deployment

CONSTANTS pin, emitPart, d1, d2, d3, p1, p2, p3, c1, c2, c3, board, stranger,
          x1, x2, x3, drawnFile, keyFile, keptFile, g1, g2

MCTeams == {{d1, d2}, {d1, d3}, {p1, p2}, {d1, p3}}
MCOut == [r \in Runs |-> CASE r \in {d1, d3} -> x1 [] r \in {d2, p2} -> x2 [] r \in {p1, p3} -> x3]
MCSecretFile == [r \in Runs |-> IF r \in {p1, p2} THEN keptFile ELSE drawnFile]
MCKeyFile == [r \in Runs |-> keyFile]
MCReuses == [r \in Runs |-> IF r = d3 THEN {"secret", "key"} ELSE {}]
MCAddress == [r \in Runs |-> CASE r \in {d1, p3} -> c1 [] r = d2 -> c2 [] r = d3 -> c3 [] OTHER -> board]
MCDigest == [r \in Runs |-> IF r = p2 THEN g2 ELSE g1]
MCKept == [f \in Files |-> IF f = keptFile THEN Drawn("secret", None) ELSE None]
MCGenesis ==
    [a \in Contracts |->
        IF a = board THEN [authority |-> Drawn("secret", None), committee |-> Drawn("key", None),
                           keys |-> EntryPoints, count |-> 0, digest |-> None]
        ELSE None]

\* A stranger's call in the fallible section.
MCOthers ==
    {Single(5, Alone([CallOf(stranger, emitPart, None) EXCEPT !.fallible = g1], None))}

Also(t, x, intent) == [t EXCEPT !.intents = PutIntent(@, x, intent)]

\* Prover and balancer add the fee's intent, and may spoil the transaction: another
\* digest or state, the action twice or moved, a fallible transcript, an offer.
MCAnswers(t) ==
    LET x == CHOOSE y \in DOMAIN t.intents : TRUE
        intent == t.intents[x]
        act == intent.actions[1]
        With(action) == Also(t, x, [intent EXCEPT !.actions = <<action>>])
        spoiled == IF act.kind = "call"
                   THEN {With([act EXCEPT !.guaranteed = g]) : g \in Digests}
                        \cup {With([act EXCEPT !.fallible = g1])}
                   ELSE {With([act EXCEPT !.state.keys = {}]),
                         Also(t, 5, Alone(CallOf(act.contract, pin, g1), intent.maker))}
        moved == {Also(t, 5, intent), Single(5, intent)}
        laden == {Also(t, x, [intent EXCEPT !.actions = @ \o @]),
                  Also(t, x, [intent EXCEPT !.offer = TRUE])}
        paying == [intent EXCEPT !.actions = <<>>, !.dust = TRUE]
    IN {Also(u, x + 2, paying) : u \in {t} \cup spoiled \cup moved \cup laden}
=============================================================================
