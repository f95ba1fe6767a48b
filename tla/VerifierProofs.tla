----------------------------- MODULE VerifierProofs -----------------------------
(***************************************************************************)
(* Theorems of Verifier for any chain, any page size and an indexer that   *)
(* lies as often as it likes.                                              *)
(***************************************************************************)
EXTENDS Verifier, PackagesProofs

-----------------------------------------------------------------------------
(* The inductive invariant, in named parts *)

Blocks ==
    {[tx |-> x[1].tx, succeeded |-> x[1].succeeded, status |-> x[1].status, key |-> x[2]] :
        x \in Landings \X Keys}

Bytes == DOMAIN chain \cup Forged \cup {Garbage, Missing}

Shape ==
    /\ chain \in Seq(Blocks) /\ Len(chain) <= MaxBlocks
    /\ request \in Requests
    /\ \A h \in DOMAIN known : known[h] \in Bytes /\ (known[h] # Missing => h \in DOMAIN chain)

\* Bytes that Level 2 lets pass for a hash: the transaction's own, or made-up ones
\* without a hash when no node was asked.
Passes(h, raw) == raw = h \/ (raw \in Forged /\ ~request.node)

\* What was found out about a transaction is about Level 2, and if it is all good then
\* the transaction is included and the bytes are some that pass for its hash.
FactsHold ==
    \A h \in DOMAIN facts :
        /\ facts[h].raw \in Bytes
        /\ \A c \in facts[h].checks : c.level = 2
        /\ (\A c \in facts[h].checks : c.ok) =>
                h \in DOMAIN chain /\ Passes(h, facts[h].raw) /\ chain[h].status \in Included

\* A package at Level 2 is of an included transaction, and the bytes that passed for its
\* hash, read at its own intent, log these parts from the committed circuit and nothing
\* else under the name.
Placed(p) ==
    p.level >= 2 =>
        /\ p.hash \in DOMAIN chain /\ chain[p.hash].status \in Included
        /\ p.hash \in DOMAIN facts /\ Passes(p.hash, facts[p.hash].raw)
        /\ PlacementOK(Decoded(facts[p.hash].raw), Target, p.segment, p.parts)

\* At Level 3 its circuit had the committed key at the transaction's own block.
Committed(p) == p.level = 3 => chain[p.hash].key = ExpectedKey

\* There is a report at the end only, and its levels mean this.
ReportLast ==
    report # None => pc = "done" /\ \A p \in report : Placed(p) /\ Committed(p)

IInv ==
    /\ Shape
    /\ FactsHold
    /\ ReportLast

-----------------------------------------------------------------------------
(* Bytes *)

\* Bytes made up, those of a block and those that are none are three things; only those
\* of a block have a hash of their own.
LEMMA BytesAre ==
    ASSUME Shape
    PROVE  /\ \A b \in DOMAIN chain :
                /\ b \notin Forged /\ b \notin {Missing, Garbage}
                /\ Decoded(b) = chain[b].tx /\ IsTx(chain[b].tx)
                /\ OwnHash(b) = b /\ b # None
           /\ \A b \in Forged :
                b \notin {Missing, Garbage} /\ IsTx(Decoded(b)) /\ OwnHash(b) = None
<1>1. /\ DOMAIN chain = 1..Len(chain) /\ Len(chain) \in Nat /\ Len(chain) <= MaxBlocks
      /\ \A b \in DOMAIN chain : chain[b] \in Blocks
    <2>1. chain \in Seq(Blocks) /\ Len(chain) <= MaxBlocks
        BY DEF Shape
    <2> QED BY <2>1, LenProperties, ElementOfSeq
<1>2. ASSUME NEW b \in DOMAIN chain
      PROVE  /\ b \notin Forged /\ b \notin {Missing, Garbage}
             /\ Decoded(b) = chain[b].tx /\ IsTx(chain[b].tx)
             /\ OwnHash(b) = b /\ b # None
    <2>1. b \in 1..MaxBlocks /\ b \in Hashes
        BY <1>1, <1>2, VerifierAssumption
    <2>2. b # None /\ b \notin {Missing, Garbage}
        BY <2>1, VerifierAssumption DEF Missing, Garbage
    <2>3. b \notin Forged
        <3>1. \A i \in DOMAIN Unhashed : i \in Nat \ {0}
            BY VerifierAssumption
        <3>2. \A i \in DOMAIN Unhashed : b # (MaxBlocks + 1) + i
            BY <2>1, <3>1, VerifierAssumption
        <3> QED BY <3>2 DEF Forged, Missing
    <2>4. PICK x \in Landings \X Keys :
            chain[b] = [tx |-> x[1].tx, succeeded |-> x[1].succeeded, status |-> x[1].status, key |-> x[2]]
        BY <1>1, <1>2 DEF Blocks
    <2>5. chain[b].tx = x[1].tx /\ x[1] \in Landings
        BY <2>4
    <2>6. IsTx(chain[b].tx) /\ chain[b].tx.form = "bound"
        BY <2>5, VerifierAssumption
    <2>7. Decoded(b) = chain[b].tx
        BY <2>3 DEF Decoded
    <2> QED BY <2>2, <2>3, <2>6, <2>7 DEF OwnHash
<1>3. ASSUME NEW b \in Forged
      PROVE  b \notin {Missing, Garbage} /\ IsTx(Decoded(b)) /\ OwnHash(b) = None
    <2>1. PICK i \in DOMAIN Unhashed : b = Missing + i
        BY <1>3 DEF Forged
    <2>2. i \in Nat \ {0} /\ Missing \in Nat \ {0}
        BY <2>1, VerifierAssumption DEF Missing
    <2>3. b - Missing = i /\ b \notin {Missing, Garbage}
        BY <2>1, <2>2 DEF Garbage
    <2>4. Decoded(b) = Unhashed[i]
        BY <1>3, <2>3 DEF Decoded
    <2> QED BY <2>3, <2>4, VerifierAssumption DEF OwnHash
<1> QED BY <1>2, <1>3

-----------------------------------------------------------------------------
(* Levels *)

\* A level is reached by checks that all pass, its own and those of every lower one.
LEMMA LevelReached ==
    ASSUME NEW checks, NEW requested \in 1..3, NEW l \in 1..3, LevelOf(checks, requested) >= l
    PROVE  (\E c \in checks : c.level = l) /\ \A c \in checks : c.level = l => c.ok
<1> DEFINE passed(x) == (\E c \in checks : c.level = x) /\ \A c \in checks : c.level = x => c.ok
           levels == {x \in 1..requested : \A m \in 1..x : passed(m)}
           top == CHOOSE x \in levels : \A m \in levels : m <= x
<1>1. LevelOf(checks, requested) = IF levels = {} THEN 0 ELSE top
    BY DEF LevelOf
<1> HIDE DEF passed
<1>2. levels # {}
    BY <1>1
<1>3. \E x \in levels : \A m \in levels : m <= x
    <2>1. levels \subseteq {1, 2, 3}
        <3>1. 1..requested \subseteq {1, 2, 3}
            OBVIOUS
        <3> QED BY <3>1
    <2> HIDE DEF levels
    <2>2. CASE 3 \in levels
        <3>1. \A m \in levels : m <= 3
            BY <2>1
        <3> QED BY <2>2, <3>1
    <2>3. CASE 3 \notin levels /\ 2 \in levels
        <3>1. \A m \in levels : m <= 2
            BY <2>1, <2>3
        <3> QED BY <2>3, <3>1
    <2>4. CASE 3 \notin levels /\ 2 \notin levels
        <3>1. \A m \in levels : m = 1
            BY <2>1, <2>4
        <3>2. 1 \in levels /\ \A m \in levels : m <= 1
            BY <1>2, <3>1
        <3> QED BY <3>2
    <2> QED BY <2>2, <2>3, <2>4
<1>4. top \in levels
    BY <1>3
<1>5. LevelOf(checks, requested) = top
    BY <1>1, <1>2
<1>6. top >= l /\ top \in 1..3 /\ \A m \in 1..top : passed(m)
    BY <1>4, <1>5
<1> HIDE DEF top
<1>7. l \in 1..top
    BY <1>6
<1> QED BY <1>6, <1>7 DEF passed

\* The checks of a level are there and all pass.
Passed(checks, m) == (\E c \in checks : c.level = m) /\ \A c \in checks : c.level = m => c.ok

\* A level is one of those asked for, and no lower than what passes.
LEMMA LevelTop ==
    ASSUME NEW checks, NEW requested \in 1..3
    PROVE  /\ LevelOf(checks, requested) \in 0..requested
           /\ \A l \in 1..requested : (\A m \in 1..l : Passed(checks, m)) => LevelOf(checks, requested) >= l
<1> DEFINE levels == {x \in 1..requested : \A m \in 1..x : Passed(checks, m)}
           top == CHOOSE x \in levels : \A m \in levels : m <= x
<1>1. LevelOf(checks, requested) = IF levels = {} THEN 0 ELSE top
    BY DEF LevelOf, Passed
<1>2. /\ levels \subseteq 1..requested
      /\ \A l \in 1..requested : (\A m \in 1..l : Passed(checks, m)) => l \in levels
    OBVIOUS
<1> HIDE DEF levels
<1>3. CASE levels = {}
    BY <1>1, <1>2, <1>3
<1>4. CASE levels # {}
    <2>1. levels \subseteq {1, 2, 3}
        <3>1. 1..requested \subseteq {1, 2, 3}
            OBVIOUS
        <3> QED BY <1>2, <3>1
    <2>2. \E x \in levels : \A m \in levels : m <= x
        <3>1. CASE 3 \in levels
            <4>1. \A m \in levels : m <= 3
                BY <2>1
            <4> QED BY <3>1, <4>1
        <3>2. CASE 3 \notin levels /\ 2 \in levels
            <4>1. \A m \in levels : m <= 2
                BY <2>1, <3>2
            <4> QED BY <3>2, <4>1
        <3>3. CASE 3 \notin levels /\ 2 \notin levels
            <4>1. \A m \in levels : m = 1
                BY <2>1, <3>3
            <4>2. 1 \in levels /\ \A m \in levels : m <= 1
                BY <1>4, <4>1
            <4> QED BY <4>2
        <3> QED BY <3>1, <3>2, <3>3
    <2>3. top \in levels /\ \A m \in levels : m <= top
        BY <2>2
    <2>4. LevelOf(checks, requested) = top
        BY <1>1, <1>4
    <2> HIDE DEF top
    <2> QED BY <1>2, <2>3, <2>4
<1> QED BY <1>3, <1>4

\* The level of a report is that of the checks of its package.
LEMMA ReportedLevel ==
    ASSUME NEW p \in Reports, p.level # 0
    PROVE  \E k \in EventEntries :
            /\ p.hash = k.hash /\ p.segment = k.segment
            /\ p.parts = FromEvents.packages[k].parts
            /\ p.level = LevelOf(ChecksOf(k), request.level)
BY DEF Reports

\* The levels below the third come from what was found out about the transaction.
LEMMA TwoLevelsAre ==
    ASSUME FactsHold, NEW k, NEW c \in TwoLevels(k)
    PROVE  /\ c.level \in {1, 2}
           /\ c.level = 2 => k.hash \in DOMAIN facts
<1>1. CASE c = LevelOneCheck(k)
    BY <1>1 DEF LevelOneCheck, Check
<1>2. CASE c # LevelOneCheck(k)
    <2>1. k.hash \in DOMAIN facts
        BY <1>2 DEF TwoLevels
    <2>2. \/ c \in facts[k.hash].checks
          \/ c = Check(2, PlacementOK(Decoded(facts[k.hash].raw), Target, k.segment, FromEvents.packages[k].parts))
        BY <1>2, <2>1 DEF TwoLevels
    <2>3. c.level = 2
        BY <2>1, <2>2 DEF FactsHold, Check
    <2> QED BY <2>1, <2>3
<1> QED BY <1>1, <1>2

\* A check has the level and the outcome it was made with.
LEMMA CheckFields == ASSUME NEW level, NEW ok PROVE Check(level, ok).level = level /\ Check(level, ok).ok = ok
BY DEF Check

\* What is reported of the packages is so.
LEMMA ReportsMean ==
    ASSUME Shape, FactsHold, NEW p \in Reports
    PROVE  Placed(p) /\ Committed(p)
<1> SUFFICES ASSUME p.level >= 2 \/ p.level = 3 PROVE Placed(p) /\ Committed(p)
    BY DEF Placed, Committed
<1>1. PICK k \in EventEntries :
        /\ p.hash = k.hash /\ p.segment = k.segment
        /\ p.parts = FromEvents.packages[k].parts
        /\ p.level = LevelOf(ChecksOf(k), request.level)
    <2>1. p.level # 0
        OBVIOUS
    <2> QED BY <2>1, ReportedLevel
<1>2. request.level \in 1..3
    BY VerifierAssumption DEF Shape
<1> DEFINE placement == Check(2, PlacementOK(Decoded(facts[k.hash].raw), Target, k.segment, p.parts))
<1>3. (\E c \in ChecksOf(k) : c.level = 2) /\ \A c \in ChecksOf(k) : c.level = 2 => c.ok
    BY <1>1, <1>2, LevelReached
<1>4. /\ \A c \in ChecksOf(k) : c \in TwoLevels(k) \/ c = Check(3, KeyAt(k.hash) = ExpectedKey)
      /\ \A c \in TwoLevels(k) : c \in ChecksOf(k)
    BY DEF ChecksOf
<1>5. PICK c \in TwoLevels(k) : c.level = 2
    BY <1>3, <1>4, CheckFields
<1>6. k.hash \in DOMAIN facts /\ c # LevelOneCheck(k)
    BY <1>5, TwoLevelsAre, CheckFields DEF LevelOneCheck
<1>7. /\ facts[k.hash].checks \subseteq TwoLevels(k)
      /\ facts[k.hash].raw \notin {Missing, Garbage} => placement \in TwoLevels(k)
    BY <1>1, <1>5, <1>6 DEF TwoLevels
<1>8. \A x \in facts[k.hash].checks : x.ok
    BY <1>3, <1>4, <1>6, <1>7 DEF FactsHold
<1>9. k.hash \in DOMAIN chain /\ Passes(k.hash, facts[k.hash].raw) /\ chain[k.hash].status \in Included
    BY <1>6, <1>8 DEF FactsHold
<1>10. facts[k.hash].raw \notin {Missing, Garbage}
    BY <1>9, BytesAre DEF Passes
<1>11. placement.ok
    <2>1. placement.level = 2
        BY CheckFields
    <2> QED BY <1>3, <1>4, <1>7, <1>10, <2>1
<1>12. PlacementOK(Decoded(facts[p.hash].raw), Target, p.segment, p.parts)
    BY <1>1, <1>11, CheckFields
<1>13. Placed(p)
    BY <1>1, <1>6, <1>9, <1>12 DEF Placed
<1>14. Committed(p)
    <2> SUFFICES ASSUME p.level = 3 PROVE chain[p.hash].key = ExpectedKey
        BY DEF Committed
    <2>1. PICK x \in ChecksOf(k) : x.level = 3 /\ x.ok
        BY <1>1, <1>2, LevelReached
    <2>2. x = Check(3, KeyAt(k.hash) = ExpectedKey)
        BY <1>4, <2>1, TwoLevelsAre
    <2>3. KeyAt(k.hash) = ExpectedKey
        BY <2>1, <2>2, CheckFields
    <2> QED BY <1>1, <2>3 DEF KeyAt
<1> QED BY <1>13, <1>14

-----------------------------------------------------------------------------
(* The invariant is one *)

\* The named parts hold before a call starts.
LEMMA InitInv == Init => IInv
<1> SUFFICES ASSUME Init PROVE IInv
    OBVIOUS
<1>1. chain \in Seq(Blocks) /\ Len(chain) <= MaxBlocks
    BY VerifierAssumption DEF Init
<1>2. DOMAIN known = {} /\ DOMAIN facts = {}
    BY DEF Init
<1> QED BY <1>1, <1>2 DEF Init, IInv, Shape, FactsHold, ReportLast

\* What has been found out stays true as the chain grows.
LEMMA GrowKeeps == ASSUME IInv, Grow PROVE IInv'
<1>1. PICK l \in Landings, key \in Keys :
        chain' = Append(chain, [tx |-> l.tx, succeeded |-> l.succeeded, status |-> l.status, key |-> key])
    BY DEF Grow
<1> DEFINE block == [tx |-> l.tx, succeeded |-> l.succeeded, status |-> l.status, key |-> key]
<1>2. block \in Blocks
    <2>1. <<l, key>> \in Landings \X Keys /\ <<l, key>>[1] = l /\ <<l, key>>[2] = key
        OBVIOUS
    <2> QED BY <2>1 DEF Blocks
<1>3. Len(chain) < MaxBlocks /\ UNCHANGED <<lies, request, pc, known, offset, items, known0, facts, report>>
    BY DEF Grow
<1>4. /\ chain' \in Seq(Blocks) /\ Len(chain') = Len(chain) + 1 /\ Len(chain) \in Nat
      /\ \A n \in DOMAIN chain : n \in DOMAIN chain' /\ chain'[n] = chain[n]
    <2> HIDE DEF block
    <2>1. chain' = Append(chain, block)
        BY <1>1 DEF block
    <2>2. chain \in Seq(Blocks)
        BY DEF IInv, Shape
    <2>3. /\ chain' \in Seq(Blocks) /\ Len(chain') = Len(chain) + 1 /\ Len(chain) \in Nat
          /\ \A n \in 1..Len(chain) : chain'[n] = chain[n]
        BY <1>2, <2>1, <2>2, AppendProperties, LenProperties
    <2>4. DOMAIN chain = 1..Len(chain) /\ DOMAIN chain' = 1..Len(chain')
        BY <2>2, <2>3, LenProperties
    <2> QED BY <2>3, <2>4
<1>5. Shape'
    <2>1. Len(chain') <= MaxBlocks
        BY <1>3, <1>4, VerifierAssumption
    <2>2. \A h \in DOMAIN known' : known'[h] \in Bytes' /\ (known'[h] # Missing => h \in DOMAIN chain')
        BY <1>3, <1>4 DEF IInv, Shape, Bytes, Forged, Garbage, Missing
    <2> QED BY <1>3, <1>4, <2>1, <2>2 DEF IInv, Shape, Missing
<1>6. FactsHold'
    BY <1>3, <1>4 DEF IInv, FactsHold, Passes, Bytes, Forged, Garbage, Missing
<1>7. ReportLast'
    <2>1. pc # "done"
        BY DEF Grow
    <2> QED BY <1>3, <2>1 DEF IInv, ReportLast
<1> QED BY <1>5, <1>6, <1>7 DEF IInv

\* Bytes are served for the hash of a block only.
LEMMA ServedBytes ==
    ASSUME NEW h, NEW a \in ServesRaw(h)
    PROVE  a.raw \in Bytes /\ (a.raw # Missing => h \in DOMAIN chain)
BY DEF ServesRaw, Bytes

\* What FactChecks finds good of bytes is what FactsHold says.
LEMMA ChecksHold ==
    ASSUME IInv, NEW h, NEW raw \in Bytes, raw # Missing => h \in DOMAIN chain
    PROVE  /\ \A c \in FactChecks(h, raw) : c.level = 2
           /\ (\A c \in FactChecks(h, raw) : c.ok) =>
                h \in DOMAIN chain /\ Passes(h, raw) /\ chain[h].status \in Included
<1>1. CASE raw \in {Missing, Garbage}
    <2>1. FactChecks(h, raw) = {Check(2, FALSE)}
        BY <1>1 DEF FactChecks
    <2> QED BY <2>1 DEF Check
<1>2. CASE raw \notin {Missing, Garbage}
    <2> DEFINE included == Check(2, chain[h].status \in Included)
               hashed == Check(2, OwnHash(raw) \in {None, h})
               held == Check(2, raw = h)
    <2>1. /\ included \in FactChecks(h, raw) /\ hashed \in FactChecks(h, raw)
          /\ request.node => held \in FactChecks(h, raw)
          /\ FactChecks(h, raw) \subseteq {included, hashed, held}
        BY <1>2 DEF FactChecks
    <2>2. /\ included.level = 2 /\ hashed.level = 2 /\ held.level = 2
          /\ included.ok = (chain[h].status \in Included)
          /\ hashed.ok = (OwnHash(raw) \in {None, h})
          /\ held.ok = (raw = h)
        <3>1. \A ok : Check(2, ok).level = 2 /\ Check(2, ok).ok = ok
            BY CheckFields, Zenon
        <3> QED BY <3>1, Zenon
    <2> HIDE DEF included, hashed, held
    <2>3. \A c \in FactChecks(h, raw) : c.level = 2
        BY <2>1, <2>2
    <2>4. ASSUME \A c \in FactChecks(h, raw) : c.ok
          PROVE  chain[h].status \in Included /\ Passes(h, raw)
        <3>1. chain[h].status \in Included /\ OwnHash(raw) \in {None, h} /\ (request.node => raw = h)
            BY <2>1, <2>2, <2>4, Zenon
        <3>2. CASE raw \in DOMAIN chain
            BY <3>1, <3>2, BytesAre DEF Passes, IInv
        <3>3. CASE raw \in Forged
            <4>1. request.node => raw = h
                BY <3>1
            <4> QED BY <3>1, <3>3, <4>1 DEF Passes
        <3> QED BY <1>2, <3>2, <3>3 DEF Bytes
    <2> QED BY <1>2, <2>3, <2>4
<1> QED BY <1>1, <1>2

\* Every step keeps the named parts.
LEMMA NextInv == IInv /\ [Next]_vars => IInv'
<1> SUFFICES ASSUME IInv, [Next]_vars PROVE IInv'
    OBVIOUS
<1>1. CASE Grow
    BY <1>1, GrowKeeps
<1>2. ASSUME UNCHANGED <<chain, request, facts>>, ReportLast',
             \A h \in DOMAIN known' : known'[h] \in Bytes /\ (known'[h] # Missing => h \in DOMAIN chain)
      PROVE  IInv'
    BY <1>2 DEF IInv, Shape, FactsHold, Passes, Bytes, Forged, Garbage, Missing
<1>3. CASE Start
    <2>1. UNCHANGED <<chain, request, facts>> /\ pc = "start" /\ report = None
        BY <1>3 DEF Start, IInv, ReportLast
    <2>2. CASE request.hash = None
        <3>1. UNCHANGED <<known, report>>
            BY <1>3, <2>2 DEF Start
        <3> QED BY <1>2, <2>1, <3>1 DEF IInv, Shape, ReportLast
    <2>3. CASE request.hash # None
        <3>1. PICK a \in ServesRaw(request.hash) :
                /\ known' = [h \in {request.hash} |-> a.raw]
                /\ \/ pc' = "done" /\ report' = {}
                   \/ report' = report
            BY <1>3, <2>3 DEF Start
        <3>2. /\ DOMAIN known' = {request.hash} /\ known'[request.hash] \in Bytes
              /\ known'[request.hash] # Missing => request.hash \in DOMAIN chain
            BY <3>1, ServedBytes
        <3>3. ReportLast'
            BY <2>1, <3>1 DEF ReportLast
        <3> QED BY <1>2, <2>1, <3>2, <3>3
    <2> QED BY <2>2, <2>3
<1>4. CASE NextPage \/ ReadEvents \/ SourceFails
    <2>1. UNCHANGED <<chain, request, facts, known, report>> /\ pc # "done"
        BY <1>4 DEF NextPage, ReadEvents, SourceFails
    <2> QED BY <1>2, <2>1 DEF IInv, Shape, ReportLast, Placed, Committed
<1>5. CASE ReadRaw
    <2>1. PICK h \in Wanted \ DOMAIN facts :
            \E a \in IF h \in DOMAIN known THEN {[raw |-> known[h], lies |-> 0]} ELSE ServesRaw(h) :
                /\ known' = [x \in DOMAIN known \cup {h} |-> IF x = h THEN a.raw ELSE known[x]]
                /\ facts' = [x \in DOMAIN facts \cup {h} |-> IF x = h THEN FactOf(h, a.raw) ELSE facts[x]]
        BY <1>5 DEF ReadRaw
    <2>2. PICK a \in IF h \in DOMAIN known THEN {[raw |-> known[h], lies |-> 0]} ELSE ServesRaw(h) :
                /\ known' = [x \in DOMAIN known \cup {h} |-> IF x = h THEN a.raw ELSE known[x]]
                /\ facts' = [x \in DOMAIN facts \cup {h} |-> IF x = h THEN FactOf(h, a.raw) ELSE facts[x]]
        BY <2>1
    <2>3. UNCHANGED <<chain, request, report>> /\ report = None
        BY <1>5 DEF ReadRaw, IInv, ReportLast
    <2>4. a.raw \in Bytes /\ (a.raw # Missing => h \in DOMAIN chain)
        BY <2>2, ServedBytes DEF IInv, Shape
    <2>5. FactsHold'
        <3>1. FactOf(h, a.raw).raw = a.raw /\ FactOf(h, a.raw).checks = FactChecks(h, a.raw)
            BY DEF FactOf
        <3>2. \A x \in DOMAIN facts' :
                \/ x \in DOMAIN facts /\ facts'[x] = facts[x]
                \/ x = h /\ facts'[x].raw = a.raw /\ facts'[x].checks = FactChecks(h, a.raw)
            BY <2>2, <3>1
        <3>3. Bytes' = Bytes
            BY <2>3 DEF Bytes, Forged, Garbage, Missing
        <3> QED BY <2>3, <2>4, <3>2, <3>3, ChecksHold DEF IInv, FactsHold, Passes, Forged, Missing
    <2>6. \A x \in DOMAIN known' : known'[x] \in Bytes /\ (known'[x] # Missing => x \in DOMAIN chain)
        BY <2>2, <2>4 DEF IInv, Shape
    <2>7. Shape'
        BY <2>3, <2>6 DEF IInv, Shape, Bytes, Forged, Garbage, Missing
    <2> QED BY <2>3, <2>5, <2>7 DEF IInv, ReportLast
<1>6. CASE Finish
    <2>1. /\ UNCHANGED <<chain, log, lies, request, known, offset, items, known0, facts>>
          /\ report' = Reports /\ pc' = "done"
        BY <1>6 DEF Finish
    <2>2. \A p \in Reports : Placed(p) /\ Committed(p)
        BY ReportsMean DEF IInv
    <2>3. ReportLast'
        BY <2>1, <2>2 DEF ReportLast, Placed, Committed, Passes, Decoded, Forged, Missing
    <2> QED BY <1>2, <2>1, <2>3 DEF IInv, Shape
<1>7. CASE UNCHANGED vars
    BY <1>2, <1>7 DEF vars, IInv, Shape, ReportLast, Placed, Committed, Passes, Decoded, Forged, Missing
<1> QED BY <1>1, <1>3, <1>4, <1>5, <1>6, <1>7 DEF Next

\* The named parts above hold at all times: what is reported at Level 2 was found in
\* bytes that pass for the hash, which are the transaction's own unless they have no hash
\* and no node was asked.
THEOREM Invariance == Spec => []IInv
BY InitInv, NextInv, PTL DEF Spec

-----------------------------------------------------------------------------
(* What follows *)

\* Every package of the report at Level 2 or above is Placed.
LevelTwoIsPlaced == report # None => \A p \in report : Placed(p)

\* Level 2 is only reached for an included transaction, by its own bytes, or by bytes
\* without a hash when no node was asked, with the package where it must be in them.
THEOREM LevelTwoPlaced == Spec => []LevelTwoIsPlaced
<1>1. IInv => LevelTwoIsPlaced
    BY DEF IInv, ReportLast, LevelTwoIsPlaced
<1> QED BY Invariance, <1>1, PTL

\* Level 3 is about the code that ran: the committed key was installed at the
\* transaction's own block, whatever was rotated before the report was made.
THEOREM LevelThreeCode == Spec => []LevelThreeIsCode
<1>1. IInv => LevelThreeIsCode
    BY DEF IInv, ReportLast, LevelThreeIsCode, Committed
<1> QED BY Invariance, <1>1, PTL

-----------------------------------------------------------------------------
(* The contract's events *)

\* What an event of the contract looks like in the log.
OfLog(e) ==
    /\ e \in Events /\ e.network = Network /\ e.contract = Target.contract
    /\ e.segment \in Segments /\ e.position \in Nat /\ ~e.value.long

\* The group of the target's events from the intent at segment s of transaction h.
Mine(h, s) == Group(Network, Target.contract, Target.name, h, s)

\* The payloads of these events in a sequence of events.
Ours(events, h, s) == Gather(events, OfGroup(Mine(h, s)), EventPart(Mine(h, s)))

\* What the ledger emits of a landed transaction's intent under the target's name.
EmittedOf(l, s) ==
    IF l.status = "FAILURE" THEN <<>>
    ELSE Gather(AllItems(l.tx, l.succeeded), Emitting(Target.contract, s, Target.name),
                ItemPart(Target.contract, s, Target.name))

\* The log's events are the contract's, of the chain's transactions, by ascending ids.
LogShape ==
    /\ log \in Seq(Events)
    /\ \A j \in DOMAIN log : OfLog(log[j]) /\ log[j].hash \in DOMAIN chain
    /\ \A i, j \in DOMAIN log : i < j => log[i].position < log[j].position

\* For every intent of the chain, the log holds what the ledger emitted.
LogIsLedger == \A h \in DOMAIN chain : \A s \in Segments : Ours(log, h, s) = EmittedOf(chain[h], s)

LedgerInv == LogShape /\ LogIsLedger

\* A landed transaction's new events: number n, after those of the log.
Adds(l, n, new) ==
    /\ new \in Seq(Events)
    /\ \A j \in DOMAIN new : OfLog(new[j]) /\ new[j].hash = n
    /\ \A i \in DOMAIN log : \A j \in DOMAIN new : log[i].position < new[j].position
    /\ \A i, j \in DOMAIN new : i < j => new[i].position < new[j].position
    /\ \A s \in Segments : Ours(new, n, s) = EmittedOf(l, s)

\* An event is of a group when its fields are the group's.
LEMMA OfMine ==
    ASSUME NEW e, OfLog(e), NEW h, NEW s
    PROVE  e \in OfGroup(Mine(h, s)) <=> e.hash = h /\ e.segment = s /\ e.value.name = Target.name
<1>1. e \in Events /\ e.network = Network /\ e.contract = Target.contract
    BY DEF OfLog
<1>2. GroupKey(e) = [network |-> Network, contract |-> Target.contract, name |-> e.value.name,
                     hash |-> e.hash, segment |-> e.segment]
    BY <1>1 DEF GroupKey
<1>3. e \in OfGroup(Mine(h, s)) <=> GroupKey(e) = Mine(h, s)
    BY <1>1 DEF OfGroup
<1> QED BY <1>2, <1>3 DEF Mine, Group

\* Filtering keeps what is true of every element, and the order of the positions.
LEMMA KeptRises ==
    ASSUME NEW s \in Seq(Events), NEW I \in SUBSET (DOMAIN s),
           \A i, j \in DOMAIN s : i < j => s[i].position < s[j].position
    PROVE  \A i, j \in DOMAIN Kept(s, I) : i < j => Kept(s, I)[i].position < Kept(s, I)[j].position
<1>1. PICK l : l = Len(s)
    OBVIOUS
<1>2. l \in Nat /\ DOMAIN s = 1..l
    BY <1>1, LenProperties
<1>3. PICK m, f : m = Cardinality(I) /\ f = Ascending(I)
    OBVIOUS
<1>4. I \in SUBSET Int /\ m \in Nat /\ Rising(f, m, I)
    BY <1>2, <1>3, IndicesRise
<1>5. Kept(s, I) = [k \in 1..m |-> s[f[k]]]
    BY <1>4, KeptAlong
<1>6. \A k \in 1..m : f[k] \in DOMAIN s
    BY <1>2, <1>4 DEF Rising
<1>7. \A i, j \in 1..m : i < j => f[i] < f[j]
    BY <1>4 DEF Rising
<1> QED BY <1>5, <1>6, <1>7

\* What lands adds events of its own, behind the others, as the ledger emits them.
LEMMA AddsLog ==
    ASSUME Shape, LogShape, Len(chain) < MaxBlocks, NEW l \in Landings
    PROVE  \E n, new : n = Len(chain) + 1 /\ new = NewEvents(l) /\ Adds(l, n, new)
<1>1. PICK n, new : n = Len(chain) + 1 /\ new = NewEvents(l)
    OBVIOUS
<1>2. Len(chain) \in Nat /\ n \in Hashes
    BY <1>1, VerifierAssumption, LenProperties DEF Shape
<1>3. IsTx(l.tx) /\ l.succeeded \in SUBSET (DOMAIN l.tx.intents) /\ Network \in Networks
    BY VerifierAssumption DEF FallibleSegments
<1>4. CASE l.status = "FAILURE"
    <2>1. new = <<>>
        BY <1>1, <1>4 DEF NewEvents
    <2>2. new \in Seq(Events) /\ DOMAIN new = {}
        BY <2>1
    <2>3. ASSUME NEW s \in Segments PROVE Ours(new, n, s) = EmittedOf(l, s)
        <3>1. Maps(EventPart(Mine(n, s)), OfGroup(Mine(n, s)), Parts)
            BY EventPartMaps
        <3>2. Ours(new, n, s) = <<>>
            BY <2>2, <3>1, GatherNothing DEF Ours
        <3> QED BY <1>4, <3>2 DEF EmittedOf
    <2> QED BY <1>1, <2>2, <2>3 DEF Adds
<1>5. CASE l.status # "FAILURE"
    <2>1. PICK last : last = IF log = <<>> THEN 0 ELSE log[Len(log)].position
        OBVIOUS
    <2>2. last \in Nat /\ \A i \in DOMAIN log : log[i].position <= last /\ log[i].position \in Nat
        <3>1. Len(log) \in Nat /\ DOMAIN log = 1..Len(log)
            BY LenProperties DEF LogShape
        <3>2. CASE log = <<>>
            BY <2>1, <3>2
        <3>3. CASE log # <<>>
            <4>1. Len(log) # 0
                BY <3>3, EmptySeq DEF LogShape
            <4>2. Len(log) \in DOMAIN log
                BY <3>1, <4>1
            <4>3. \A i \in DOMAIN log : log[i].position \in Nat
                BY DEF LogShape, OfLog
            <4>4. \A i \in DOMAIN log : i = Len(log) \/ i < Len(log)
                BY <3>1
            <4> QED BY <2>1, <3>3, <4>2, <4>3, <4>4 DEF LogShape
        <3> QED BY <3>2, <3>3
    <2>3. PICK all : all = Emissions(l.tx, l.succeeded, Network, n, last)
        OBVIOUS
    <2>4. PICK I : I = {j \in DOMAIN all : all[j].contract = Target.contract}
        OBVIOUS
    <2>5. new = Kept(all, I) /\ I \in SUBSET (DOMAIN all)
        BY <1>1, <1>5, <2>1, <2>3, <2>4 DEF NewEvents
    <2>6. /\ all \in Seq(Events)
          /\ \A i \in DOMAIN all : /\ all[i].network = Network /\ all[i].hash = n /\ all[i].segment \in Segments
                                   /\ ~all[i].value.long /\ all[i].position \in Nat /\ all[i].position > last
          /\ \A i, j \in DOMAIN all : i < j => all[i].position < all[j].position
        BY <1>2, <1>3, <2>2, <2>3, EmissionTypes
    <2>7. /\ new \in Seq(Events)
          /\ \A k \in DOMAIN new : \E i \in I : new[k] = all[i]
        BY <2>5, <2>6, KeptType
    <2>8. \A i, j \in DOMAIN new : i < j => new[i].position < new[j].position
        BY <2>5, <2>6, KeptRises
    <2>9. ASSUME NEW k \in DOMAIN new
          PROVE  OfLog(new[k]) /\ new[k].hash = n /\ new[k].position \in Nat /\ new[k].position > last
        <3>1. PICK i \in I : new[k] = all[i]
            BY <2>7
        <3>2. new[k] \in Events
            BY <2>7, ElementOfSeq
        <3> QED BY <2>4, <2>6, <3>1, <3>2 DEF OfLog
    <2>10. ASSUME NEW s \in Segments PROVE Ours(new, n, s) = EmittedOf(l, s)
        <3>1. PICK k : k = Mine(n, s)
            OBVIOUS
        <3>2. Maps(EventPart(k), OfGroup(k), Parts)
            BY EventPartMaps
        <3>3. \A i \in DOMAIN all : all[i] \in OfGroup(k) => i \in I
            BY <2>4, <3>1 DEF OfGroup, GroupKey, Mine, Group
        <3>4. Gather(Kept(all, I), OfGroup(k), EventPart(k)) = Gather(all, OfGroup(k), EventPart(k))
            BY <2>5, <2>6, <3>2, <3>3, GatherKept
        <3>5. k = Group(Network, Target.contract, Target.name, n, s)
            BY <3>1 DEF Mine
        <3>6. Gather(all, OfGroup(k), EventPart(k))
                = Gather(AllItems(l.tx, l.succeeded), Emitting(Target.contract, s, Target.name),
                         ItemPart(Target.contract, s, Target.name))
            BY <1>2, <1>3, <2>2, <2>3, <3>5, EmissionGather
        <3> QED BY <1>5, <2>5, <3>1, <3>4, <3>6 DEF Ours, EmittedOf
    <2>11. \A i \in DOMAIN log : \A j \in DOMAIN new : log[i].position < new[j].position
        BY <2>2, <2>9
    <2> QED BY <1>1, <2>7, <2>8, <2>9, <2>10, <2>11 DEF Adds
<1> QED BY <1>4, <1>5

\* A longer log: the payloads of a group are those of both parts.
LEMMA OursOfBoth ==
    ASSUME NEW a \in Seq(Events), NEW b \in Seq(Events), NEW h, NEW s
    PROVE  /\ Ours(a \o b, h, s) = Ours(a, h, s) \o Ours(b, h, s)
           /\ Ours(a, h, s) \in Seq(Parts) /\ Ours(b, h, s) \in Seq(Parts)
<1>1. Maps(EventPart(Mine(h, s)), OfGroup(Mine(h, s)), Parts)
    BY EventPartMaps
<1>2. Ours(a \o b, h, s) = Ours(a, h, s) \o Ours(b, h, s)
    BY <1>1, GatherConcat DEF Ours
<1>3. Ours(a, h, s) \in Seq(Parts) /\ Ours(b, h, s) \in Seq(Parts)
    BY <1>1, GatherType DEF Ours
<1> QED BY <1>2, <1>3

\* A sequence without events of a transaction has no payloads of it.
LEMMA OursOfNone ==
    ASSUME NEW a \in Seq(Events), NEW h, NEW s, \A j \in DOMAIN a : OfLog(a[j]) /\ a[j].hash # h
    PROVE  Ours(a, h, s) = <<>>
<1>1. Maps(EventPart(Mine(h, s)), OfGroup(Mine(h, s)), Parts)
    BY EventPartMaps
<1>2. \A j \in DOMAIN a : a[j] \notin OfGroup(Mine(h, s))
    BY OfMine
<1> QED BY <1>1, <1>2, GatherNothing DEF Ours

\* A step of the chain: its blocks stay, one is added, and the log goes on.
Grown(l, n, new) ==
    /\ n = Len(chain) + 1 /\ n = Len(chain') /\ Adds(l, n, new) /\ log' = log \o new
    /\ n \notin DOMAIN chain /\ DOMAIN chain' = DOMAIN chain \cup {n}
    /\ \A h \in DOMAIN chain : chain'[h] = chain[h] /\ h < n
    /\ chain'[n].tx = l.tx /\ chain'[n].succeeded = l.succeeded /\ chain'[n].status = l.status

\* A block adds what its transaction emits.
LEMMA GrownLog ==
    ASSUME Shape, LogShape, Grow
    PROVE  \E l \in Landings : \E n, new : Grown(l, n, new)
<1>1. PICK l \in Landings, key \in Keys :
        /\ chain' = Append(chain, [tx |-> l.tx, succeeded |-> l.succeeded, status |-> l.status, key |-> key])
        /\ log' = log \o NewEvents(l)
    BY DEF Grow
<1>2. Len(chain) < MaxBlocks
    BY DEF Grow
<1>3. PICK n, new : n = Len(chain) + 1 /\ new = NewEvents(l) /\ Adds(l, n, new)
    BY <1>2, AddsLog
<1> DEFINE block == [tx |-> l.tx, succeeded |-> l.succeeded, status |-> l.status, key |-> key]
<1>4. block \in Blocks
    <2>1. <<l, key>> \in Landings \X Keys /\ <<l, key>>[1] = l /\ <<l, key>>[2] = key
        OBVIOUS
    <2> QED BY <2>1 DEF Blocks
<1>5. block.tx = l.tx /\ block.succeeded = l.succeeded /\ block.status = l.status /\ chain' = Append(chain, block)
    BY <1>1
<1> HIDE DEF block
<1>6. /\ chain' \in Seq(Blocks) /\ Len(chain') = n /\ Len(chain) \in Nat
      /\ \A h \in 1..Len(chain) : chain'[h] = chain[h]
      /\ chain'[n] = block
    BY <1>3, <1>4, <1>5, AppendProperties, LenProperties DEF Shape
<1>7. DOMAIN chain = 1..Len(chain) /\ DOMAIN chain' = 1..n
    BY <1>6, LenProperties DEF Shape
<1>8. n \notin DOMAIN chain /\ DOMAIN chain' = DOMAIN chain \cup {n} /\ \A h \in DOMAIN chain : h < n
    BY <1>3, <1>6, <1>7
<1>9. log' = log \o new
    BY <1>1, <1>3
<1>10. Grown(l, n, new)
    BY <1>3, <1>5, <1>6, <1>7, <1>8, <1>9 DEF Grown
<1> QED BY <1>10

\* Where an element of a concatenation comes from.
FollowedBy(a, b, c) ==
    /\ c = a \o b /\ c \in Seq(Events) /\ Len(c) = Len(a) + Len(b)
    /\ \A j \in DOMAIN a : j \in DOMAIN c /\ c[j] = a[j]
    /\ \A j \in DOMAIN c : \/ j \in DOMAIN a
                           \/ j - Len(a) \in DOMAIN b /\ c[j] = b[j - Len(a)] /\ j > Len(a)

\* A concatenation is one sequence followed by the other.
LEMMA InConcat ==
    ASSUME NEW a \in Seq(Events), NEW b \in Seq(Events)
    PROVE  \E c : FollowedBy(a, b, c)
<1>1. /\ Len(a) \in Nat /\ DOMAIN a = 1..Len(a) /\ Len(b) \in Nat /\ DOMAIN b = 1..Len(b)
    BY LenProperties
<1>2. /\ a \o b \in Seq(Events) /\ Len(a \o b) = Len(a) + Len(b)
      /\ \A i \in 1..Len(a) + Len(b) : (a \o b)[i] = IF i <= Len(a) THEN a[i] ELSE b[i - Len(a)]
    BY ConcatProperties
<1>3. DOMAIN (a \o b) = 1..(Len(a) + Len(b))
    BY <1>2, LenProperties
<1>4. PICK c : c = a \o b
    OBVIOUS
<1>5. FollowedBy(a, b, c)
    BY <1>1, <1>2, <1>3, <1>4 DEF FollowedBy
<1> QED BY <1>5

\* The log stays what the ledger emitted.
LEMMA GrowLedger == ASSUME Shape, LedgerInv, Grow PROVE LedgerInv'
<1>1. PICK l \in Landings : \E n, new : Grown(l, n, new)
    BY GrownLog DEF LedgerInv
<1>2. PICK n, new : Grown(l, n, new)
    BY <1>1
<1>3. LogShape /\ log \in Seq(Events) /\ new \in Seq(Events) /\ log' = log \o new
    BY <1>2 DEF LedgerInv, LogShape, Grown, Adds
<1>4. PICK old, both : old = log /\ both = log'
    OBVIOUS
<1>5. /\ old \in Seq(Events) /\ both = old \o new
      /\ \A j \in DOMAIN old : OfLog(old[j]) /\ old[j].hash \in DOMAIN chain
      /\ \A j \in DOMAIN new : OfLog(new[j]) /\ new[j].hash = n
      /\ \A i \in DOMAIN old : \A j \in DOMAIN new : old[i].position < new[j].position
      /\ \A i, j \in DOMAIN old : i < j => old[i].position < old[j].position
      /\ \A i, j \in DOMAIN new : i < j => new[i].position < new[j].position
    BY <1>2, <1>3, <1>4 DEF Grown, Adds, LogShape
<1>6. /\ both \in Seq(Events)
      /\ \A j \in DOMAIN old : j \in DOMAIN both /\ both[j] = old[j]
      /\ \A j \in DOMAIN both : \/ j \in DOMAIN old
                                \/ j - Len(old) \in DOMAIN new /\ both[j] = new[j - Len(old)] /\ j > Len(old)
    <2>1. PICK c : FollowedBy(old, new, c)
        BY <1>3, <1>5, InConcat
    <2>2. c = both
        BY <1>5, <2>1 DEF FollowedBy
    <2> QED BY <2>1, <2>2 DEF FollowedBy
<1>7. Len(old) \in Nat /\ DOMAIN old = 1..Len(old) /\ \A j \in DOMAIN both : j \in Nat /\ j >= 1
    BY <1>5, <1>6, LenProperties
<1>8. LogShape'
    <2>1. \A j \in DOMAIN both : OfLog(both[j]) /\ both[j].hash \in DOMAIN chain'
        BY <1>2, <1>5, <1>6 DEF Grown
    <2>2. ASSUME NEW i \in DOMAIN both, NEW j \in DOMAIN both, i < j PROVE both[i].position < both[j].position
        <3>1. CASE j \in DOMAIN old
            <4>1. i \in DOMAIN old
                BY <1>7, <2>2, <3>1
            <4> QED BY <1>5, <1>6, <2>2, <3>1, <4>1
        <3>2. CASE j \notin DOMAIN old /\ i \in DOMAIN old
            BY <1>5, <1>6, <3>2
        <3>3. CASE j \notin DOMAIN old /\ i \notin DOMAIN old
            <4>1. i - Len(old) < j - Len(old)
                BY <1>7, <2>2
            <4> QED BY <1>5, <1>6, <3>3, <4>1
        <3> QED BY <3>1, <3>2, <3>3
    <2>3. both = log'
        BY <1>4
    <2> QED BY <1>6, <2>1, <2>2, <2>3 DEF LogShape, OfLog
<1>9. ASSUME NEW h \in DOMAIN chain', NEW s \in Segments
      PROVE  Ours(both, h, s) = EmittedOf(chain'[h], s)
    <2>1. /\ Ours(both, h, s) = Ours(old, h, s) \o Ours(new, h, s)
          /\ Ours(old, h, s) \in Seq(Parts) /\ Ours(new, h, s) \in Seq(Parts)
        BY <1>3, <1>5, OursOfBoth
    <2>2. CASE h \in DOMAIN chain
        <3>1. h # n /\ chain'[h] = chain[h]
            BY <1>2, <2>2 DEF Grown
        <3>2. Ours(new, h, s) = <<>>
            BY <1>3, <1>5, <3>1, OursOfNone
        <3>3. Ours(old, h, s) = EmittedOf(chain[h], s)
            BY <1>4, <2>2 DEF LedgerInv, LogIsLedger
        <3> QED BY <2>1, <3>1, <3>2, <3>3, ConcatEmptySeq
    <2>3. CASE h \notin DOMAIN chain
        <3>1. h = n
            BY <1>2, <2>3 DEF Grown
        <3>2. Ours(old, h, s) = <<>>
            BY <1>5, <2>3, OursOfNone
        <3>3. Ours(new, h, s) = EmittedOf(l, s)
            BY <1>2, <3>1 DEF Grown, Adds
        <3>4. EmittedOf(chain'[h], s) = EmittedOf(l, s)
            BY <1>2, <3>1 DEF Grown, EmittedOf
        <3> QED BY <2>1, <3>2, <3>3, <3>4, ConcatEmptySeq
    <2> QED BY <2>2, <2>3
<1>10. LogIsLedger'
    BY <1>4, <1>9 DEF LogIsLedger, EmittedOf, Ours, Mine
<1> QED BY <1>8, <1>10 DEF LedgerInv

\* Nothing else touches the chain or the log.
LEMMA ChainStays ==
    ASSUME [Next]_vars
    PROVE  Grow \/ UNCHANGED <<chain, log, request>>
BY DEF Next, vars, Start, NextPage, ReadEvents, ReadRaw, Finish, SourceFails

\* The log stays what the ledger emitted, at every step.
LEMMA LedgerStays == ASSUME Shape, LedgerInv, [Next]_vars PROVE LedgerInv'
<1>1. CASE UNCHANGED <<chain, log>>
    BY <1>1 DEF LedgerInv, LogShape, LogIsLedger, OfLog, EmittedOf, Ours, Mine
<1> QED BY <1>1, ChainStays, GrowLedger

\* Before a call starts there is no log and no chain.
LEMMA InitLedger == Init => LedgerInv
BY DEF Init, LedgerInv, LogShape, LogIsLedger

\* LedgerParts is what the log has of the group.
LEMMA PartsAreOurs ==
    ASSUME LogShape, NEW h, NEW s
    PROVE  LedgerParts(h, s) = Ours(log, h, s)
<1>1. PICK I : I = {j \in DOMAIN log : log[j].hash = h /\ log[j].segment = s /\ log[j].value.name = Target.name}
    OBVIOUS
<1>2. I = Where(log, OfGroup(Mine(h, s)))
    BY <1>1, OfMine DEF Where, LogShape
<1>3. PICK mine : mine = Kept(log, I)
    OBVIOUS
<1>4. LedgerParts(h, s) = [j \in DOMAIN mine |-> mine[j].value.part]
    BY <1>1, <1>3 DEF LedgerParts
<1>5. Ours(log, h, s) = [j \in DOMAIN mine |-> EventPart(Mine(h, s))[mine[j]]]
    BY <1>2, <1>3 DEF Ours, Gather
<1>6. ASSUME NEW j \in DOMAIN mine PROVE EventPart(Mine(h, s))[mine[j]] = mine[j].value.part
    <2>1. PICK i \in I : mine[j] = log[i]
        <3>1. log \in Seq(Events) /\ I \in SUBSET (DOMAIN log)
            BY <1>1 DEF LogShape
        <3> QED BY <1>3, <3>1, KeptType
    <2>2. mine[j] \in OfGroup(Mine(h, s))
        BY <1>2, <2>1 DEF Where
    <2> QED BY <2>2 DEF EventPart
<1> QED BY <1>4, <1>5, <1>6

-----------------------------------------------------------------------------
(* What is served and read *)

\* The form of the items a page may hold.
Served == [id : Nat, label : Hashes, event : Events \cup {None}, agrees : BOOLEAN]

\* An item that decodes does so to an event like those of the log.
OfItem(i) == i.event # None => OfLog(i.event) /\ i.event.hash \in DOMAIN chain

ItemsShape == items \in Seq(Served) /\ \A j \in DOMAIN items : OfItem(items[j])

\* What the indexer makes of an event has the form of an item.
LEMMA MisservedShape ==
    ASSUME LogShape, NEW e, OfLog(e), e.hash \in DOMAIN chain, NEW i \in Misserved(e) \cup {Item(e)}
    PROVE  i \in Served /\ OfItem(i)
<1>n. PICK nothing : nothing = None
    OBVIOUS
<1>a. /\ Item(e) = [id |-> e.position, label |-> e.hash, event |-> e, agrees |-> Item(e).agrees]
      /\ Item(e).agrees \in BOOLEAN
    BY DEF Item
<1>b. PICK it : it = Item(e)
    OBVIOUS
<1>c. PICK ok \in BOOLEAN : ok = it.agrees
    BY <1>a, <1>b
<1>1. it = Item(e) /\ it = [id |-> e.position, label |-> e.hash, event |-> e, agrees |-> ok]
    BY <1>a, <1>b, <1>c
<1>2. e \in Events /\ e.position \in Nat /\ e.hash \in Hashes
    BY EventFields DEF OfLog
<1>3. CASE i = Item(e)
    <2>1. i = [id |-> e.position, label |-> e.hash, event |-> e, agrees |-> ok]
        BY <1>1, <1>3
    <2> QED BY <1>2, <2>1 DEF Served, OfItem
<1>4. CASE i = [Item(e) EXCEPT !.event = None]
    <2>1. i = [it EXCEPT !.event = nothing]
        BY <1>1, <1>4, <1>n
    <2>2. i = [id |-> e.position, label |-> e.hash, event |-> nothing, agrees |-> ok]
        BY <1>1, <2>1
    <2> QED BY <1>2, <1>n, <2>2 DEF Served, OfItem
<1>5. CASE i = [Item(e) EXCEPT !.agrees = FALSE]
    <2>a. PICK no \in BOOLEAN : no = FALSE
        OBVIOUS
    <2>b. i = [it EXCEPT !.agrees = FALSE]
        BY <1>1, <1>5
    <2>1. i = [it EXCEPT !.agrees = no]
        BY <2>a, <2>b
    <2>2. i = [id |-> e.position, label |-> e.hash, event |-> e, agrees |-> no]
        BY <1>1, <2>1
    <2> QED BY <1>2, <2>2 DEF Served, OfItem
<1>6. ASSUME NEW x, OfLog(x), x.hash \in DOMAIN chain, i = [Item(e) EXCEPT !.event = x]
      PROVE  i \in Served /\ OfItem(i)
    <2>a. i = [it EXCEPT !.event = x]
        BY <1>1, <1>6
    <2>1. i = [id |-> e.position, label |-> e.hash, event |-> x, agrees |-> ok]
        BY <1>1, <2>a
    <2>2. x \in Events /\ OfLog(x) /\ x.hash \in DOMAIN chain
        BY <1>6 DEF OfLog
    <2> QED BY <1>2, <2>1, <2>2 DEF Served, OfItem
<1>7. CASE \E p \in Parts : i = [Item(e) EXCEPT !.event.value.part = p]
    <2>1. PICK p \in Parts : i = [Item(e) EXCEPT !.event.value.part = p]
        BY <1>7
    <2>a. PICK w, nm, lg : w = e.value /\ nm = e.value.name /\ lg = e.value.long
        OBVIOUS
    <2>b. w = [name |-> nm, part |-> e.value.part, long |-> lg] /\ nm \in Names /\ lg \in BOOLEAN
        BY <1>2, <2>a, EventFields
    <2>2. PICK v : v = [w EXCEPT !.part = p]
        OBVIOUS
    <2>3. PICK x : x = [e EXCEPT !.value = v]
        OBVIOUS
    <2>4. i = [Item(e) EXCEPT !.event = x]
        <3>1. i = [it EXCEPT !.event.value.part = p]
            BY <1>1, <2>1
        <3>2. i = [it EXCEPT !.event = [it.event EXCEPT !.value = [it.event.value EXCEPT !.part = p]]]
            BY <3>1
        <3>3. it.event = e
            BY <1>1
        <3> QED BY <1>1, <2>a, <2>2, <2>3, <3>2, <3>3
    <2>5. v = [name |-> nm, part |-> p, long |-> lg]
        BY <2>2, <2>b
    <2>6. v \in Values /\ v.long = e.value.long
        BY <2>5, <2>a, <2>b DEF Values
    <2>c. /\ e = [network |-> e.network, contract |-> e.contract, hash |-> e.hash,
                  segment |-> e.segment, position |-> e.position, value |-> e.value]
        BY <1>2, EventFields
    <2>d. x = [network |-> e.network, contract |-> e.contract, hash |-> e.hash,
                  segment |-> e.segment, position |-> e.position, value |-> v]
        BY <2>3, <2>c
    <2>7. /\ x = [network |-> e.network, contract |-> e.contract, hash |-> e.hash,
                  segment |-> e.segment, position |-> e.position, value |-> v]
          /\ e.network \in Networks /\ e.contract \in Contracts /\ e.segment \in Nat /\ e.position \in Int
        BY <1>2, <2>d, EventFields
    <2>8. OfLog(x) /\ x.hash \in DOMAIN chain
        <3>1. x \in Events
            BY <1>2, <2>6, <2>7 DEF Events
        <3> QED BY <2>6, <2>7, <3>1 DEF OfLog
    <2> QED BY <1>6, <2>4, <2>8
<1>8. CASE \E j \in DOMAIN log : i = [Item(e) EXCEPT !.event = log[j]]
    BY <1>6, <1>8 DEF LogShape
<1> QED BY <1>3, <1>4, <1>5, <1>7, <1>8 DEF Misserved

\* The events of a page are events of the log.
LEMMA PageShape ==
    ASSUME LogShape, offset \in Nat
    PROVE  /\ Filtered \in Seq(Events) /\ Page \in Seq(Events)
           /\ \A j \in DOMAIN Filtered : \E i \in DOMAIN log : Filtered[j] = log[i]
           /\ \A j \in DOMAIN Page : \E i \in DOMAIN log : Page[j] = log[i]
           /\ Len(Filtered) <= offset + PageSize =>
                Len(Page) = (IF offset < Len(Filtered) THEN Len(Filtered) - offset ELSE 0)
           /\ Len(Filtered) > offset + PageSize => Len(Page) = PageSize
           /\ \A j \in DOMAIN Page : offset + j \in DOMAIN Filtered /\ Page[j] = Filtered[offset + j]
<1>1. PICK I : I = {j \in DOMAIN log : request.hash \in {None, log[j].hash}}
    OBVIOUS
<1>2. log \in Seq(Events) /\ I \in SUBSET (DOMAIN log) /\ Filtered = Kept(log, I)
    BY <1>1 DEF LogShape, Filtered
<1>3. Filtered \in Seq(Events) /\ \A j \in DOMAIN Filtered : \E i \in I : Filtered[j] = log[i]
    BY <1>2, KeptType
<1>4. PICK s : s = Filtered
    OBVIOUS
<1>5. s \in Seq(Events) /\ Len(s) \in Nat /\ DOMAIN s = 1..Len(s) /\ \A j \in 1..Len(s) : s[j] \in Events
    BY <1>3, <1>4, LenProperties, ElementOfSeq
<1>6. PageSize \in Nat \ {0}
    BY VerifierAssumption
<1>a. PICK l \in Nat, o \in Nat, z \in Nat \ {0} : l = Len(s) /\ o = offset /\ z = PageSize
    BY <1>5, <1>6
<1>b. PICK m \in Int, n \in Int : m = o + 1 /\ n = IF o + z < l THEN o + z ELSE l
    <2>1. o + 1 \in Int /\ (IF o + z < l THEN o + z ELSE l) \in Int
        OBVIOUS
    <2> QED BY <2>1
<1>c. m >= 1 /\ n <= l /\ \A j \in 1..(n - m + 1) : m + j - 1 = o + j /\ o + j \in 1..l
    BY <1>b
<1>d. /\ l <= o + z => (IF m <= n THEN n - m + 1 ELSE 0) = (IF o < l THEN l - o ELSE 0)
      /\ l > o + z => (IF m <= n THEN n - m + 1 ELSE 0) = z
      /\ \A j \in 1..(IF m <= n THEN n - m + 1 ELSE 0) : j \in 1..(n - m + 1)
    BY <1>b
<1>7. m = offset + 1 /\ n = IF offset + PageSize < Len(s) THEN offset + PageSize ELSE Len(s)
    BY <1>a, <1>b
<1>8. Page = SubSeq(s, m, n)
    BY <1>4, <1>7 DEF Page
<1>9. m >= 1 /\ n <= Len(s)
    BY <1>a, <1>c
<1>10. \A i \in m..n : i \in 1..Len(s) /\ s[i] \in Events
    BY <1>5, <1>9
<1>11. /\ SubSeq(s, m, n) \in Seq(Events)
       /\ Len(SubSeq(s, m, n)) = IF m <= n THEN n - m + 1 ELSE 0
       /\ \A i \in 1..(n - m + 1) : SubSeq(s, m, n)[i] = s[m + i - 1]
    BY <1>10, SubSeqProperties
<1>12. PICK pg : pg = Page
    OBVIOUS
<1>13. /\ pg \in Seq(Events) /\ Len(pg) \in Nat /\ DOMAIN pg = 1..Len(pg)
       /\ Len(pg) = IF m <= n THEN n - m + 1 ELSE 0
       /\ \A i \in 1..(n - m + 1) : pg[i] = s[m + i - 1]
    BY <1>8, <1>11, <1>12, LenProperties
<1>14. \A j \in DOMAIN pg : offset + j \in DOMAIN s /\ pg[j] = s[offset + j]
    <2>1. TAKE j \in DOMAIN pg
    <2>2. j \in 1..(n - m + 1)
        BY <1>d, <1>13
    <2>3. m + j - 1 = offset + j /\ offset + j \in DOMAIN s
        BY <1>5, <1>a, <1>c, <2>2
    <2> QED BY <1>13, <2>2, <2>3
<1>15. /\ Len(s) <= offset + PageSize => Len(pg) = (IF offset < Len(s) THEN Len(s) - offset ELSE 0)
       /\ Len(s) > offset + PageSize => Len(pg) = PageSize
    BY <1>a, <1>d, <1>13
<1>16. \A j \in DOMAIN pg : \E i \in DOMAIN log : pg[j] = log[i]
    BY <1>2, <1>3, <1>4, <1>14
<1> QED BY <1>2, <1>3, <1>4, <1>12, <1>13, <1>14, <1>15, <1>16

\* A page as served: at most one lie, none that decodes to anything but an event like
\* those of the log, and without a lie what there is.
ServedPage(a) ==
    /\ a.items \in Seq(Served) /\ \A j \in DOMAIN a.items : OfItem(a.items[j])
    /\ a.lies \in {0, 1}
    /\ a.lies = 0 => a.items = [j \in DOMAIN Page |-> Item(Page[j])]

\* Every page the indexer may serve is one.
LEMMA ServesPage ==
    ASSUME LogShape, offset \in Nat, NEW a \in Serves(Page)
    PROVE  ServedPage(a)
<1>1. PICK pg : pg = Page
    OBVIOUS
<1>2. pg \in Seq(Events) /\ \A j \in DOMAIN pg : OfLog(pg[j]) /\ pg[j].hash \in DOMAIN chain
    BY <1>1, PageShape DEF LogShape
<1>3. PICK honest : honest = [j \in DOMAIN pg |-> Item(pg[j])]
    OBVIOUS
<1>4. \A j \in DOMAIN pg : \A i \in Misserved(pg[j]) \cup {Item(pg[j])} : i \in Served /\ OfItem(i)
    BY <1>2, MisservedShape
<1>5. honest \in Seq(Served) /\ DOMAIN honest = DOMAIN pg /\ \A j \in DOMAIN pg : honest[j] \in Served /\ OfItem(honest[j])
    <2>1. Len(pg) \in Nat /\ DOMAIN pg = 1..Len(pg)
        BY <1>2, LenProperties
    <2>2. \A j \in DOMAIN pg : honest[j] \in Served /\ OfItem(honest[j])
        BY <1>3, <1>4
    <2>3. honest \in [1..Len(pg) -> Served]
        BY <1>3, <2>1, <2>2
    <2> QED BY <1>3, <2>1, <2>2, <2>3, SeqDef
<1>6. CASE a = [items |-> honest, lies |-> 0]
    BY <1>1, <1>3, <1>5, <1>6 DEF ServedPage
<1>7. ASSUME NEW j \in DOMAIN pg, NEW i \in Misserved(pg[j]), a = [items |-> [honest EXCEPT ![j] = i], lies |-> 1]
      PROVE  ServedPage(a)
    <2>1. i \in Served /\ OfItem(i)
        BY <1>4
    <2>2. PICK its : its = [honest EXCEPT ![j] = i]
        OBVIOUS
    <2>3. DOMAIN its = DOMAIN pg /\ \A k \in DOMAIN pg : its[k] = IF k = j THEN i ELSE honest[k]
        BY <1>3, <2>2
    <2>4. its \in Seq(Served)
        <3>1. Len(pg) \in Nat /\ DOMAIN pg = 1..Len(pg)
            BY <1>2, LenProperties
        <3>2. its \in [1..Len(pg) -> Served]
            BY <1>3, <1>5, <2>1, <2>2, <3>1
        <3> QED BY <3>1, <3>2, SeqDef
    <2>5. \A k \in DOMAIN its : OfItem(its[k])
        BY <1>5, <2>1, <2>3
    <2> QED BY <1>7, <2>2, <2>4, <2>5 DEF ServedPage
<1>8. ASSUME NEW j \in DOMAIN pg, a = [items |-> Kept(honest, DOMAIN honest \ {j}), lies |-> 1]
      PROVE  ServedPage(a)
    <2>1. PICK I : I = DOMAIN honest \ {j}
        OBVIOUS
    <2>2. I \in SUBSET (DOMAIN honest)
        BY <2>1
    <2>3. Kept(honest, I) \in Seq(Served) /\ \A k \in DOMAIN Kept(honest, I) : \E i \in I : Kept(honest, I)[k] = honest[i]
        BY <1>5, <2>2, KeptType
    <2>4. \A k \in DOMAIN Kept(honest, I) : OfItem(Kept(honest, I)[k])
        BY <1>5, <2>2, <2>3
    <2>5. PICK its : its = Kept(honest, I)
        OBVIOUS
    <2>6. a = [items |-> its, lies |-> 1]
        BY <1>8, <2>1, <2>5
    <2> QED BY <2>3, <2>4, <2>5, <2>6 DEF ServedPage
<1>9. CASE \E x \in UNION {{<<j, i>> : i \in Misserved(pg[j])} : j \in DOMAIN pg} :
                a = [items |-> [honest EXCEPT ![x[1]] = x[2]], lies |-> 1]
    BY <1>7, <1>9
<1>10. CASE \E j \in DOMAIN pg : a = [items |-> Kept(honest, DOMAIN honest \ {j}), lies |-> 1]
    BY <1>8, <1>10
<1> QED BY <1>1, <1>3, <1>6, <1>9, <1>10 DEF Serves

\* The reader's input from the items.
LEMMA ConvertedShape ==
    ASSUME ItemsShape
    PROVE  /\ Converted \in Seq(Events)
           /\ \A j \in DOMAIN Converted : OfLog(Converted[j]) /\ Converted[j].hash \in DOMAIN chain
<1>1. PICK D : D = {j \in DOMAIN items : items[j].event # None}
    OBVIOUS
<1>2. PICK decoded : decoded = Kept(items, D)
    OBVIOUS
<1>3. items \in Seq(Served) /\ D \in SUBSET (DOMAIN items)
    BY <1>1 DEF ItemsShape
<1>4. decoded \in Seq(Served) /\ \A k \in DOMAIN decoded : \E i \in D : decoded[k] = items[i]
    BY <1>2, <1>3, KeptType
<1>5. PICK c : c = [j \in DOMAIN decoded |-> [decoded[j].event EXCEPT !.position = decoded[j].id]]
    OBVIOUS
<1>6. Converted = c
    BY <1>1, <1>2, <1>5 DEF Converted
<1>7. ASSUME NEW j \in DOMAIN decoded
      PROVE  OfLog(c[j]) /\ c[j].hash \in DOMAIN chain
    <2>1. PICK x, e, n : x = decoded[j] /\ e = x.event /\ n = x.id
        OBVIOUS
    <2>2. x \in Served /\ e # None /\ OfItem(x)
        <3>1. PICK i \in D : x = items[i]
            BY <1>4, <2>1
        <3>2. i \in DOMAIN items /\ items[i].event # None
            BY <1>1
        <3> QED BY <1>4, <2>1, <3>1, <3>2, ElementOfSeq DEF ItemsShape
    <2>3. OfLog(e) /\ e.hash \in DOMAIN chain /\ n \in Nat
        BY <2>1, <2>2 DEF OfItem, Served
    <2>4. e \in Events /\ e.network = Network /\ e.contract = Target.contract /\ e.segment \in Segments /\ ~e.value.long
        BY <2>3 DEF OfLog
    <2>5. c[j] = [e EXCEPT !.position = n]
        BY <1>5, <2>1
    <2>6. /\ e = [network |-> e.network, contract |-> e.contract, hash |-> e.hash,
                  segment |-> e.segment, position |-> e.position, value |-> e.value]
          /\ e.network \in Networks /\ e.contract \in Contracts /\ e.hash \in Hashes
          /\ e.segment \in Nat /\ e.value \in Values
        BY <2>4 DEF Events
    <2>7. PICK d : d = c[j]
        OBVIOUS
    <2>8. d = [network |-> e.network, contract |-> e.contract, hash |-> e.hash,
               segment |-> e.segment, position |-> n, value |-> e.value]
        BY <2>5, <2>6, <2>7
    <2>9. d \in Events
        BY <2>3, <2>6, <2>8 DEF Events
    <2>10. OfLog(d) /\ d.hash \in DOMAIN chain
        BY <2>3, <2>4, <2>8, <2>9 DEF OfLog
    <2> QED BY <2>7, <2>10
<1>8. c \in Seq(Events)
    <2>1. Len(decoded) \in Nat /\ DOMAIN decoded = 1..Len(decoded)
        BY <1>4, LenProperties
    <2>2. \A j \in 1..Len(decoded) : c[j] \in Events
        BY <1>7, <2>1 DEF OfLog
    <2>3. c \in [1..Len(decoded) -> Events]
        BY <1>5, <2>1, <2>2
    <2> QED BY <2>1, <2>3, SeqDef
<1>9. DOMAIN c = DOMAIN decoded
    BY <1>5
<1> QED BY <1>6, <1>7, <1>8, <1>9

\* What the reader is asked for.
LEMMA OptedAsks == Opted \in Options /\ Asks(Opted, Target, Network)
<1>1. /\ Target.contract \in Contracts /\ Target.name \in Names /\ Network \in Networks
      /\ MaxEvents \in Nat \ {0} /\ MaxGroups \in Nat \ {0}
    BY VerifierAssumption, LimitsAssumption
<1>2. /\ Opted.optIns = {<<Target.contract, Target.name>>} /\ Opted.network = Network
      /\ Opted = [optIns |-> Opted.optIns, network |-> Opted.network,
                  maxEvents |-> Opted.maxEvents, maxGroups |-> Opted.maxGroups]
      /\ Opted.maxEvents = MaxEvents /\ Opted.maxGroups = MaxGroups
    BY DEF Opted
<1>3. Opted.optIns \in SUBSET (Contracts \X Names)
    BY <1>1, <1>2
<1>4. Opted \in Options
    BY <1>1, <1>2, <1>3 DEF Options
<1> QED BY <1>2, <1>4 DEF Asks

\* Packages read from the events are of the target and of the chain.
LEMMA EntriesAre ==
    ASSUME ItemsShape, NEW k \in DOMAIN FromEvents.packages
    PROVE  k = Mine(k.hash, k.segment) /\ k.hash \in DOMAIN chain /\ k.segment \in Segments
<1>1. PICK evs : evs = Converted
    OBVIOUS
<1>2. evs \in Seq(Events) /\ \A j \in DOMAIN evs : OfLog(evs[j]) /\ evs[j].hash \in DOMAIN chain
    BY <1>1, ConvertedShape
<1>3. PICK l, R : ReadAs(evs, Opted, l, R)
    BY <1>2, OptedAsks, ReadIs
<1>4. R = FromEvents /\ ~R.error /\ k \in KeysOf(evs, Opted, l) /\ l = Len(evs)
    BY <1>1, <1>3 DEF ReadAs, FromEvents
<1>5. PICK i \in 1..l : OptedIn(evs[i], Opted) /\ k = GroupKey(evs[i])
    BY <1>4 DEF KeysOf
<1>6. OfLog(evs[i]) /\ evs[i].hash \in DOMAIN chain
    BY <1>2, <1>4, LenProperties
<1>7. evs[i].value.name = Target.name
    <2>1. <<evs[i].contract, evs[i].value.name>> \in Opted.optIns
        BY <1>5 DEF OptedIn
    <2> QED BY <2>1, OptedAsks DEF Asks
<1> QED BY <1>5, <1>6, <1>7 DEF GroupKey, OfLog, Mine, Group

\* What the bytes of a transaction of the chain show under a hash of the chain.
RawAs(h, raw, R) ==
    /\ R = FromRaw(h, raw)
    /\ DOMAIN R.packages \subseteq {Mine(h, s) : s \in RawIntents(Decoded(raw), Target)}
    /\ ~R.error => DOMAIN R.packages = {Mine(h, s) : s \in RawIntents(Decoded(raw), Target)}

\* It is the packages of the target that the bytes themselves log.
LEMMA RawIs ==
    ASSUME Shape, NEW h \in Hashes, NEW raw \in DOMAIN chain \cup Forged
    PROVE  \E R : RawAs(h, raw, R)
<1>1. PICK t : t = Decoded(raw)
    OBVIOUS
<1>2. IsTx(t)
    BY <1>1, BytesAre
<1>3. Target.contract \in Contracts /\ Network \in Networks
    BY VerifierAssumption
<1>4. PICK pe, R : RawRead(t, Target, Network, h, Opted, pe, R)
    BY <1>2, <1>3, OptedAsks, RawReadIs
<1>5. R = FromRaw(h, raw)
    BY <1>1, <1>4 DEF RawRead, FromRaw
<1>6. /\ R.error \in BOOLEAN
      /\ R.error => DOMAIN R.packages = {}
      /\ ~R.error => DOMAIN R.packages = {Mine(h, s) : s \in RawIntents(t, Target)}
    BY <1>4 DEF RawRead, Mine
<1>7. DOMAIN R.packages \subseteq {Mine(h, s) : s \in RawIntents(t, Target)}
    BY <1>6
<1>8. RawAs(h, raw, R)
    BY <1>1, <1>5, <1>6, <1>7 DEF RawAs
<1> QED BY <1>8

\* What was read from the items stays, as long as there are no others.
LEMMA SameEntries ==
    ASSUME UNCHANGED <<items, request>>
    PROVE  FromEvents' = FromEvents /\ EventEntries' = EventEntries /\ Wanted' = Wanted
<1>1. Converted' = Converted
    BY DEF Converted
<1>2. FromEvents' = FromEvents
    BY <1>1 DEF FromEvents, Opted
<1>3. EventEntries' = EventEntries
    BY <1>2 DEF EventEntries, InScope
<1> QED BY <1>2, <1>3 DEF Wanted

\* What was found out about a transaction stays, as the chain grows.
LEMMA SameFact ==
    ASSUME UNCHANGED <<items, request>>, \A h \in DOMAIN chain : h \in DOMAIN chain' /\ chain'[h] = chain[h],
           Shape, NEW h \in DOMAIN chain, NEW raw \in Bytes
    PROVE  FactOf(h, raw)' = FactOf(h, raw) /\ (raw \notin {Missing, Garbage} => FromRaw(h, raw)' = FromRaw(h, raw))
<1>1. EventEntries' = EventEntries
    BY SameEntries
<1>2. raw \notin {Missing, Garbage} => Decoded(raw)' = Decoded(raw)
    <2>1. raw \in DOMAIN chain => chain'[raw] = chain[raw]
        OBVIOUS
    <2> QED BY <2>1 DEF Bytes, Decoded, Forged, Missing, Garbage
<1>3. raw \notin {Missing, Garbage} => FromRaw(h, raw)' = FromRaw(h, raw)
    BY <1>2 DEF FromRaw, Opted
<1>4. FactChecks(h, raw)' = FactChecks(h, raw)
    <2>1. CASE raw \in {Missing, Garbage}
        BY <2>1 DEF FactChecks, Missing, Garbage
    <2>2. CASE raw \notin {Missing, Garbage}
        <3>1. OwnHash(raw)' = OwnHash(raw)
            BY <1>2, <2>2 DEF OwnHash
        <3> QED BY <3>1 DEF FactChecks, Missing, Garbage
    <2> QED BY <2>1, <2>2
<1> QED BY <1>1, <1>3, <1>4 DEF FactOf, InScope, Missing, Garbage

\* The report only depends on what is served, asked and found out, and on the chain.
LEMMA SameReports ==
    ASSUME UNCHANGED <<chain, items, request, facts>>
    PROVE  Reports' = Reports
<1>1. FromEvents' = FromEvents /\ EventEntries' = EventEntries
    BY SameEntries
<1>2. IssueHashes' = IssueHashes
    BY DEF IssueHashes, HasIssue
<1>3. \A k : TwoLevels(k)' = TwoLevels(k)
    BY <1>1, <1>2 DEF TwoLevels, LevelOneCheck, Decoded, Forged, Missing, Garbage
<1>4. \A k : ChecksOf(k)' = ChecksOf(k)
    BY <1>3 DEF ChecksOf, KeyAt
<1> QED BY <1>1, <1>4 DEF Reports

-----------------------------------------------------------------------------
(* The course of a call *)

Awaits == {"start", "paging", "read", "raw", "report", "done", "failed"}

\* Counters within their bounds.
Counted ==
    /\ lies \in 0..MaxLies /\ pc \in Awaits /\ offset \in Nat
    /\ pc # "failed" => Len(items) <= MaxEvents
    /\ known0 \in 0..Len(chain)

\* A transaction asked for by its hash is on the chain once it was served.
AskedFor ==
    pc \in {"paging", "read", "raw", "report"} /\ request.hash # None => request.hash \in DOMAIN chain

\* What was found out in these bytes, which the reader takes.
FactIs(h, b) ==
    /\ facts[h].raw = b /\ facts[h] = FactOf(h, b)
    /\ pc # "failed" /\ b \notin {Missing, Garbage} => ~FromRaw(h, b).error

\* Level 2 found out what FactOf says, about transactions it wants.
FactsAre ==
    /\ \A h \in DOMAIN facts : h \in DOMAIN known /\ h \in DOMAIN chain /\ h \in Wanted
    /\ pc \in {"start", "paging", "read"} => DOMAIN facts = {}
    /\ \A h \in DOMAIN facts : \E b \in Bytes : FactIs(h, b)

\* Everything a report needs is there.
Settled ==
    /\ ~FromEvents.error
    /\ request.hash # None => request.hash \in DOMAIN chain
    /\ request.level >= 2 => DOMAIN facts = Wanted

Reported ==
    /\ pc = "raw" => ~FromEvents.error
    /\ pc = "report" => Settled
    /\ report # None \/ pc = "done" => report = {} \/ (report = Reports /\ Settled)

CallInv == Counted /\ ItemsShape /\ AskedFor /\ FactsAre /\ Reported

\* Level 2 wants transactions of the chain.
LEMMA WantedOnChain ==
    ASSUME ItemsShape, request.hash # None => request.hash \in DOMAIN chain
    PROVE  \A h \in Wanted : h \in DOMAIN chain
BY EntriesAre DEF Wanted, EventEntries

\* The chain grows under a call.
LEMMA GrowCall == ASSUME IInv, LogShape, CallInv, Grow PROVE CallInv'
<1>1. PICK l \in Landings : \E n, new : Grown(l, n, new)
    BY GrownLog DEF IInv
<1>2. PICK n, new : Grown(l, n, new)
    BY <1>1
<1>3. /\ \A h \in DOMAIN chain : h \in DOMAIN chain' /\ chain'[h] = chain[h]
      /\ Len(chain') = Len(chain) + 1 /\ Len(chain) \in Nat
    BY <1>2, LenProperties DEF Grown, IInv, Shape
<1>4. UNCHANGED <<lies, request, pc, known, offset, items, known0, facts, report>> /\ pc # "done"
    BY DEF Grow
<1>5. report = None
    BY <1>4 DEF IInv, ReportLast
<1>6. Counted'
    BY <1>3, <1>4 DEF CallInv, Counted, Awaits
<1>7. ItemsShape'
    BY <1>3, <1>4 DEF CallInv, ItemsShape, OfItem, OfLog, Served
<1>8. AskedFor'
    BY <1>3, <1>4 DEF CallInv, AskedFor
<1>9. FromEvents' = FromEvents /\ Wanted' = Wanted
    BY <1>4, SameEntries
<1>10. FactsAre'
    <2>1. ASSUME NEW h \in DOMAIN facts
          PROVE  \E b \in Bytes' : FactIs(h, b)'
        <3>1. PICK b \in Bytes : FactIs(h, b)
            BY DEF CallInv, FactsAre
        <3>2. FactOf(h, b)' = FactOf(h, b) /\ (b \notin {Missing, Garbage} => FromRaw(h, b)' = FromRaw(h, b))
            BY <1>3, <1>4, SameFact DEF CallInv, FactsAre, IInv
        <3>3. b \in Bytes'
            BY <1>3 DEF Bytes, Forged, Missing, Garbage
        <3> QED BY <1>4, <3>1, <3>2, <3>3 DEF FactIs, Missing, Garbage
    <2> QED BY <1>3, <1>4, <1>9, <2>1 DEF CallInv, FactsAre
<1>11. Reported'
    BY <1>3, <1>4, <1>5, <1>9 DEF CallInv, Reported, Settled
<1> QED BY <1>6, <1>7, <1>8, <1>10, <1>11 DEF CallInv

\* A call starts.
LEMMA StartCall == ASSUME IInv, CallInv, Start PROVE CallInv'
<1>1. /\ UNCHANGED <<chain, log, request, offset, items, facts>> /\ known0' = Len(chain)
      /\ pc = "start" /\ report = None /\ DOMAIN facts = {}
    BY DEF Start, IInv, ReportLast, CallInv, FactsAre
<1>2. PICK a \in IF request.hash = None THEN {[raw |-> Missing, lies |-> 0]} ELSE ServesRaw(request.hash) :
        /\ lies + a.lies <= MaxLies /\ lies' = lies + a.lies
        /\ \/ request.hash = None /\ pc' = "paging" /\ report' = report
           \/ a.raw = Missing /\ pc' = "done" /\ report' = {}
           \/ request.hash # None /\ a.raw # Missing /\ pc' = "paging" /\ report' = report
    BY DEF Start
<1>3. a.lies \in {0, 1}
    BY <1>2 DEF ServesRaw
<1>4. Counted'
    <2>1. Len(chain) \in Nat /\ MaxLies \in Nat
        BY LenProperties, VerifierAssumption DEF IInv, Shape
    <2>2. lies' \in 0..MaxLies
        BY <1>2, <1>3, <2>1 DEF CallInv, Counted
    <2> QED BY <1>1, <1>2, <2>1, <2>2 DEF CallInv, Counted, Awaits
<1>5. ItemsShape'
    BY <1>1 DEF CallInv, ItemsShape, OfItem, OfLog, Served
<1>6. AskedFor'
    BY <1>1, <1>2 DEF AskedFor, ServesRaw
<1>7. FactsAre'
    BY <1>1 DEF FactsAre
<1>8. Reported'
    BY <1>1, <1>2 DEF Reported
<1> QED BY <1>4, <1>5, <1>6, <1>7, <1>8 DEF CallInv

\* A page arrives.
LEMMA PageCall == ASSUME IInv, LogShape, CallInv, NextPage PROVE CallInv'
<1>1. /\ UNCHANGED <<chain, log, request, known, known0, facts, report>>
      /\ pc = "paging" /\ report = None /\ DOMAIN facts = {}
    BY DEF NextPage, IInv, ReportLast, CallInv, FactsAre
<1>2. PICK a \in Serves(Page) :
        /\ lies + a.lies <= MaxLies /\ lies' = lies + a.lies
        /\ items' = items \o a.items /\ offset' = offset + PageSize
        /\ pc' = IF TooMany(a.items) THEN "failed" ELSE IF LastPage(a.items) THEN "read" ELSE "paging"
    BY DEF NextPage
<1>3. ServedPage(a)
    BY <1>2, ServesPage DEF CallInv, Counted
<1>4. PICK old, new : old = items /\ new = a.items
    OBVIOUS
<1>5. old \in Seq(Served) /\ new \in Seq(Served) /\ items' = old \o new
    BY <1>2, <1>3, <1>4 DEF ServedPage, CallInv, ItemsShape
<1>6. PICK both : both = old \o new
    OBVIOUS
<1>7. /\ both \in Seq(Served) /\ Len(both) = Len(old) + Len(new)
      /\ \A i \in 1..Len(old) + Len(new) : both[i] = IF i <= Len(old) THEN old[i] ELSE new[i - Len(old)]
      /\ Len(old) \in Nat /\ DOMAIN old = 1..Len(old) /\ Len(new) \in Nat /\ DOMAIN new = 1..Len(new)
    <2>1. /\ old \o new \in Seq(Served) /\ Len(old \o new) = Len(old) + Len(new)
          /\ \A i \in 1..Len(old) + Len(new) : (old \o new)[i] = IF i <= Len(old) THEN old[i] ELSE new[i - Len(old)]
        BY <1>5, ConcatProperties
    <2> QED BY <1>5, <1>6, <2>1, LenProperties
<1>8. ASSUME NEW j \in DOMAIN both PROVE OfItem(both[j])
    <2>1. DOMAIN both = 1..(Len(old) + Len(new))
        BY <1>7, LenProperties
    <2>2. CASE j <= Len(old)
        <3>1. j \in DOMAIN old /\ both[j] = old[j]
            BY <1>7, <2>1, <2>2
        <3> QED BY <1>4, <3>1 DEF CallInv, ItemsShape
    <2>3. CASE j > Len(old)
        <3>1. j - Len(old) \in DOMAIN new /\ both[j] = new[j - Len(old)]
            BY <1>7, <2>1, <2>3
        <3> QED BY <1>3, <1>4, <3>1 DEF ServedPage
    <2> QED BY <1>7, <2>1, <2>2, <2>3
<1>9. ItemsShape'
    BY <1>1, <1>5, <1>6, <1>7, <1>8 DEF ItemsShape, OfItem, OfLog, Served
<1>10. Counted'
    <2>1. pc' # "failed" => Len(both) <= MaxEvents
        <3>1. PICK m \in Nat, n \in Nat : m = Len(old) /\ n = Len(new)
            BY <1>7
        <3>2. TooMany(a.items) <=> m + n > MaxEvents
            BY <1>4, <3>1 DEF TooMany
        <3>3. pc' # "failed" => ~TooMany(a.items)
            BY <1>2
        <3>4. MaxEvents \in Nat /\ Len(both) = m + n
            BY <1>7, <3>1, LimitsAssumption
        <3> QED BY <3>1, <3>2, <3>3, <3>4
    <2>2. lies' \in 0..MaxLies /\ offset' \in Nat
        BY <1>2, <1>3, VerifierAssumption DEF ServedPage, CallInv, Counted
    <2>3. pc' \in Awaits /\ both = items'
        BY <1>2, <1>5, <1>6 DEF Awaits
    <2> QED BY <1>1, <2>1, <2>2, <2>3 DEF CallInv, Counted
<1>11. AskedFor'
    BY <1>1 DEF CallInv, AskedFor
<1>12. FactsAre'
    BY <1>1 DEF FactsAre
<1>13. Reported'
    BY <1>1, <1>2 DEF Reported
<1> QED BY <1>9, <1>10, <1>11, <1>12, <1>13 DEF CallInv

\* The events are read.
LEMMA ReadCall == ASSUME IInv, CallInv, ReadEvents PROVE CallInv'
<1>1. /\ UNCHANGED <<chain, log, lies, request, known, offset, items, known0, facts, report>>
      /\ pc = "read" /\ report = None /\ DOMAIN facts = {}
      /\ pc' = IF FromEvents.error THEN "failed"
               ELSE IF request.level >= 2 /\ Wanted # {} THEN "raw" ELSE "report"
    BY DEF ReadEvents, IInv, ReportLast, CallInv, FactsAre
<1>2. FromEvents' = FromEvents /\ Wanted' = Wanted
    BY <1>1, SameEntries
<1>3. ItemsShape' /\ Counted' /\ AskedFor'
    BY <1>1 DEF CallInv, ItemsShape, OfItem, OfLog, Served, Counted, AskedFor, Awaits
<1>4. FactsAre'
    BY <1>1 DEF FactsAre
<1>5. Reported'
    BY <1>1, <1>2 DEF CallInv, AskedFor, Reported, Settled
<1> QED BY <1>3, <1>4, <1>5 DEF CallInv

\* The bytes of one transaction are read.
LEMMA RawCall == ASSUME IInv, LogShape, CallInv, ReadRaw PROVE CallInv'
<1>1. /\ UNCHANGED <<chain, log, request, offset, items, known0, report>>
      /\ pc = "raw" /\ report = None /\ ~FromEvents.error
    BY DEF ReadRaw, IInv, ReportLast, CallInv, Reported
<1>2. PICK h \in Wanted \ DOMAIN facts :
        \E a \in IF h \in DOMAIN known THEN {[raw |-> known[h], lies |-> 0]} ELSE ServesRaw(h) :
            /\ lies + a.lies <= MaxLies /\ lies' = lies + a.lies
            /\ known' = [x \in DOMAIN known \cup {h} |-> IF x = h THEN a.raw ELSE known[x]]
            /\ facts' = [x \in DOMAIN facts \cup {h} |-> IF x = h THEN FactOf(h, a.raw) ELSE facts[x]]
            /\ pc' = IF a.raw \notin {Missing, Garbage} /\ FromRaw(h, a.raw).error THEN "failed"
                     ELSE IF DOMAIN facts' = Wanted THEN "report" ELSE "raw"
    BY DEF ReadRaw
<1>3. PICK a \in IF h \in DOMAIN known THEN {[raw |-> known[h], lies |-> 0]} ELSE ServesRaw(h) :
            /\ lies + a.lies <= MaxLies /\ lies' = lies + a.lies
            /\ known' = [x \in DOMAIN known \cup {h} |-> IF x = h THEN a.raw ELSE known[x]]
            /\ facts' = [x \in DOMAIN facts \cup {h} |-> IF x = h THEN FactOf(h, a.raw) ELSE facts[x]]
            /\ pc' = IF a.raw \notin {Missing, Garbage} /\ FromRaw(h, a.raw).error THEN "failed"
                     ELSE IF DOMAIN facts' = Wanted THEN "report" ELSE "raw"
    BY <1>2
<1>4. h \in DOMAIN chain /\ h \notin DOMAIN facts /\ h \in Wanted
    BY <1>1, <1>2, WantedOnChain DEF CallInv, AskedFor
<1>5. a.raw \in Bytes /\ a.lies \in {0, 1}
    BY <1>3, ServedBytes DEF IInv, Shape, ServesRaw
<1>6. PICK raw \in Bytes : raw = a.raw
    BY <1>5
<1>7. FactOf(h, raw).raw = raw
    BY DEF FactOf
<1>8. /\ DOMAIN facts' = DOMAIN facts \cup {h} /\ DOMAIN known' = DOMAIN known \cup {h}
      /\ facts'[h] = FactOf(h, raw) /\ \A x \in DOMAIN facts : facts'[x] = facts[x]
    BY <1>3, <1>4, <1>6
<1>9. Counted'
    <2>1. lies' \in 0..MaxLies
        BY <1>3, <1>5, VerifierAssumption DEF CallInv, Counted
    <2>2. pc' \in Awaits
        BY <1>3 DEF Awaits
    <2> QED BY <1>1, <2>1, <2>2 DEF CallInv, Counted
<1>10. ItemsShape'
    BY <1>1 DEF CallInv, ItemsShape, OfItem, OfLog, Served
<1>11. AskedFor'
    BY <1>1 DEF CallInv, AskedFor
<1>12. FromEvents' = FromEvents /\ Wanted' = Wanted
    BY <1>1, SameEntries
<1>13. FactsAre'
    <2>1. \A x \in DOMAIN facts' : x \in DOMAIN known' /\ x \in DOMAIN chain /\ x \in Wanted
        BY <1>4, <1>8 DEF CallInv, FactsAre
    <2>2. pc' \notin {"start", "paging", "read"}
        BY <1>3
    <2>3. \A x \in DOMAIN chain : \A b \in Bytes :
            /\ FactOf(x, b)' = FactOf(x, b)
            /\ b \notin {Missing, Garbage} => FromRaw(x, b)' = FromRaw(x, b)
        BY <1>1, SameFact DEF IInv
    <2>4. ASSUME NEW x \in DOMAIN facts'
          PROVE  \E b \in Bytes : /\ facts'[x].raw = b /\ facts'[x] = FactOf(x, b)
                                  /\ pc' # "failed" /\ b \notin {Missing, Garbage} => ~FromRaw(x, b).error
        <3>1. CASE x = h
            <4>1. pc' # "failed" /\ raw \notin {Missing, Garbage} => ~FromRaw(h, raw).error
                BY <1>3, <1>6
            <4> QED BY <1>7, <1>8, <3>1, <4>1
        <3>2. CASE x # h
            <4>1. x \in DOMAIN facts /\ facts'[x] = facts[x]
                BY <1>8, <3>2
            <4>2. PICK b \in Bytes : FactIs(x, b)
                BY <4>1 DEF CallInv, FactsAre
            <4> QED BY <1>1, <4>1, <4>2 DEF FactIs
        <3> QED BY <3>1, <3>2
    <2>5. ASSUME NEW x \in DOMAIN facts'
          PROVE  \E b \in Bytes' : FactIs(x, b)'
        <3>1. PICK b \in Bytes : /\ facts'[x].raw = b /\ facts'[x] = FactOf(x, b)
                                 /\ pc' # "failed" /\ b \notin {Missing, Garbage} => ~FromRaw(x, b).error
            BY <2>4
        <3>2. /\ FactOf(x, b)' = FactOf(x, b)
              /\ b \notin {Missing, Garbage} => FromRaw(x, b)' = FromRaw(x, b)
            BY <2>1, <2>3
        <3>3. b \in Bytes'
            BY <1>1 DEF Bytes, Forged, Missing, Garbage
        <3> QED BY <3>1, <3>2, <3>3 DEF FactIs, Missing, Garbage
    <2> QED BY <1>1, <1>12, <2>1, <2>2, <2>5 DEF FactsAre
<1>14. Reported'
    <2>1. pc' = "report" => DOMAIN facts' = Wanted
        BY <1>3
    <2>2. pc' # "done"
        BY <1>3
    <2> QED BY <1>1, <1>12, <2>1, <2>2 DEF CallInv, AskedFor, Reported, Settled
<1> QED BY <1>9, <1>10, <1>11, <1>13, <1>14 DEF CallInv

\* A step that leaves everything found as it is, but may fail or make the report.
LEMMA EndCall ==
    ASSUME IInv, CallInv, Finish \/ SourceFails \/ UNCHANGED vars
    PROVE  CallInv'
<1>1. /\ UNCHANGED <<chain, log, lies, request, known, offset, items, known0, facts>>
      /\ pc' \in {pc, "failed", "done"}
      /\ pc' = "done" => pc = "done" \/ (pc = "report" /\ report' = Reports)
      /\ report' = report \/ (pc = "report" /\ pc' = "done" /\ report' = Reports)
    BY DEF Finish, SourceFails, vars
<1>2. FromEvents' = FromEvents /\ Wanted' = Wanted /\ Reports' = Reports
    BY <1>1, SameEntries, SameReports
<1>3. pc = "report" \/ pc' = pc \/ pc' = "failed"
    BY <1>1
<1>4. Settled' <=> Settled
    BY <1>1, <1>2 DEF Settled
<1>5. ItemsShape' /\ Counted' /\ AskedFor'
    <2>1. pc # "failed" \/ pc' = "failed"
        BY DEF Finish, SourceFails, vars
    <2> QED BY <1>1, <2>1 DEF CallInv, ItemsShape, OfItem, OfLog, Served, Counted, AskedFor, Awaits
<1>6. FactsAre'
    <2>1. \A x \in DOMAIN chain : \A b \in Bytes :
            /\ FactOf(x, b)' = FactOf(x, b)
            /\ b \notin {Missing, Garbage} => FromRaw(x, b)' = FromRaw(x, b)
        BY <1>1, SameFact DEF IInv
    <2>2. ASSUME NEW x \in DOMAIN facts'
          PROVE  \E b \in Bytes' : FactIs(x, b)'
        <3>1. PICK b \in Bytes : FactIs(x, b)
            BY <1>1 DEF CallInv, FactsAre
        <3>2. pc' # "failed" => pc # "failed"
            BY DEF Finish, SourceFails, vars
        <3>3. /\ FactOf(x, b)' = FactOf(x, b)
              /\ b \notin {Missing, Garbage} => FromRaw(x, b)' = FromRaw(x, b)
            BY <1>1, <2>1 DEF CallInv, FactsAre
        <3>4. b \in Bytes'
            BY <1>1 DEF Bytes, Forged, Missing, Garbage
        <3> QED BY <1>1, <3>1, <3>2, <3>3, <3>4 DEF FactIs, Missing, Garbage
    <2>3. \A x \in DOMAIN facts' : x \in DOMAIN known' /\ x \in DOMAIN chain' /\ x \in Wanted'
        BY <1>1, <1>2 DEF CallInv, FactsAre
    <2>4. pc' \in {"start", "paging", "read"} => DOMAIN facts' = {}
        BY <1>1 DEF CallInv, FactsAre
    <2> QED BY <2>2, <2>3, <2>4 DEF FactsAre
<1>7. Reported'
    <2>1. /\ pc' = "raw" => pc = "raw"
          /\ pc' = "report" => pc = "report"
        BY <1>1
    <2>2. report' # None => \/ report' = report /\ report # None
                            \/ report' = Reports /\ Settled
        BY <1>1 DEF CallInv, Reported
    <2>3. pc' = "done" => \/ report' = report /\ pc = "done"
                          \/ report' = Reports /\ Settled
        BY <1>1 DEF CallInv, Reported, Finish, SourceFails, vars
    <2> QED BY <1>2, <1>4, <2>1, <2>2, <2>3 DEF CallInv, Reported
<1> QED BY <1>5, <1>6, <1>7 DEF CallInv

\* Every step keeps the course of a call.
LEMMA CallStays == ASSUME IInv, LogShape, CallInv, [Next]_vars PROVE CallInv'
BY GrowCall, StartCall, PageCall, ReadCall, RawCall, EndCall DEF Next

\* It holds before a call starts.
LEMMA InitCall == Init => CallInv
<1> SUFFICES ASSUME Init PROVE CallInv
    OBVIOUS
<1>1. items = <<>> /\ chain = <<>> /\ DOMAIN facts = {}
    BY DEF Init
<1>2. items \in Seq(Served) /\ Len(items) = 0 /\ DOMAIN items = {} /\ Len(chain) = 0
    BY <1>1
<1>3. ItemsShape
    BY <1>2 DEF ItemsShape
<1>4. Counted
    <2>1. MaxEvents \in Nat /\ MaxLies \in Nat
        BY LimitsAssumption, VerifierAssumption
    <2> QED BY <1>2, <2>1 DEF Init, Counted, Awaits
<1> QED BY <1>1, <1>3, <1>4 DEF Init, CallInv, AskedFor, FactsAre, Reported

-----------------------------------------------------------------------------
(* What a report says *)

\* All that has been shown of a call.
Call == IInv /\ LedgerInv /\ CallInv

\* It holds at all times.
LEMMA CallInvariance == Spec => []Call
<1>1. Init => Call
    BY InitInv, InitLedger, InitCall DEF Call
<1>2. Call /\ [Next]_vars => Call'
    BY NextInv, LedgerStays, CallStays DEF Call, IInv, LedgerInv
<1> QED BY <1>1, <1>2, PTL DEF Spec

\* A block holds a transaction that landed.
LEMMA BlockIs ==
    ASSUME Shape, NEW h \in DOMAIN chain
    PROVE  /\ IsTx(chain[h].tx) /\ chain[h].succeeded \in SUBSET (DOMAIN chain[h].tx.intents)
           /\ chain[h].status \in Included \cup {"FAILURE"} /\ chain[h].key \in Keys
           /\ h \in Hashes /\ h \notin {Missing, Garbage}
<1>1. /\ Len(chain) \in Nat /\ DOMAIN chain = 1..Len(chain) /\ Len(chain) <= MaxBlocks /\ MaxBlocks \in Nat
      /\ chain[h] \in Blocks
    BY VerifierAssumption, ElementOfSeq, LenProperties DEF Shape
<1>2. h \in Hashes /\ h \notin {Missing, Garbage}
    BY <1>1, VerifierAssumption DEF Missing, Garbage
<1>3. PICK x \in Landings \X Keys :
        chain[h] = [tx |-> x[1].tx, succeeded |-> x[1].succeeded, status |-> x[1].status, key |-> x[2]]
    BY <1>1 DEF Blocks
<1>4. PICK l, key : l \in Landings /\ key \in Keys /\ l = x[1] /\ key = x[2]
    OBVIOUS
<1>5. chain[h].tx = l.tx /\ chain[h].succeeded = l.succeeded /\ chain[h].status = l.status /\ chain[h].key = key
    BY <1>3, <1>4
<1>6. IsTx(l.tx) /\ l.succeeded \in SUBSET (DOMAIN l.tx.intents) /\ l.status \in Included \cup {"FAILURE"}
    BY <1>4, VerifierAssumption DEF FallibleSegments
<1> QED BY <1>2, <1>4, <1>5, <1>6

\* Where a line of the report comes from: a package of the events, or of the bytes only.
ReportedOf(p, k) ==
    /\ p.hash = k.hash /\ p.segment = k.segment /\ k = Mine(k.hash, k.segment)
    /\ k.hash \in DOMAIN chain /\ k.segment \in Segments
    /\ p.level \in 0..request.level
    /\ \/ k \in EventEntries /\ p.parts = FromEvents.packages[k].parts
       \/ p.level = 0

\* Every line comes from one, of a transaction of the chain.
LEMMA ReportFrom ==
    ASSUME IInv, CallInv, NEW p \in Reports
    PROVE  \E k : ReportedOf(p, k)
<1>1. request.level \in 1..3
    BY VerifierAssumption DEF IInv, Shape
<1>2. ASSUME NEW k \in EventEntries,
             p = [hash |-> k.hash, segment |-> k.segment, parts |-> FromEvents.packages[k].parts,
                  level |-> LevelOf(ChecksOf(k), request.level)]
      PROVE  ReportedOf(p, k)
    <2>1. k = Mine(k.hash, k.segment) /\ k.hash \in DOMAIN chain /\ k.segment \in Segments
        BY EntriesAre DEF CallInv, EventEntries
    <2>2. LevelOf(ChecksOf(k), request.level) \in 0..request.level
        BY <1>1, LevelTop
    <2> QED BY <1>2, <2>1, <2>2 DEF ReportedOf
<1>3. ASSUME NEW h \in DOMAIN facts, NEW k \in facts[h].rawOnly,
             p = [hash |-> k.hash, segment |-> k.segment, parts |-> <<>>, level |-> 0]
      PROVE  ReportedOf(p, k)
    <2>1. PICK b \in Bytes : FactIs(h, b)
        BY DEF CallInv, FactsAre
    <2>2. b \in DOMAIN chain \cup Forged /\ k \in DOMAIN FromRaw(h, b).packages
        BY <2>1 DEF FactIs, FactOf, Bytes
    <2>3. h \in DOMAIN chain /\ h \in Hashes
        BY BlockIs DEF CallInv, FactsAre, IInv
    <2>4. PICK R : RawAs(h, b, R)
        BY <2>2, <2>3, RawIs DEF IInv
    <2>5. PICK s \in RawIntents(Decoded(b), Target) : k = Mine(h, s)
        BY <2>2, <2>4 DEF RawAs
    <2>6. s \in Segments
        BY <2>2, <2>5, BytesAre, ActionTypes DEF RawIntents, IInv
    <2>7. k.hash = h /\ k.segment = s
        BY <2>5 DEF Mine, Group
    <2>8. p.hash = k.hash /\ p.segment = k.segment /\ p.level = 0 /\ 0 \in 0..request.level
        BY <1>1, <1>3
    <2> QED BY <2>3, <2>5, <2>6, <2>7, <2>8 DEF ReportedOf
<1> QED BY <1>2, <1>3 DEF Reports

\* The report is of the state it is made in.
LEMMA ReportIs ==
    ASSUME CallInv, report # None, NEW p \in report
    PROVE  report = Reports /\ Settled /\ p \in Reports
BY DEF CallInv, Reported

\* Level 2 needs no trust in the events as served, nor in bytes that have a hash of their
\* own or that a node was asked for: whatever the indexer served, a package that passes it
\* is what the ledger emitted from that intent of an included transaction.  Otherwise it
\* is still what the served bytes emit.
THEOREM LevelTwoLedger == Spec => []LevelTwoIsLedger
<1>1. ASSUME Call, report # None, NEW p \in report, p.level >= 2, ~Unbacked(p.hash)
      PROVE  p.parts = LedgerParts(p.hash, p.segment)
    <2>1. Placed(p)
        BY <1>1 DEF Call, IInv, ReportLast
    <2>2. PICK h, s, parts : h = p.hash /\ s = p.segment /\ parts = p.parts
        OBVIOUS
    <2>3. h \in DOMAIN chain /\ chain[h].status \in Included /\ PlacementOK(chain[h].tx, Target, s, parts)
        <3>1. /\ h \in DOMAIN chain /\ chain[h].status \in Included /\ facts[h].raw = h
              /\ PlacementOK(Decoded(facts[h].raw), Target, s, parts)
            BY <1>1, <2>1, <2>2 DEF Placed, Passes, Unbacked
        <3>2. Decoded(h) = chain[h].tx
            BY <1>1, <3>1, BytesAre DEF Call, IInv
        <3> QED BY <3>1, <3>2
    <2>4. PICK k : ReportedOf(p, k)
        BY <1>1, ReportIs, ReportFrom DEF Call
    <2>5. s \in Segments
        BY <2>2, <2>4 DEF ReportedOf
    <2>6. IsTx(chain[h].tx) /\ chain[h].succeeded \in SUBSET (DOMAIN chain[h].tx.intents)
        BY <1>1, <2>3, BlockIs DEF Call, IInv
    <2>7. parts = Gather(AllItems(chain[h].tx, chain[h].succeeded), Emitting(Target.contract, s, Target.name),
                         ItemPart(Target.contract, s, Target.name))
        BY <2>3, <2>6, PlacedIsEmitted
    <2>8. chain[h].status # "FAILURE"
        BY <2>3 DEF Included
    <2>9. parts = EmittedOf(chain[h], s)
        BY <2>7, <2>8 DEF EmittedOf
    <2>10. LedgerParts(h, s) = Ours(log, h, s) /\ Ours(log, h, s) = EmittedOf(chain[h], s)
        BY <1>1, <2>3, <2>5, PartsAreOurs DEF Call, LedgerInv, LogIsLedger
    <2> QED BY <2>2, <2>3, <2>9, <2>10
<1>2. ASSUME Call, report # None, NEW p \in report, p.level >= 2
      PROVE  /\ chain[p.hash].status \in Included
             /\ Unbacked(p.hash) => PlacementOK(Decoded(facts[p.hash].raw), Target, p.segment, p.parts)
    BY <1>2 DEF Call, IInv, ReportLast, Placed
<1>3. Call => LevelTwoIsLedger
    BY <1>1, <1>2 DEF LevelTwoIsLedger
<1> QED BY CallInvariance, <1>3, PTL

\* Type correctness: among others, every page fits the limit, every fact is of a
\* transaction that was fetched, and every line of the report is of a transaction of the
\* chain, at a level that was asked for.
THEOREM TypeCorrect == Spec => []TypeOK
<1>1. ASSUME Call PROVE TypeOK
    <2>1. \A n \in DOMAIN chain : IsTx(chain[n].tx) /\ chain[n].key \in Keys
        BY <1>1, BlockIs DEF Call, IInv
    <2>2. /\ lies \in 0..MaxLies /\ pc \in Awaits /\ known0 \in 0..Len(chain)
          /\ pc # "failed" => Len(items) <= MaxEvents
          /\ DOMAIN facts \subseteq DOMAIN known
        BY <1>1 DEF Call, CallInv, Counted, FactsAre
    <2>3. request \in Requests /\ \A h \in DOMAIN known : known[h] \in DOMAIN chain \cup Forged \cup {Garbage, Missing}
        BY <1>1 DEF Call, IInv, Shape, Bytes
    <2>4. ASSUME report # None, NEW p \in report
          PROVE  p.hash \in DOMAIN chain /\ p.segment \in Segments /\ p.level \in 0..request.level
        <3>1. PICK k : ReportedOf(p, k)
            BY <1>1, <2>4, ReportIs, ReportFrom DEF Call
        <3> QED BY <3>1 DEF ReportedOf
    <2> QED BY <2>1, <2>2, <2>3, <2>4 DEF TypeOK, Awaits
<1> QED BY CallInvariance, <1>1, PTL

\* A source that drops events cannot hide a package from an exit status 0 of Level 2:
\* every intent of the transactions reported on that emitted under the name and can be
\* read is in the report, unless the bytes were taken on the indexer's word.
THEOREM NothingIsHidden == Spec => []NothingHidden
<1>1. ASSUME Call, ExitZero, request.level >= 2, NEW p \in report, NEW s \in Segments,
             LedgerParts(p.hash, s) # <<>>, ~Unreadable(chain[p.hash].tx, s, Target.contract),
             request.segment \in {None, s}, ~Unbacked(p.hash)
      PROVE  \E q \in report : q.hash = p.hash /\ q.segment = s
    <2>1. PICK h : h = p.hash
        OBVIOUS
    <2>2. report = Reports /\ p \in Reports /\ pc = "done"
        BY <1>1 DEF Call, CallInv, Reported, ExitZero
    <2>3. p.level >= 2
        <3>1. PICK k : ReportedOf(p, k)
            BY <1>1, <2>2, ReportFrom DEF Call
        <3>2. request.level \in 1..3
            BY <1>1, VerifierAssumption DEF Call, IInv, Shape
        <3> QED BY <1>1, <3>1, <3>2 DEF ExitZero, ReportedOf
    <2>4. Placed(p)
        BY <1>1, <2>2, ReportsMean DEF Call, IInv
    <2>5. h \in DOMAIN chain /\ chain[h].status \in Included /\ h \in DOMAIN facts /\ facts[h].raw = h
        BY <1>1, <2>1, <2>3, <2>4 DEF Placed, Passes, Unbacked
    <2>6. PICK t, succeeded : t = chain[h].tx /\ succeeded = chain[h].succeeded
        OBVIOUS
    <2>7. IsTx(t) /\ succeeded \in SUBSET (DOMAIN t.intents) /\ h \in Hashes /\ h \notin {Missing, Garbage}
        BY <1>1, <2>5, <2>6, BlockIs DEF Call, IInv
    <2>8. EmittedOf(chain[h], s) # <<>>
        BY <1>1, <2>1, <2>5, PartsAreOurs DEF Call, LedgerInv, LogIsLedger
    <2>9. Gather(AllItems(t, succeeded), Emitting(Target.contract, s, Target.name),
                 ItemPart(Target.contract, s, Target.name)) # <<>>
        BY <2>5, <2>6, <2>8 DEF EmittedOf
    <2>10. s \in DOMAIN t.intents => ~Unreadable(t, s, Target.contract)
        BY <1>1, <2>1, <2>6
    <2>11. s \in RawIntents(t, Target)
        BY <2>7, <2>9, <2>10, EmittedIsListed DEF RawIntents
    <2>12. PICK b \in Bytes : FactIs(h, b)
        BY <1>1, <2>5 DEF Call, CallInv, FactsAre
    <2>13. facts[h] = FactOf(h, h) /\ ~FromRaw(h, h).error
        BY <2>2, <2>5, <2>7, <2>12 DEF FactIs
    <2>14. PICK R : RawAs(h, h, R)
        BY <1>1, <2>5, <2>7, RawIs DEF Call, IInv
    <2>20. Decoded(h) = t
        BY <1>1, <2>5, <2>6, BytesAre DEF Call, IInv
    <2>15. PICK k : k = Mine(h, s)
        OBVIOUS
    <2>16. k \in DOMAIN FromRaw(h, h).packages /\ k.hash = h /\ k.segment = s
        BY <2>11, <2>13, <2>14, <2>15, <2>20 DEF RawAs, Mine, Group
    <2>17. InScope(k)
        BY <1>1, <2>16 DEF InScope
    <2>18. CASE k \in EventEntries
        <3>1. PICK q : q = [hash |-> k.hash, segment |-> k.segment, parts |-> FromEvents.packages[k].parts,
                            level |-> LevelOf(ChecksOf(k), request.level)]
            OBVIOUS
        <3>2. q \in Reports
            BY <2>18, <3>1 DEF Reports
        <3>3. q.hash = k.hash /\ q.segment = k.segment
            BY <3>1
        <3> QED BY <2>1, <2>2, <2>16, <3>2, <3>3
    <2>19. CASE k \notin EventEntries
        <3>1. k \in facts[h].rawOnly
            BY <2>7, <2>13, <2>16, <2>17, <2>19 DEF FactOf
        <3>2. PICK q : q = [hash |-> k.hash, segment |-> k.segment, parts |-> <<>>, level |-> 0]
            OBVIOUS
        <3>3. k \in UNION {facts[x].rawOnly : x \in DOMAIN facts}
            BY <2>5, <3>1
        <3>4. q \in Reports
            BY <3>2, <3>3 DEF Reports
        <3>5. q.hash = k.hash /\ q.segment = k.segment
            BY <3>2
        <3> QED BY <2>1, <2>2, <2>16, <3>4, <3>5
    <2> QED BY <2>18, <2>19
<1>2. Call => NothingHidden
    BY <1>1 DEF NothingHidden
<1> QED BY CallInvariance, <1>2, PTL

-----------------------------------------------------------------------------
(* The pages of an honest indexer *)

\* The items are the first of the events the filter lets through.
Prefix == DOMAIN items \subseteq DOMAIN Filtered /\ items = [j \in DOMAIN items |-> Item(Filtered[j])]

\* Of these, none that was there when the paging began is missing.
Complete == \A j \in DOMAIN Filtered : Filtered[j].hash <= known0 => j \in DOMAIN items

\* The transaction asked for was not there when the call began.
NotThere == pc = "done" /\ report = {} /\ request.hash # None /\ request.hash > known0

\* The course of the paging, as long as nothing is served wrongly.
Paged ==
    /\ Prefix
    /\ pc = "start" => items = <<>> /\ offset = 0
    /\ pc = "paging" => offset = Len(items)
    /\ pc \in {"read", "raw", "report"} => Complete
    /\ pc = "done" => NotThere \/ (Complete /\ report = Reports /\ Settled)

PagedInv == lies = 0 => Paged

\* A log that goes on adds to what the filter lets through, at the end.
FilterGrows(n, more, both) ==
    /\ more \in Seq(Events) /\ \A j \in DOMAIN more : more[j].hash = n
    /\ FollowedBy(Filtered, more, both) /\ Filtered' = both

\* A step of the chain lets more through.
LEMMA GrowFilter ==
    ASSUME LogShape, NEW l, NEW n, NEW new, Grown(l, n, new), request' = request
    PROVE  \E more, both : FilterGrows(n, more, both)
<1>1. PICK old, asked : old = log /\ asked = request.hash
    OBVIOUS
<1>2. /\ old \in Seq(Events) /\ new \in Seq(Events) /\ log' = old \o new
      /\ \A j \in DOMAIN new : new[j].hash = n
    BY <1>1 DEF LogShape, Grown, Adds
<1>3. PICK both : FollowedBy(old, new, both)
    BY <1>2, InConcat
<1>4. both = log' /\ DOMAIN both = 1..Len(both) /\ Len(both) = Len(old) + Len(new)
      /\ Len(old) \in Nat /\ Len(new) \in Nat /\ DOMAIN old = 1..Len(old) /\ DOMAIN new = 1..Len(new)
    BY <1>2, <1>3, LenProperties DEF FollowedBy
<1>5. PICK I, J, K : /\ I = {j \in DOMAIN old : asked \in {None, old[j].hash}}
                     /\ J = {j \in DOMAIN new : asked \in {None, new[j].hash}}
                     /\ K = {j \in DOMAIN both : asked \in {None, both[j].hash}}
    OBVIOUS
<1>6. K = Beside(old, I, J)
    <2>1. PICK lo \in Nat, ln \in Nat : lo = Len(old) /\ ln = Len(new)
        BY <1>4
    <2>2. \A j \in 1..lo : both[j] = old[j]
        BY <1>3, <1>4, <2>1 DEF FollowedBy
    <2>3. \A j \in 1..ln : both[lo + j] = new[j]
        <3>1. (old \o new)[lo + ln] = (old \o new)[lo + ln] /\ both = old \o new
            BY <1>3 DEF FollowedBy
        <3>2. \A i \in 1..lo + ln : both[i] = IF i <= lo THEN old[i] ELSE new[i - lo]
            BY <1>2, <2>1, <3>1, ConcatProperties
        <3>3. \A j \in 1..ln : lo + j \in 1..lo + ln /\ ~(lo + j <= lo) /\ lo + j - lo = j
            BY <2>1
        <3> QED BY <3>2, <3>3
    <2>4. DOMAIN both = 1..(lo + ln) /\ DOMAIN old = 1..lo /\ DOMAIN new = 1..ln
        BY <1>4, <2>1
    <2>5. ASSUME NEW j \in K PROVE j \in Beside(old, I, J)
        <3>1. j \in 1..(lo + ln) /\ asked \in {None, both[j].hash}
            BY <1>5, <2>4
        <3>2. CASE j <= lo
            BY <1>5, <2>2, <2>4, <3>1, <3>2 DEF Beside
        <3>3. CASE j > lo
            <4>1. PICK i \in 1..ln : j = lo + i
                <5>1. j - lo \in 1..ln /\ j = lo + (j - lo)
                    BY <3>1, <3>3
                <5> QED BY <5>1
            <4>2. i \in J
                BY <1>5, <2>3, <2>4, <3>1, <4>1
            <4> QED BY <2>1, <4>1, <4>2 DEF Beside
        <3> QED BY <2>1, <3>1, <3>2, <3>3
    <2>6. ASSUME NEW j \in Beside(old, I, J) PROVE j \in K
        <3>1. CASE j \in I
            <4>1. j \in 1..lo /\ j \in 1..(lo + ln)
                BY <1>5, <2>1, <2>4, <3>1
            <4> QED BY <1>5, <2>2, <2>4, <3>1, <4>1
        <3>2. CASE j \notin I
            <4>1. PICK i \in J : j = lo + i
                BY <2>1, <3>2 DEF Beside
            <4>2. i \in 1..ln /\ j \in 1..(lo + ln)
                BY <1>5, <2>1, <2>4, <4>1
            <4> QED BY <1>5, <2>3, <2>4, <4>1, <4>2
        <3> QED BY <3>1, <3>2
    <2> QED BY <2>5, <2>6
<1>7. I \in SUBSET (DOMAIN old) /\ J \in SUBSET (DOMAIN new)
    BY <1>5
<1>8. Kept(both, K) = Kept(old, I) \o Kept(new, J)
    <2>1. Kept(old \o new, Beside(old, I, J)) = Kept(old, I) \o Kept(new, J)
        <3>1. old \in Seq(Events) /\ new \in Seq(Events)
            BY <1>2
        <3> HIDE DEF Beside
        <3> QED BY <1>7, <3>1, KeptConcat
    <2> QED BY <1>3, <1>6, <2>1 DEF FollowedBy
<1>9. PICK front, more : front = Kept(old, I) /\ more = Kept(new, J)
    OBVIOUS
<1>10. /\ front \in Seq(Events) /\ more \in Seq(Events)
       /\ \A j \in DOMAIN more : \E i \in J : more[j] = new[i]
    BY <1>2, <1>7, <1>9, KeptType
<1>11. \A j \in DOMAIN more : more[j].hash = n
    BY <1>2, <1>7, <1>10
<1>12. PICK all : FollowedBy(front, more, all)
    BY <1>10, InConcat
<1>13. Filtered = front
    BY <1>1, <1>5, <1>9 DEF Filtered
<1>14. Filtered' = all
    <2>1. Filtered' = Kept(both, K)
        BY <1>1, <1>4, <1>5 DEF Filtered
    <2> QED BY <1>8, <1>9, <1>12, <2>1 DEF FollowedBy
<1>15. FilterGrows(n, more, all)
    BY <1>10, <1>11, <1>12, <1>13, <1>14 DEF FilterGrows
<1> QED BY <1>15

\* The chain grows under the paging.
LEMMA GrowPaged == ASSUME IInv, LedgerInv, CallInv, PagedInv, Grow PROVE PagedInv'
<1>1. UNCHANGED <<lies, request, pc, known, offset, items, known0, facts, report>> /\ pc # "done"
    BY DEF Grow
<1> SUFFICES ASSUME lies = 0 PROVE Paged'
    BY <1>1 DEF PagedInv
<1>2. PICK l \in Landings : \E n, new : Grown(l, n, new)
    BY GrownLog DEF IInv, LedgerInv
<1>3. PICK n, new : Grown(l, n, new)
    BY <1>2
<1>4. PICK more, both : FilterGrows(n, more, both)
    BY <1>1, <1>3, GrowFilter DEF LedgerInv
<1>5. /\ FollowedBy(Filtered, more, both) /\ Filtered' = both
      /\ \A j \in DOMAIN more : more[j].hash = n
    BY <1>4 DEF FilterGrows
<1>6. ~(n <= known0)
    <2>1. n = Len(chain) + 1 /\ Len(chain) \in Nat /\ known0 \in 0..Len(chain)
        BY <1>3, LenProperties DEF Grown, IInv, Shape, CallInv, Counted
    <2> QED BY <2>1
<1>7. /\ DOMAIN items \subseteq DOMAIN both
      /\ items = [j \in DOMAIN items |-> Item(both[j])]
    BY <1>5 DEF PagedInv, Paged, Prefix, FollowedBy
<1>8. Prefix'
    BY <1>1, <1>5, <1>7 DEF Prefix, Item
<1>9. Complete => Complete'
    <2>1. SUFFICES ASSUME Complete, NEW j \in DOMAIN both, both[j].hash <= known0 PROVE j \in DOMAIN items
        BY <1>1, <1>5 DEF Complete
    <2>2. j \in DOMAIN Filtered
        BY <1>5, <1>6, <2>1 DEF FollowedBy
    <2>3. both[j] = Filtered[j]
        BY <1>5, <2>2 DEF FollowedBy
    <2> QED BY <2>1, <2>2, <2>3 DEF Complete
<1> QED BY <1>1, <1>8, <1>9 DEF PagedInv, Paged, NotThere

\* A page follows the ones before it.
LEMMA PagePaged == ASSUME IInv, LedgerInv, CallInv, PagedInv, NextPage PROVE PagedInv'
<1>1. UNCHANGED <<chain, log, request, known, known0, facts, report>> /\ pc = "paging"
    BY DEF NextPage
<1>2. PICK a \in Serves(Page) :
        /\ lies' = lies + a.lies
        /\ items' = items \o a.items
        /\ pc' = IF TooMany(a.items) THEN "failed" ELSE IF LastPage(a.items) THEN "read" ELSE "paging"
        /\ offset' = offset + PageSize
    BY DEF NextPage
<1>3. ServedPage(a) /\ offset \in Nat
    BY <1>2, ServesPage DEF CallInv, Counted, LedgerInv
<1> SUFFICES ASSUME lies' = 0 PROVE Paged'
    BY DEF PagedInv
<1>4. lies = 0 /\ a.lies = 0
    BY <1>2, <1>3 DEF ServedPage, CallInv, Counted
<1>5. PICK F, old, pg, new : F = Filtered /\ old = items /\ pg = Page /\ new = a.items
    OBVIOUS
<1>6. /\ F \in Seq(Events) /\ pg \in Seq(Events)
      /\ \A j \in DOMAIN pg : offset + j \in DOMAIN F /\ pg[j] = F[offset + j]
      /\ Len(F) <= offset + PageSize => Len(pg) = (IF offset < Len(F) THEN Len(F) - offset ELSE 0)
      /\ Len(F) > offset + PageSize => Len(pg) = PageSize
    BY <1>3, <1>5, PageShape DEF LedgerInv
<1>7. new = [j \in DOMAIN pg |-> Item(pg[j])]
    BY <1>3, <1>4, <1>5 DEF ServedPage
<1>8. /\ DOMAIN old \subseteq DOMAIN F /\ old = [j \in DOMAIN old |-> Item(F[j])]
      /\ offset = Len(old) /\ old \in Seq(Served) /\ new \in Seq(Served)
    BY <1>1, <1>3, <1>4, <1>5 DEF PagedInv, Paged, Prefix, CallInv, ItemsShape, ServedPage
<1>9. PICK o \in Nat, z \in Nat, f \in Nat, p \in Nat : o = offset /\ z = PageSize /\ f = Len(F) /\ p = Len(pg)
    BY <1>3, <1>6, VerifierAssumption, LenProperties
<1>10. /\ DOMAIN F = 1..f /\ DOMAIN pg = 1..p /\ DOMAIN old = 1..o /\ o = Len(old) /\ z > 0
       /\ Len(new) = p /\ DOMAIN new = 1..p
    <2>1. DOMAIN F = 1..f /\ DOMAIN pg = 1..p /\ DOMAIN old = 1..o /\ o = Len(old) /\ z > 0
        BY <1>6, <1>8, <1>9, VerifierAssumption, LenProperties
    <2>2. DOMAIN new = 1..p
        BY <1>7, <2>1
    <2>3. DOMAIN new = 1..Len(new) /\ Len(new) \in Nat
        BY <1>8, LenProperties
    <2> QED BY <2>1, <2>2, <2>3
<1>11. o <= f
    BY <1>8, <1>10
<1>12. /\ f <= o + z => p = f - o
       /\ f > o + z => p = z
    BY <1>6, <1>9, <1>11
<1>13. PICK both : both = old \o new
    OBVIOUS
<1>14. /\ both = items' /\ both \in Seq(Served) /\ Len(both) = o + p
       /\ \A i \in 1..(o + p) : both[i] = IF i <= o THEN old[i] ELSE new[i - o]
    <2>1. /\ old \o new \in Seq(Served) /\ Len(old \o new) = Len(old) + Len(new)
          /\ \A i \in 1..Len(old) + Len(new) : (old \o new)[i] = IF i <= Len(old) THEN old[i] ELSE new[i - Len(old)]
        BY <1>8, ConcatProperties
    <2> QED BY <1>2, <1>5, <1>10, <1>13, <2>1
<1>15. DOMAIN both = 1..(o + p)
    BY <1>14, LenProperties
<1>16. ASSUME NEW i \in 1..(o + p) PROVE i \in DOMAIN F /\ both[i] = Item(F[i])
    <2>1. CASE i <= o
        <3>1. i \in 1..o
            BY <2>1
        <3> QED BY <1>8, <1>10, <1>14, <2>1, <3>1
    <2>2. CASE i > o
        <3>1. PICK j \in 1..p : j = i - o /\ o + j = i
            <4>1. i - o \in 1..p /\ o + (i - o) = i
                BY <2>2
            <4> QED BY <4>1
        <3>2. both[i] = new[j]
            BY <1>14, <2>2, <3>1
        <3>3. new[j] = Item(pg[j])
            BY <1>7, <1>10
        <3>4. i \in DOMAIN F /\ pg[j] = F[i]
            BY <1>6, <1>9, <1>10, <3>1
        <3> QED BY <3>2, <3>3, <3>4
    <2> QED BY <2>1, <2>2
<1>17. both = [j \in DOMAIN both |-> Item(F[j])] /\ DOMAIN both \subseteq DOMAIN F
    <2>1. both \in [1..(o + p) -> Served]
        BY <1>14, SeqDef, LenProperties
    <2>2. DOMAIN both \subseteq DOMAIN F /\ \A j \in DOMAIN both : both[j] = Item(F[j])
        BY <1>15, <1>16
    <2> QED BY <2>1, <2>2
<1>18. Filtered' = F
    BY <1>1, <1>5 DEF Filtered
<1>19. Prefix'
    BY <1>14, <1>17, <1>18 DEF Prefix, Item
<1>20. pc' = "paging" => offset' = Len(both)
    <2>1. pc' = "paging" => ~(Len(new) < PageSize)
        BY <1>2, <1>5 DEF LastPage
    <2>2. pc' = "paging" => ~(p < z)
        BY <1>9, <1>10, <2>1
    <2>3. p <= z
        BY <1>12
    <2>4. offset' = o + z /\ Len(both) = o + p
        BY <1>2, <1>9, <1>14
    <2> QED BY <2>2, <2>3, <2>4
<1>21. pc' = "read" => Complete'
    <2>1. pc' = "read" => Len(new) < PageSize
        BY <1>2, <1>5 DEF LastPage
    <2>2. pc' = "read" => p < z
        BY <1>9, <1>10, <2>1
    <2>3. pc' = "read" => o + p = f
        BY <1>11, <1>12, <2>2
    <2>4. pc' = "read" => DOMAIN both = DOMAIN F
        BY <1>10, <1>15, <2>3
    <2> QED BY <1>14, <1>18, <2>4 DEF Complete
<1>22. pc' \in {"failed", "read", "paging"}
    BY <1>2
<1> QED BY <1>14, <1>19, <1>20, <1>21, <1>22 DEF Paged

\* A call that starts has paged nothing; without the transaction asked for it ends.
LEMMA StartPaged == ASSUME IInv, CallInv, PagedInv, Start PROVE PagedInv'
<1>1. /\ UNCHANGED <<chain, log, request, offset, items, facts>> /\ known0' = Len(chain) /\ pc = "start"
    BY DEF Start
<1>2. PICK a \in IF request.hash = None THEN {[raw |-> Missing, lies |-> 0]} ELSE ServesRaw(request.hash) :
        /\ lies' = lies + a.lies
        /\ \/ request.hash = None /\ pc' = "paging"
           \/ request.hash # None /\ a.raw = Missing /\ pc' = "done" /\ report' = {}
           \/ request.hash # None /\ a.raw # Missing /\ pc' = "paging"
    BY DEF Start
<1>3. a.lies \in {0, 1}
    BY <1>2 DEF ServesRaw
<1> SUFFICES ASSUME lies' = 0 PROVE Paged'
    BY DEF PagedInv
<1>4. lies = 0 /\ a.lies = 0
    BY <1>2, <1>3 DEF CallInv, Counted
<1>5. Prefix' /\ items = <<>> /\ offset = 0
    BY <1>1, <1>4 DEF PagedInv, Paged, Prefix, Filtered, Item
<1>6. pc' = "paging" => offset' = Len(items')
    BY <1>1, <1>5
<1>7. pc' = "done" => NotThere'
    <2> SUFFICES ASSUME pc' = "done" PROVE request.hash # None /\ report' = {} /\ request.hash > Len(chain)
        BY <1>1 DEF NotThere
    <2>1. request.hash # None /\ a.raw = Missing /\ report' = {} /\ a \in ServesRaw(request.hash)
        BY <1>2
    <2>2. request.hash \in 1..MaxBlocks /\ MaxBlocks \in Nat
        BY <2>1, VerifierAssumption DEF IInv, Shape
    <2>3. request.hash # Missing
        BY <2>2 DEF Missing
    <2>4. request.hash \notin DOMAIN chain
        BY <1>4, <2>1, <2>3 DEF ServesRaw
    <2>5. Len(chain) \in Nat /\ DOMAIN chain = 1..Len(chain)
        BY LenProperties DEF IInv, Shape
    <2> QED BY <2>1, <2>2, <2>4, <2>5
<1>8. pc' \in {"paging", "done"}
    BY <1>2
<1> QED BY <1>1, <1>5, <1>6, <1>7, <1>8 DEF Paged

\* The other steps leave the items as they are.
LEMMA RestPaged ==
    ASSUME CallInv, PagedInv, ReadEvents \/ ReadRaw \/ Finish \/ SourceFails \/ UNCHANGED vars
    PROVE  PagedInv'
<1>1. /\ UNCHANGED <<chain, log, request, items, offset, known0>>
      /\ pc \in {"read", "raw", "report"} \/ pc' = pc \/ pc' = "failed"
      /\ pc' \in {"raw", "report", "failed", "done"} \/ pc' = pc
      /\ pc = "done" => pc' = "done" /\ report' = report
    BY DEF ReadEvents, ReadRaw, Finish, SourceFails, vars
<1>2. Filtered' = Filtered
    BY <1>1 DEF Filtered
<1>3. lies' = 0 => lies = 0
    <2>1. CASE ReadRaw
        <3>1. PICK h \in Wanted \ DOMAIN facts :
                \E a \in IF h \in DOMAIN known THEN {[raw |-> known[h], lies |-> 0]} ELSE ServesRaw(h) :
                    lies' = lies + a.lies
            BY <2>1 DEF ReadRaw
        <3>2. PICK a \in IF h \in DOMAIN known THEN {[raw |-> known[h], lies |-> 0]} ELSE ServesRaw(h) :
                    lies' = lies + a.lies
            BY <3>1
        <3>3. a.lies \in {0, 1}
            BY <3>2 DEF ServesRaw
        <3> QED BY <3>2, <3>3 DEF CallInv, Counted
    <2>2. CASE ~ReadRaw
        BY <2>2 DEF ReadEvents, Finish, SourceFails, vars
    <2> QED BY <2>1, <2>2
<1>4. Prefix' <=> Prefix
    BY <1>1, <1>2 DEF Prefix, Item
<1>5. Complete' <=> Complete
    BY <1>1, <1>2 DEF Complete
<1>6. NotThere => NotThere'
    BY <1>1 DEF NotThere
<1>7. pc' = "done" => pc = "done" \/ (pc = "report" /\ report' = Reports /\ Settled)
    BY DEF ReadEvents, ReadRaw, Finish, SourceFails, vars, CallInv, Reported
<1>8. pc' = "done" => Reports' = Reports /\ Settled' = Settled
    <2>1. pc' = "done" => UNCHANGED <<chain, items, request, facts>>
        BY DEF ReadEvents, ReadRaw, Finish, SourceFails, vars
    <2>2. pc' = "done" => Reports' = Reports
        BY <2>1, SameReports
    <2>3. pc' = "done" => FromEvents' = FromEvents /\ Wanted' = Wanted
        BY <2>1, SameEntries
    <2> QED BY <2>1, <2>2, <2>3 DEF Settled
<1>9. pc' \in {"read", "raw", "report"} => pc \in {"read", "raw", "report"}
    BY DEF ReadEvents, ReadRaw, Finish, SourceFails, vars
<1>10. pc' \in {"start", "paging"} => pc' = pc
    BY <1>1
<1> QED BY <1>1, <1>3, <1>4, <1>5, <1>6, <1>7, <1>8, <1>9, <1>10 DEF PagedInv, Paged

\* Every step keeps the course of the paging.
LEMMA PagedStays == ASSUME IInv, LedgerInv, CallInv, PagedInv, [Next]_vars PROVE PagedInv'
BY GrowPaged, PagePaged, StartPaged, RestPaged DEF Next

\* Before the call starts nothing is paged.
LEMMA InitPaged == Init => PagedInv
<1> SUFFICES ASSUME Init PROVE Paged
    BY DEF PagedInv
<1>1. items = <<>> /\ offset = 0 /\ pc = "start"
    BY DEF Init
<1>2. Prefix
    BY <1>1 DEF Prefix
<1> QED BY <1>1, <1>2 DEF Paged

\* It holds at all times.
LEMMA PagedInvariance == Spec => [](Call /\ PagedInv)
<1>1. Init => PagedInv
    BY InitPaged
<1>2. Call /\ PagedInv /\ [Next]_vars => PagedInv'
    BY PagedStays DEF Call
<1> QED BY CallInvariance, <1>1, <1>2, PTL DEF Spec

\* An honest indexer, asked while it grows, serves every event it had when the paging
\* began, once and in order.
THEOREM PagesAreComplete == Spec => []PagesComplete
<1>1. PagedInv => PagesComplete
    BY DEF PagedInv, Paged, Prefix, Complete, NotThere, PagesComplete
<1> QED BY PagedInvariance, <1>1, PTL

-----------------------------------------------------------------------------
(* The bytes of an honest indexer *)

\* A transaction's bytes are its own.
Fetched ==
    /\ pc # "done" => \A h \in DOMAIN known : known[h] = h
    /\ \A h \in DOMAIN facts : facts[h].raw = h

FetchedInv == lies = 0 => Fetched

\* Every step keeps that.
LEMMA FetchedStays == ASSUME IInv, LogShape, CallInv, FetchedInv, [Next]_vars PROVE FetchedInv'
<1>1. ASSUME lies' = lies, UNCHANGED <<known, facts>>, pc = "done" => pc' = "done"
      PROVE  FetchedInv'
    BY <1>1 DEF FetchedInv, Fetched
<1>2. CASE Grow \/ ReadEvents \/ Finish \/ SourceFails \/ UNCHANGED vars
    BY <1>1, <1>2 DEF Grow, ReadEvents, Finish, SourceFails, vars
<1>3. CASE NextPage
    <2>1. UNCHANGED <<known, facts>> /\ pc = "paging" /\ \E a \in Serves(Page) : lies' = lies + a.lies
        BY <1>3 DEF NextPage
    <2>2. PICK a \in Serves(Page) : lies' = lies + a.lies
        BY <2>1
    <2>3. a.lies \in {0, 1}
        BY <2>2, ServesPage DEF ServedPage, CallInv, Counted
    <2>4. lies' = 0 => lies = 0
        BY <2>2, <2>3 DEF CallInv, Counted
    <2> QED BY <2>1, <2>4 DEF FetchedInv, Fetched
<1>4. CASE Start
    <2>1. pc = "start" /\ UNCHANGED <<chain, request, facts>>
        BY <1>4 DEF Start
    <2>2. DOMAIN facts = {}
        BY <2>1 DEF CallInv, FactsAre
    <2>3. CASE request.hash = None
        <3>1. lies' = lies + 0 /\ UNCHANGED known
            BY <1>4, <2>3 DEF Start
        <3>2. lies' = 0 => lies = 0
            BY <3>1 DEF CallInv, Counted
        <3> QED BY <2>1, <3>1, <3>2 DEF FetchedInv, Fetched
    <2>4. CASE request.hash # None
        <3>1. PICK h : h = request.hash
            OBVIOUS
        <3>2. PICK a \in ServesRaw(h) :
                /\ lies' = lies + a.lies /\ known' = [x \in {h} |-> a.raw]
                /\ a.raw = Missing => pc' = "done"
            BY <1>4, <2>4, <3>1 DEF Start
        <3>3. a.lies \in {0, 1} /\ (a.lies = 0 => a.raw = h \/ a.raw = Missing)
            BY <3>2 DEF ServesRaw
        <3>4. lies' = 0 => a.lies = 0
            BY <3>2, <3>3 DEF CallInv, Counted
        <3> QED BY <2>1, <2>2, <3>2, <3>3, <3>4 DEF FetchedInv, Fetched
    <2> QED BY <2>3, <2>4
<1>5. CASE ReadRaw
    <2>1. PICK h \in Wanted \ DOMAIN facts :
            \E a \in IF h \in DOMAIN known THEN {[raw |-> known[h], lies |-> 0]} ELSE ServesRaw(h) :
                /\ lies' = lies + a.lies
                /\ known' = [x \in DOMAIN known \cup {h} |-> IF x = h THEN a.raw ELSE known[x]]
                /\ facts' = [x \in DOMAIN facts \cup {h} |-> IF x = h THEN FactOf(h, a.raw) ELSE facts[x]]
        BY <1>5 DEF ReadRaw
    <2>2. PICK a \in IF h \in DOMAIN known THEN {[raw |-> known[h], lies |-> 0]} ELSE ServesRaw(h) :
                /\ lies' = lies + a.lies
                /\ known' = [x \in DOMAIN known \cup {h} |-> IF x = h THEN a.raw ELSE known[x]]
                /\ facts' = [x \in DOMAIN facts \cup {h} |-> IF x = h THEN FactOf(h, a.raw) ELSE facts[x]]
        BY <2>1
    <2>3. h \in DOMAIN chain /\ pc = "raw"
        BY <1>5, <2>1, WantedOnChain DEF ReadRaw, CallInv, AskedFor
    <2>4. a.lies \in {0, 1}
        BY <2>2 DEF ServesRaw
    <2> SUFFICES ASSUME lies' = 0 PROVE Fetched'
        BY DEF FetchedInv
    <2>5. lies = 0 /\ a.lies = 0
        BY <2>2, <2>4 DEF CallInv, Counted
    <2>6. Fetched
        BY <2>5 DEF FetchedInv
    <2>7. a.raw = h
        BY <2>2, <2>3, <2>5, <2>6 DEF Fetched, ServesRaw
    <2>8. FactOf(h, a.raw).raw = h
        BY <2>7 DEF FactOf
    <2> QED BY <2>2, <2>3, <2>6, <2>7, <2>8 DEF Fetched
<1> QED BY <1>2, <1>3, <1>4, <1>5 DEF Next

-----------------------------------------------------------------------------
(* What an honest indexer's packages reach *)

\* The fields of an event served as it is.
LEMMA ItemFields ==
    ASSUME NEW e
    PROVE  Item(e).event = e /\ Item(e).label = e.hash /\ Item(e).agrees = TRUE /\ Item(e).id = e.position
BY DEF Item

\* A log as long as a prefix: what an honest indexer served is read event by event.
LEMMA HonestConverted ==
    ASSUME LogShape, Prefix, ItemsShape
    PROVE  /\ DOMAIN items \in SUBSET (DOMAIN Filtered)
           /\ Converted = Kept(Filtered, DOMAIN items)
           /\ IssueHashes = {}
<1>1. PICK F, m : F = Filtered /\ m = Len(items)
    OBVIOUS
<1>2. /\ m \in Nat /\ DOMAIN items = 1..m /\ DOMAIN items \in SUBSET (DOMAIN F)
      /\ items = [j \in DOMAIN items |-> Item(F[j])] /\ items \in Seq(Served)
    BY <1>1, LenProperties DEF Prefix, ItemsShape
<1>3. F \in Seq(Events) /\ \A j \in DOMAIN F : \E i \in DOMAIN log : F[j] = log[i]
    <2>1. PICK I : I = {j \in DOMAIN log : request.hash \in {None, log[j].hash}}
        OBVIOUS
    <2>2. I \in SUBSET (DOMAIN log) /\ F = Kept(log, I)
        BY <1>1, <2>1 DEF Filtered
    <2> QED BY <2>2, KeptType DEF LogShape
<1>4. \A j \in 1..m : F[j] \in Events
    BY <1>2, <1>3, ElementOfSeq, LenProperties
<1>5. \A j \in 1..m : items[j].event = F[j] /\ items[j].label = F[j].hash /\ items[j].agrees = TRUE /\ items[j].id = F[j].position
    <2>1. TAKE j \in 1..m
    <2>2. PICK e, i : e = F[j] /\ i = items[j]
        OBVIOUS
    <2>3. i = Item(e)
        BY <1>2, <2>2
    <2>4. i.event = e /\ i.label = e.hash /\ i.agrees = TRUE /\ i.id = e.position
        BY <2>3, ItemFields
    <2> QED BY <2>2, <2>4
<1>6. IssueHashes = {}
    BY <1>2, <1>4, <1>5, VerifierAssumption DEF IssueHashes, HasIssue
<1>7. PICK f : f = [k \in 1..m |-> k]
    OBVIOUS
<1>8. Rising(f, m, 1..m)
    BY <1>7 DEF Rising
<1>9. 1..m \in SUBSET Int
    OBVIOUS
<1>10. Kept(items, 1..m) = [k \in 1..m |-> items[f[k]]] /\ Kept(F, 1..m) = [k \in 1..m |-> F[f[k]]]
    BY <1>2, <1>8, <1>9, KeptAlong
<1>11. {j \in DOMAIN items : items[j].event # None} = 1..m
    BY <1>2, <1>4, <1>5, VerifierAssumption
<1>12. PICK decoded : decoded = Kept(items, 1..m)
    OBVIOUS
<1>13. DOMAIN decoded = 1..m /\ \A k \in 1..m : decoded[k] = items[k]
    BY <1>7, <1>10, <1>12
<1>14. Converted = [j \in DOMAIN decoded |-> [decoded[j].event EXCEPT !.position = decoded[j].id]]
    BY <1>11, <1>12 DEF Converted
<1>15. ASSUME NEW j \in 1..m PROVE [decoded[j].event EXCEPT !.position = decoded[j].id] = F[j]
    <2>1. PICK e : e = F[j]
        OBVIOUS
    <2>2. decoded[j].event = e /\ decoded[j].id = e.position
        BY <1>5, <1>13, <2>1
    <2>3. e = [network |-> e.network, contract |-> e.contract, hash |-> e.hash,
               segment |-> e.segment, position |-> e.position, value |-> e.value]
        BY <1>4, <2>1, EventFields
    <2>4. [e EXCEPT !.position = e.position] = e
        BY <2>3
    <2> QED BY <2>1, <2>2, <2>4
<1>16. Kept(F, 1..m) = [j \in 1..m |-> F[j]]
    BY <1>7, <1>10
<1>17. Converted = Kept(F, 1..m)
    BY <1>13, <1>14, <1>15, <1>16
<1> QED BY <1>1, <1>2, <1>6, <1>17

\* What is read of the served events for an intent whose events were all there.
HonestRead(h, s, k, pkg) ==
    /\ k = Mine(h, s) /\ k \in DOMAIN FromEvents.packages /\ pkg = FromEvents.packages[k]
    /\ pkg.status = "accepted" /\ pkg.parts = LedgerParts(h, s)

\* The package is the intent's, accepted, whole.
LEMMA HonestPackage ==
    ASSUME LogShape, Prefix, ItemsShape, Complete, ~FromEvents.error,
           NEW h, NEW s, h <= known0, request.hash \in {None, h}, LedgerParts(h, s) # <<>>
    PROVE  \E k, pkg : HonestRead(h, s, k, pkg)
<1>1. PICK F, evs, k, I : /\ F = Filtered /\ evs = Converted /\ k = Mine(h, s)
                          /\ I = {j \in DOMAIN log : request.hash \in {None, log[j].hash}}
    OBVIOUS
<1>2. Maps(EventPart(k), OfGroup(k), Parts)
    BY EventPartMaps
<1>3. F = Kept(log, I) /\ I \in SUBSET (DOMAIN log) /\ log \in Seq(Events)
    BY <1>1 DEF Filtered, LogShape
<1>4. \A i \in DOMAIN log : log[i] \in OfGroup(k) => i \in I
    BY <1>1, OfMine DEF LogShape
<1>5. Gather(F, OfGroup(k), EventPart(k)) = Gather(log, OfGroup(k), EventPart(k))
    BY <1>2, <1>3, <1>4, GatherKept
<1>6. F \in Seq(Events) /\ \A j \in DOMAIN F : \E i \in I : F[j] = log[i]
    BY <1>3, KeptType
<1>7. \A i, j \in DOMAIN F : i < j => F[i].position < F[j].position
    BY <1>3, KeptRises DEF LogShape
<1>8. PICK D : D = DOMAIN items
    OBVIOUS
<1>9. D \in SUBSET (DOMAIN F) /\ evs = Kept(F, D) /\ IssueHashes = {}
    BY <1>1, <1>8, HonestConverted
<1>10. \A i \in DOMAIN F : F[i] \in OfGroup(k) => i \in D
    <2>1. TAKE i \in DOMAIN F
    <2>2. OfLog(F[i])
        BY <1>3, <1>6 DEF LogShape
    <2> QED BY <1>1, <1>8, <2>2, OfMine DEF Complete
<1>11. Gather(evs, OfGroup(k), EventPart(k)) = Gather(F, OfGroup(k), EventPart(k))
    BY <1>2, <1>6, <1>9, <1>10, GatherKept
<1>12. Gather(evs, OfGroup(k), EventPart(k)) = LedgerParts(h, s)
    BY <1>1, <1>5, <1>11, PartsAreOurs DEF Ours
<1>13. evs \in Seq(Events) /\ \A j \in DOMAIN evs : \E i \in D : evs[j] = F[i]
    BY <1>6, <1>9, KeptType
<1>14. \A i, j \in DOMAIN evs : i < j => evs[i].position < evs[j].position
    BY <1>6, <1>7, <1>9, KeptRises
<1>15. \A i \in DOMAIN evs : OfLog(evs[i]) /\ ~evs[i].value.long
    BY <1>1, ConvertedShape DEF OfLog
<1>16. PICK l, R : ReadAs(evs, Opted, l, R)
    BY <1>13, OptedAsks, ReadIs
<1>17. R = FromEvents /\ l = Len(evs) /\ ~R.error /\ DOMAIN R.packages = KeysOf(evs, Opted, l)
    BY <1>1, <1>16 DEF ReadAs, FromEvents
<1>18. PICK g : TargetTurns(evs, Opted, Target, Network, h, s, g)
    BY <1>13, OptedAsks, TurnsWhere
<1>19. /\ g = k /\ Turns(evs, Opted, k, l) = Where(evs, OfGroup(k))
       /\ \A j \in DOMAIN evs : GroupKey(evs[j]) = k => OptedIn(evs[j], Opted)
    BY <1>1, <1>17, <1>18 DEF TargetTurns, Mine
<1>20. PICK j \in DOMAIN evs : evs[j] \in OfGroup(k)
    BY <1>2, <1>12, <1>13, GatherNothing
<1>21. k \in KeysOf(evs, Opted, l)
    <2>1. j \in 1..l /\ GroupKey(evs[j]) = k
        BY <1>13, <1>17, <1>20, LenProperties DEF OfGroup
    <2> QED BY <1>19, <2>1 DEF KeysOf
<1>22. PICK ds, n : PackageRead(evs, Opted, R, k, ds, n)
    BY <1>13, <1>16, <1>17, <1>21, OptedAsks, PackagesAre
<1>23. ds = Those(evs, OfGroup(k)) /\ ds \in Seq(Events) /\ PackageOf(ds, n, R.packages[k])
    BY <1>17, <1>19, <1>22 DEF PackageRead, GroupOf, Those
<1>24. Clean(ds)
    BY <1>13, <1>14, <1>15, <1>23, ThoseClean
<1>25. PICK pkg : pkg = R.packages[k]
    OBVIOUS
<1>26. pkg.status = "accepted" /\ pkg.parts = [i \in DOMAIN ds |-> ds[i].value.part]
    BY <1>23, <1>24, <1>25, CleanPackage
<1>27. pkg.parts = LedgerParts(h, s)
    BY <1>12, <1>13, <1>23, <1>26, PartsOfThose
<1>28. HonestRead(h, s, k, pkg)
    BY <1>1, <1>17, <1>21, <1>25, <1>26, <1>27 DEF HonestRead
<1> QED BY <1>28

\* The checks of Level 2 that such a package's transaction passes.
LEMMA HonestFact ==
    ASSUME IInv, NEW h \in DOMAIN chain, chain[h].status \in Included
    PROVE  \A c \in FactChecks(h, h) : c.level = 2 /\ c.ok
<1>1. h \notin {Missing, Garbage}
    BY BlockIs DEF IInv
<1>2. FactChecks(h, h) \subseteq {Check(2, chain[h].status \in Included), Check(2, OwnHash(h) \in {None, h}),
                                  Check(2, h = h)}
    BY <1>1 DEF FactChecks
<1>6. OwnHash(h) = h
    BY BytesAre DEF IInv
<1>7. Check(2, OwnHash(h) \in {None, h}).level = 2 /\ Check(2, OwnHash(h) \in {None, h}).ok
    BY <1>6, CheckFields
<1>3. /\ Check(2, chain[h].status \in Included).level = 2 /\ Check(2, chain[h].status \in Included).ok = (chain[h].status \in Included)
      /\ Check(2, h = h).level = 2 /\ Check(2, h = h).ok = (h = h)
    BY CheckFields, Zenon
<1>4. TAKE c \in FactChecks(h, h)
<1>5. \/ c = Check(2, chain[h].status \in Included) \/ c = Check(2, OwnHash(h) \in {None, h})
      \/ c = Check(2, h = h)
    BY <1>2, <1>4, Zenon
<1> QED BY <1>3, <1>5, <1>7, Zenon

\* A check of a given level and outcome.
PassedCheck(c, l) == c.level = l /\ c.ok

\* The level of such a package is 1, and 2 when asked for.
LEMMA HonestLevels ==
    ASSUME IInv, NEW h \in DOMAIN chain, NEW s, NEW k, NEW pkg, HonestRead(h, s, k, pkg),
           IssueHashes = {}, chain[h].status \in Included,
           PlacementOK(chain[h].tx, Target, s, LedgerParts(h, s)),
           request.level >= 2 => h \in DOMAIN facts /\ facts[h] = FactOf(h, h)
    PROVE  LevelOf(ChecksOf(k), request.level) >= (IF request.level = 1 THEN 1 ELSE 2)
<1>1. request.level \in 1..3
    BY VerifierAssumption DEF IInv, Shape
<1>2. /\ k.hash = h /\ k.segment = s /\ FromEvents.packages[k].status = "accepted"
      /\ FromEvents.packages[k].parts = LedgerParts(h, s)
    BY DEF HonestRead, Mine, Group
<1>3. PICK first, placement : /\ first = LevelOneCheck(k)
                              /\ placement = Check(2, PlacementOK(chain[h].tx, Target, s, LedgerParts(h, s)))
    OBVIOUS
<1>4. PassedCheck(first, 1)
    <2>1. PICK ok : ok = (FromEvents.packages[k].status = "accepted" /\ k.hash \notin IssueHashes)
        OBVIOUS
    <2>2. ok
        BY <1>2, <2>1
    <2>3. first = Check(1, ok)
        BY <1>3, <2>1 DEF LevelOneCheck
    <2> QED BY <2>2, <2>3, CheckFields DEF PassedCheck
<1>5. PassedCheck(placement, 2)
    BY <1>3, CheckFields DEF PassedCheck
<1>6. \A c \in FactChecks(h, h) : PassedCheck(c, 2)
    BY HonestFact DEF PassedCheck
<1>7. PICK two : two = TwoLevels(k)
    OBVIOUS
<1>8. CASE request.level = 1
    <2>1. two = {first}
        BY <1>3, <1>7, <1>8 DEF TwoLevels
    <2>2. ChecksOf(k) = {first}
        BY <1>7, <1>8, <2>1 DEF ChecksOf
    <2>3. Passed(ChecksOf(k), 1)
        BY <1>4, <2>2 DEF Passed, PassedCheck
    <2>4. \A m \in 1..1 : Passed(ChecksOf(k), m)
        BY <2>3
    <2> QED BY <1>1, <1>8, <2>4, LevelTop
<1>9. CASE request.level >= 2
    <2>1. h \in DOMAIN facts /\ facts[h] = FactOf(h, h) /\ h \notin {Missing, Garbage}
        BY <1>9, BlockIs DEF IInv
    <2>2. facts[h].checks = FactChecks(h, h) /\ facts[h].raw = h
        BY <2>1 DEF FactOf
    <2>3. first.ok
        BY <1>4 DEF PassedCheck
    <2>4. two = {first} \cup FactChecks(h, h) \cup {placement}
        <3>1. ~(request.level < 2 \/ ~LevelOneCheck(k).ok \/ k.hash \notin DOMAIN facts)
            BY <1>1, <1>2, <1>3, <1>9, <2>1, <2>3
        <3>2. facts[k.hash].raw \notin {Missing, Garbage}
            BY <1>2, <2>1, <2>2
        <3>3. TwoLevels(k) = {LevelOneCheck(k)} \cup (facts[k.hash].checks \cup
                {Check(2, PlacementOK(Decoded(facts[k.hash].raw), Target, k.segment, FromEvents.packages[k].parts))})
            BY <3>1, <3>2, Zenon DEF TwoLevels
        <3>4. two = {first} \cup (FactChecks(h, h) \cup {placement})
            <4>1. Decoded(h) = chain[h].tx
                BY BytesAre DEF IInv
            <4> QED BY <1>2, <1>3, <1>7, <2>2, <3>3, <4>1
        <3> QED BY <3>4
    <2>5. \A c \in two : PassedCheck(c, 1) \/ PassedCheck(c, 2)
        BY <1>4, <1>5, <1>6, <2>4
    <2>6. two \subseteq ChecksOf(k) /\ \A c \in ChecksOf(k) : c \in two \/ c = Check(3, KeyAt(k.hash) = ExpectedKey)
        BY <1>7 DEF ChecksOf
    <2>7. \A c \in ChecksOf(k) : c \in two \/ c.level = 3
        <3>1. Check(3, KeyAt(k.hash) = ExpectedKey).level = 3
            BY CheckFields
        <3> QED BY <2>6, <3>1
    <2>8. Passed(ChecksOf(k), 1) /\ Passed(ChecksOf(k), 2)
        <3>1. first \in ChecksOf(k) /\ placement \in ChecksOf(k)
            BY <2>4, <2>6
        <3>2. \A c \in ChecksOf(k) : c.level \in {1, 2} => c.ok
            BY <2>5, <2>7 DEF PassedCheck
        <3> QED BY <1>4, <1>5, <3>1, <3>2 DEF Passed, PassedCheck
    <2>9. \A m \in 1..2 : Passed(ChecksOf(k), m)
        BY <2>8
    <2> QED BY <1>1, <1>9, <2>9, LevelTop
<1> QED BY <1>1, <1>8, <1>9

\* An honest indexer's cleanly placed packages are all reported and verified to Level 2
\* (or 1, when no more was asked for).
THEOREM HonestSourceVerifies == Spec => []HonestVerifies
<1>1. ASSUME Call, PagedInv, FetchedInv, lies = 0, pc = "done",
             NEW h \in DOMAIN chain, NEW s \in DOMAIN chain[h].tx.intents,
             h <= known0, request.hash \in {None, h}, request.segment \in {None, s},
             LedgerParts(h, s) # <<>>, PlacementOK(chain[h].tx, Target, s, LedgerParts(h, s))
      PROVE  \E p \in report : /\ p.hash = h /\ p.segment = s
                               /\ p.level >= (IF request.level = 1 THEN 1 ELSE 2)
    <2>1. h \in Nat /\ known0 \in Nat
        BY <1>1, LenProperties DEF Call, IInv, Shape, CallInv, Counted
    <2>2. ~NotThere
        BY <1>1, <2>1 DEF NotThere
    <2>3. Prefix /\ Complete /\ report = Reports /\ Settled
        BY <1>1, <2>2 DEF PagedInv, Paged
    <2>4. PICK k, pkg : HonestRead(h, s, k, pkg)
        BY <1>1, <2>3, HonestPackage DEF Call, LedgerInv, CallInv, Settled
    <2>5. IssueHashes = {}
        BY <1>1, <2>3, HonestConverted DEF Call, LedgerInv, CallInv
    <2>6. k.hash = h /\ k.segment = s /\ k \in DOMAIN FromEvents.packages
        BY <2>4 DEF HonestRead, Mine, Group
    <2>7. k \in EventEntries
        BY <1>1, <2>6 DEF EventEntries, InScope
    <2>8. chain[h].status \in Included
        <3>1. s \in Segments
            BY <1>1, BlockIs, ActionTypes DEF Call, IInv
        <3>2. EmittedOf(chain[h], s) # <<>>
            BY <1>1, <3>1, PartsAreOurs DEF Call, LedgerInv, LogIsLedger
        <3>3. chain[h].status # "FAILURE"
            BY <3>2 DEF EmittedOf
        <3> QED BY <1>1, <3>3, BlockIs DEF Call, IInv
    <2>9. request.level >= 2 => h \in DOMAIN facts /\ facts[h] = FactOf(h, h)
        <3> SUFFICES ASSUME request.level >= 2 PROVE h \in DOMAIN facts /\ facts[h] = FactOf(h, h)
            OBVIOUS
        <3>1. h \in Wanted
            BY <1>1, <2>6, <2>7 DEF Wanted
        <3>2. h \in DOMAIN facts
            BY <2>3, <3>1 DEF Settled
        <3>3. PICK b \in Bytes : FactIs(h, b)
            BY <1>1, <3>2 DEF Call, CallInv, FactsAre
        <3>4. facts[h].raw = h
            BY <1>1, <3>2 DEF FetchedInv, Fetched
        <3> QED BY <3>2, <3>3, <3>4 DEF FactIs
    <2>10. LevelOf(ChecksOf(k), request.level) >= (IF request.level = 1 THEN 1 ELSE 2)
        BY <1>1, <2>4, <2>5, <2>8, <2>9, HonestLevels DEF Call
    <2>11. PICK p : p = [hash |-> k.hash, segment |-> k.segment, parts |-> FromEvents.packages[k].parts,
                         level |-> LevelOf(ChecksOf(k), request.level)]
        OBVIOUS
    <2>12. p \in Reports
        BY <2>7, <2>11 DEF Reports
    <2>13. p.hash = k.hash /\ p.segment = k.segment /\ p.level = LevelOf(ChecksOf(k), request.level)
        BY <2>11
    <2> QED BY <2>3, <2>6, <2>10, <2>12, <2>13
<1>2. Call /\ PagedInv /\ FetchedInv => HonestVerifies
    BY <1>1 DEF HonestVerifies
<1>3. Init => FetchedInv
    BY DEF Init, FetchedInv, Fetched
<1>4. Call /\ FetchedInv /\ [Next]_vars => FetchedInv'
    BY FetchedStays DEF Call, LedgerInv
<1> QED BY CallInvariance, PagedInvariance, <1>2, <1>3, <1>4, PTL DEF Spec
=============================================================================
