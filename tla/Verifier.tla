-------------------------------- MODULE Verifier --------------------------------
(***************************************************************************)
(* One call of verifyPackages (src/src/cli/verify.ts) against an indexer   *)
(* whose chain grows meanwhile (src/src/indexer/index.ts): the events come *)
(* page by page, each transaction's raw bytes afterwards, and a level is   *)
(* computed for every package.                                             *)
(*                                                                         *)
(* The indexer shows a transaction together with its events.  It is        *)
(* trusted for statuses, blocks and contract states; up to MaxLies times   *)
(* it serves an event wrongly, or a transaction's bytes: those of another  *)
(* one, or some it made up.  Only proven and bound bytes have a hash that  *)
(* can be compared, and nobody can make those up with a given hash; bytes  *)
(* of any other form have none.  A transaction's hash stands for its place *)
(* in the chain, one transaction per block.                                *)
(***************************************************************************)
EXTENDS Packages

CONSTANTS
    Network,        \* the network asked about
    Target,         \* VerifyTarget: contract, entry, name
    Requests,       \* [level, hash, segment, node]: what callers ask (VerifyRequest)
    Landings,       \* [tx, succeeded, status]: transactions a block may hold
    Unhashed,       \* made-up transactions without a hash of their own, by a number
    Keys,           \* verifier keys the emitting circuit may have
    ExpectedKey,    \* the committed one
    PageSize,       \* events per page (500)
    MaxLies,        \* bound on what the indexer serves wrongly
    MaxBlocks       \* bound on the chain's length

ASSUME VerifierAssumption ==
    /\ \A r \in Requests : /\ r.level \in 1..3 /\ r.node \in BOOLEAN
                           /\ r.hash \in Hashes \cup {None}
                           /\ r.segment \in Segments \cup {None}
                           /\ r.segment # None => r.hash # None
    /\ \A l \in Landings : /\ IsTx(l.tx) /\ l.succeeded \subseteq FallibleSegments(l.tx)
                           /\ l.status \in Included \cup {"FAILURE"} /\ l.tx.form = "bound"
    /\ DOMAIN Unhashed \subseteq Nat \ {0}
    /\ \A i \in DOMAIN Unhashed : IsTx(Unhashed[i]) /\ Unhashed[i].form # "bound"
    /\ Network \in Networks
    /\ Target \in [contract : Contracts, entry : EntryPoints, name : Names]
    /\ None \notin Segments \cup Hashes
    /\ None \notin Events
    /\ PageSize \in Nat \ {0} /\ MaxLies \in Nat /\ MaxBlocks \in Nat
    /\ Hashes = 1..MaxBlocks

VARIABLES
    chain,      \* [tx, succeeded, status, key]: what the indexer shows, one per block
    log,        \* the contract's Misc events, in the order of their ids
    lies,       \* how often the indexer has lied
    request,    \* what was asked
    pc,         \* which await the call is at
    known,      \* the transactions fetched so far: their bytes, by hash
    offset,     \* the next page
    items,      \* the indexer events collected
    known0,     \* history: the chain's length when the first page was asked for
    facts,      \* what Level 2 found out about each transaction
    report      \* the package reports, or None

vars == <<chain, log, lies, request, pc, known, offset, items, known0, facts, report>>

\* Raw bytes as served: those of a block's transaction by its hash, bytes no transaction
\* decodes from, the answer that there are none, and those of a made-up transaction.
Garbage == 0
Missing == MaxBlocks + 1
Forged == {Missing + i : i \in DOMAIN Unhashed}

\* deserializeTransaction: the transaction that raw bytes decode to.
Decoded(raw) == IF raw \in Forged THEN Unhashed[raw - Missing] ELSE chain[raw].tx

\* transactionHashOf: the hash of their own that raw bytes have, if any.
OwnHash(raw) == IF Decoded(raw).form = "bound" THEN raw ELSE None

-----------------------------------------------------------------------------
(* The indexer *)

\* An event as served: what its raw bytes decode to (None when they do not), the
\* transaction it is filed under, and whether the typed fields agree with the bytes.
Item(e) == [id |-> e.position, label |-> e.hash, event |-> e, agrees |-> TRUE]

\* What may be served in its place; an event may also be left out.
Misserved(e) ==
    {[Item(e) EXCEPT !.event = None], [Item(e) EXCEPT !.agrees = FALSE]}
    \cup {[Item(e) EXCEPT !.event.value.part = p] : p \in Parts}
    \cup {[Item(e) EXCEPT !.event = log[j]] : j \in DOMAIN log}

\* The events the filter lets through.
Filtered == Kept(log, {j \in DOMAIN log : request.hash \in {None, log[j].hash}})

\* The events of one page.
Page == SubSeq(Filtered, offset + 1, IF offset + PageSize < Len(Filtered) THEN offset + PageSize ELSE Len(Filtered))

\* The pages the indexer may serve, and how many lies each takes.
Serves(page) ==
    LET honest == [j \in DOMAIN page |-> Item(page[j])] IN
    {[items |-> honest, lies |-> 0]}
    \cup {[items |-> [honest EXCEPT ![x[1]] = x[2]], lies |-> 1] :
            x \in UNION {{<<j, i>> : i \in Misserved(page[j])} : j \in DOMAIN page}}
    \cup {[items |-> Kept(honest, DOMAIN honest \ {j}), lies |-> 1] : j \in DOMAIN page}

\* The bytes the indexer may serve for a transaction hash.
ServesRaw(h) ==
    IF h \notin DOMAIN chain THEN {[raw |-> Missing, lies |-> 0]}
    ELSE {[raw |-> h, lies |-> 0]}
         \cup {[raw |-> m, lies |-> 1] : m \in (DOMAIN chain \cup Forged \cup {Garbage, Missing}) \ {h}}

-----------------------------------------------------------------------------
(* verifyPackages *)

\* Mutant of LastPage: a full page ends the paging too.
MutantLastPage(page) == Len(page) <= PageSize

\* miscEvents stops at a short page.
LastPage(page) == Len(page) < PageSize

\* Mutant of TooMany: only the page is counted.
MutantTooMany(page) == Len(page) > MaxEvents

\* miscEvents refuses to collect more than the limit.
TooMany(page) == Len(items) + Len(page) > MaxEvents

\* partEventsFromIndexer: the reader's input, positioned by the events' ids.
Converted ==
    LET decoded == Kept(items, {j \in DOMAIN items : items[j].event # None})
    IN [j \in DOMAIN decoded |-> [decoded[j].event EXCEPT !.position = decoded[j].id]]

\* An issue of partEventsFromIndexer, filed under the served transaction hash.
HasIssue(i) == i.event = None \/ ~i.agrees \/ i.event.hash # i.label

IssueHashes == {items[j].label : j \in {k \in DOMAIN items : HasIssue(items[k])}}

Opted == [optIns |-> {<<Target.contract, Target.name>>}, network |-> Network,
          maxEvents |-> MaxEvents, maxGroups |-> MaxGroups]

InScope(k) == request.segment \in {None, k.segment}

\* The packages read from the events, and from a transaction's bytes.
FromEvents == ReadPackages(Converted, Opted)
FromRaw(h, raw) == ReadPackages(PartEvents(Decoded(raw), Network, Target.contract, h), Opted)

EventEntries == {k \in DOMAIN FromEvents.packages : InScope(k)}

Check(level, ok) == [level |-> level, ok |-> ok]

\* Mutant of FactChecks: a partial success is no inclusion.
MutantFactChecks(h, raw) ==
    IF raw \in {Missing, Garbage} THEN {Check(2, FALSE)}
    ELSE {Check(2, chain[h].status = "SUCCESS"), Check(2, OwnHash(raw) \in {None, h})}

\* The transaction-wide checks of Level 2: bytes that decode, an inclusion status, the
\* bytes' own hash if they have one, and, when asked, the node's block holding them.
FactChecks(h, raw) ==
    IF raw \in {Missing, Garbage} THEN {Check(2, FALSE)}
    ELSE {Check(2, chain[h].status \in Included), Check(2, OwnHash(raw) \in {None, h})}
         \cup (IF request.node THEN {Check(2, raw = h)} ELSE {})

\* Mutant of FactOf: only packages the events show are looked at.
MutantFactOf(h, raw) == [raw |-> raw, checks |-> FactChecks(h, raw), rawOnly |-> {}]

\* What the bytes of h add: the checks, and the packages only they show.
FactOf(h, raw) ==
    [raw |-> raw, checks |-> FactChecks(h, raw),
     rawOnly |-> IF raw \in {Missing, Garbage} THEN {}
                 ELSE {k \in DOMAIN FromRaw(h, raw).packages : InScope(k)} \ EventEntries]

\* Mutant of LevelOf: a level without checks counts as passed.
MutantLevelOf(checks, requested) ==
    LET passed(l) == \A c \in checks : c.level = l => c.ok
        levels == {l \in 1..requested : \A m \in 1..l : passed(m)}
    IN IF levels = {} THEN 0 ELSE CHOOSE l \in levels : \A m \in levels : m <= l

\* The highest level such that it and every lower one has checks, all passed.
LevelOf(checks, requested) ==
    LET passed(l) == (\E c \in checks : c.level = l) /\ \A c \in checks : c.level = l => c.ok
        levels == {l \in 1..requested : \A m \in 1..l : passed(m)}
    IN IF levels = {} THEN 0 ELSE CHOOSE l \in levels : \A m \in levels : m <= l

\* Level 1 of a package the events show.
LevelOneCheck(k) == Check(1, FromEvents.packages[k].status = "accepted" /\ k.hash \notin IssueHashes)

\* Levels 1 and 2 of a package the events show.
TwoLevels(k) ==
    LET first == LevelOneCheck(k) IN
    {first} \cup
    IF request.level < 2 \/ ~first.ok \/ k.hash \notin DOMAIN facts THEN {}
    ELSE facts[k.hash].checks \cup
         IF facts[k.hash].raw \in {Missing, Garbage} THEN {}
         ELSE {Check(2, PlacementOK(Decoded(facts[k.hash].raw), Target, k.segment, FromEvents.packages[k].parts))}

\* Mutant of KeyAt: the contract's latest state.
MutantKeyAt(h) == chain[Len(chain)].key

\* The emitting circuit's verifier key in the state at the transaction's block.
KeyAt(h) == chain[h].key

\* Every check of a package the events show.
ChecksOf(k) ==
    TwoLevels(k) \cup
    IF request.level = 3 /\ LevelOf(TwoLevels(k), 2) = 2 THEN {Check(3, KeyAt(k.hash) = ExpectedKey)}
    ELSE {}

\* The report: a package only the raw bytes show fails Level 1.
Reports ==
    {[hash |-> k.hash, segment |-> k.segment, parts |-> FromEvents.packages[k].parts,
      level |-> LevelOf(ChecksOf(k), request.level)] : k \in EventEntries}
    \cup {[hash |-> k.hash, segment |-> k.segment, parts |-> <<>>, level |-> 0] :
            k \in UNION {facts[h].rawOnly : h \in DOMAIN facts}}

\* verifyExitStatus: every package verified to the requested level.
ExitZero == pc = "done" /\ report # {} /\ \A p \in report : p.level >= request.level

-----------------------------------------------------------------------------
Init ==
    /\ chain = <<>> /\ log = <<>> /\ lies = 0
    /\ request \in Requests
    /\ pc = "start"
    /\ known = [h \in {} |-> Missing]
    /\ offset = 0 /\ items = <<>> /\ known0 = 0
    /\ facts = [h \in {} |-> None]
    /\ report = None

\* What a transaction adds to the contract's events: its ids go on from the last.
NewEvents(l) ==
    LET last == IF log = <<>> THEN 0 ELSE log[Len(log)].position
        all == Emissions(l.tx, l.succeeded, Network, Len(chain) + 1, last)
    IN IF l.status = "FAILURE" THEN <<>>
       ELSE Kept(all, {j \in DOMAIN all : all[j].contract = Target.contract})

\* The indexer shows one more transaction, and the contract's state after it.
Grow ==
    /\ Len(chain) < MaxBlocks /\ pc # "done"
    /\ \E l \in Landings, key \in Keys :
        /\ chain' = Append(chain, [tx |-> l.tx, succeeded |-> l.succeeded, status |-> l.status, key |-> key])
        /\ log' = log \o NewEvents(l)
    /\ UNCHANGED <<lies, request, pc, known, offset, items, known0, facts, report>>

\* The call starts; with a transaction hash it asks for that transaction first, and
\* ends when the source does not have it.
Start ==
    /\ pc = "start"
    /\ \E a \in IF request.hash = None THEN {[raw |-> Missing, lies |-> 0]} ELSE ServesRaw(request.hash) :
        /\ lies + a.lies <= MaxLies /\ lies' = lies + a.lies
        /\ IF request.hash = None
           THEN pc' = "paging" /\ UNCHANGED <<known, report>>
           ELSE /\ known' = [h \in {request.hash} |-> a.raw]
                /\ IF a.raw = Missing THEN pc' = "done" /\ report' = {} ELSE pc' = "paging" /\ UNCHANGED report
    /\ known0' = Len(chain)
    /\ UNCHANGED <<chain, log, request, offset, items, facts>>

\* One page arrives; too many events end the call, a short page ends the paging.
NextPage ==
    /\ pc = "paging"
    /\ \E a \in Serves(Page) :
        /\ lies + a.lies <= MaxLies /\ lies' = lies + a.lies
        /\ items' = items \o a.items
        /\ offset' = offset + PageSize
        /\ pc' = IF TooMany(a.items) THEN "failed"
                 ELSE IF LastPage(a.items) THEN "read" ELSE "paging"
    /\ UNCHANGED <<chain, log, request, known, known0, facts, report>>

\* The hashes whose bytes Level 2 reads.
Wanted == IF request.hash # None THEN {request.hash} ELSE {k.hash : k \in EventEntries}

\* The events are read into packages; a limit of the reader ends the call.
ReadEvents ==
    /\ pc = "read"
    /\ pc' = IF FromEvents.error THEN "failed"
             ELSE IF request.level >= 2 /\ Wanted # {} THEN "raw" ELSE "report"
    /\ UNCHANGED <<chain, log, lies, request, known, offset, items, known0, facts, report>>

\* The bytes of one more transaction, fetched unless they are known; a limit of the
\* reader ends the call.
ReadRaw ==
    /\ pc = "raw"
    /\ \E h \in Wanted \ DOMAIN facts :
        \E a \in IF h \in DOMAIN known THEN {[raw |-> known[h], lies |-> 0]} ELSE ServesRaw(h) :
            /\ lies + a.lies <= MaxLies /\ lies' = lies + a.lies
            /\ known' = [x \in DOMAIN known \cup {h} |-> IF x = h THEN a.raw ELSE known[x]]
            /\ facts' = [x \in DOMAIN facts \cup {h} |-> IF x = h THEN FactOf(h, a.raw) ELSE facts[x]]
            /\ pc' = IF a.raw \notin {Missing, Garbage} /\ FromRaw(h, a.raw).error THEN "failed"
                     ELSE IF DOMAIN facts' = Wanted THEN "report" ELSE "raw"
    /\ UNCHANGED <<chain, log, request, offset, items, known0, report>>

\* The levels of every package.  The states Level 3 reads are those of blocks that are
\* there, which never change, so the order of its queries does not matter.
Finish ==
    /\ pc = "report"
    /\ report' = Reports
    /\ pc' = "done"
    /\ UNCHANGED <<chain, log, lies, request, known, offset, items, known0, facts>>

\* A request to the source fails for good.
SourceFails ==
    /\ pc \in {"start", "paging", "raw", "report"}
    /\ pc' = "failed"
    /\ UNCHANGED <<chain, log, lies, request, known, offset, items, known0, facts, report>>

Next == Grow \/ Start \/ NextPage \/ ReadEvents \/ ReadRaw \/ Finish \/ SourceFails

Spec == Init /\ [][Next]_vars

-----------------------------------------------------------------------------
(* Properties *)

\* Type correctness, and what each report may speak of.
TypeOK ==
    /\ lies \in 0..MaxLies /\ request \in Requests
    /\ \A n \in DOMAIN chain : IsTx(chain[n].tx) /\ chain[n].key \in Keys
    /\ pc \in {"start", "paging", "read", "raw", "report", "done", "failed"}
    /\ \A h \in DOMAIN known : known[h] \in DOMAIN chain \cup Forged \cup {Garbage, Missing}
    /\ pc \notin {"paging", "failed"} => Len(items) <= MaxEvents
    /\ known0 \in 0..Len(chain)
    /\ DOMAIN facts \subseteq DOMAIN known
    /\ report # None => \A p \in report :
        p.hash \in DOMAIN chain /\ p.segment \in Segments /\ p.level \in 0..request.level

\* What the ledger emitted under the target's name from one intent, in order.
LedgerParts(h, s) ==
    LET mine == Kept(log, {j \in DOMAIN log : log[j].hash = h /\ log[j].segment = s /\ log[j].value.name = Target.name})
    IN [j \in DOMAIN mine |-> mine[j].value.part]

\* Level 2 took this transaction's bytes on the indexer's word: they have no hash of
\* their own and no node was asked for them (verify.ts:492-498).
Unbacked(h) == h \in DOMAIN facts /\ facts[h].raw \in Forged /\ ~request.node

\* Level 2 needs no trust in the events as served, nor in the bytes as long as they have
\* a hash of their own or a node was asked: a package that passes it is of an included
\* transaction, and is what the ledger emitted from that intent.  Bytes without a hash
\* and without a node are the one way around it, and then too the package is what those
\* bytes emit.
LevelTwoIsLedger ==
    report # None => \A p \in report : p.level >= 2 =>
        /\ chain[p.hash].status \in Included
        /\ IF Unbacked(p.hash)
           THEN PlacementOK(Decoded(facts[p.hash].raw), Target, p.segment, p.parts)
           ELSE p.parts = LedgerParts(p.hash, p.segment)

\* A source that drops events cannot hide a package from an exit status 0 of Level 2:
\* every intent of the transactions reported on that emitted under the name is in the
\* report, if the bytes were not taken on the indexer's word and the transcripts can be
\* read (verifyPackages leaves the issues of partEventsFromTransaction aside, and what
\* follows an unreadable item is not seen).
NothingHidden ==
    ExitZero /\ request.level >= 2 =>
        \A h \in {p.hash : p \in report} : \A s \in Segments :
            /\ LedgerParts(h, s) # <<>> /\ ~Unreadable(chain[h].tx, s, Target.contract)
            /\ request.segment \in {None, s} /\ ~Unbacked(h)
            => \E p \in report : p.hash = h /\ p.segment = s

\* Level 3 is about the code that ran: the key at the transaction's own block, whatever
\* was installed before the report was made.
LevelThreeIsCode ==
    report # None => \A p \in report : p.level = 3 => chain[p.hash].key = ExpectedKey

\* An honest indexer, asked while it grows, serves every event it had when the paging
\* began, once and in order.
PagesComplete ==
    lies = 0 /\ pc \in {"read", "raw", "report"} =>
        /\ items = [j \in DOMAIN items |-> Item(Filtered[j])]
        /\ \A j \in DOMAIN Filtered : Filtered[j].hash <= known0 => j \in DOMAIN items

\* An honest indexer's cleanly placed packages are all reported and verified to Level 2
\* (or 1, when no more was asked for).
HonestVerifies ==
    lies = 0 /\ pc = "done" =>
        \A h \in DOMAIN chain : \A s \in DOMAIN chain[h].tx.intents :
            /\ h <= known0 /\ request.hash \in {None, h} /\ request.segment \in {None, s}
            /\ LedgerParts(h, s) # <<>>
            /\ PlacementOK(chain[h].tx, Target, s, LedgerParts(h, s))
            => \E p \in report : /\ p.hash = h /\ p.segment = s
                                 /\ p.level >= (IF request.level = 1 THEN 1 ELSE 2)

\* "Any problem means a package may be incomplete: do not accept the packages of that
\* contract and transaction" (IndexerEventConversion.issues): a package at Level 1 has
\* no event with a problem.
LevelOneClean ==
    report # None => \A p \in report : p.level >= 1 =>
        \A j \in DOMAIN items : HasIssue(items[j]) /\ items[j].event # None =>
            items[j].event.hash # p.hash \/ items[j].event.segment # p.segment
=============================================================================
