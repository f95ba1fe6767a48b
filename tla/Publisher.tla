------------------------------- MODULE Publisher -------------------------------
(***************************************************************************)
(* One publication, from the package requests to the submission of the     *)
(* saved bytes: buildPackagesTransaction (src/src/publisher/compose.ts),   *)
(* finalizeTransactionPackages and submitRecord (finalize.ts).             *)
(*                                                                         *)
(* Each await is a state in which the chain moves on and the awaited       *)
(* provider answers what it likes: the state source, the prover, the       *)
(* wallet's balancer.  An answer may be any transaction of Answers(t): the *)
(* one asked about with any one intent replaced, dropped, added or moved,  *)
(* an offer attached to a segment, and any form of proof and binding.      *)
(* Between finalization and submission the saved record lies on disk,      *)
(* where one field of it may be altered or one package entry lost.         *)
(***************************************************************************)
EXTENDS Transactions

CONSTANTS
    Keyed,          \* states in which the emitting circuit has a verifier key
    Authorised,     \* states whose authority is the publisher's secret
    RequestLists,   \* what callers ask to publish
    MaxPackages,    \* packages per transaction (16)
    MaxParts,       \* parts per package (config.maxParts, default 8)
    MaxAttempts,    \* segment draws per package (maxAssemblyAttempts)
    BlockLimit,     \* cost that fits the pinned block limits
    StrayExecutions, \* what an emitting circuit may do instead of its one emission
    StrayIntents,   \* intents a provider may slip in
    MaxBlocks       \* bound on the chain's length

\* One circuit execution: the trace it leaves and the events it emits.
Executions == [contract : Contracts, entry : EntryPoints, events : Seq(Logs),
               nested : BOOLEAN, coins : BOOLEAN]

Requests == [contract : Contracts, entry : EntryPoints, name : Names, parts : Seq(Parts)]

ASSUME PublisherAssumption ==
    /\ Keyed \subseteq States /\ Authorised \subseteq States
    /\ RequestLists \subseteq Seq(Requests)
    /\ StrayExecutions \subseteq Executions
    /\ StrayIntents \subseteq Intents
    /\ \A n \in {MaxPackages, MaxParts, MaxAttempts, MaxBlocks} : n \in Nat \ {0}
    /\ BlockLimit \in Nat

VARIABLES
    chain,      \* history: the contracts' states at each block
    stage,      \* which await or step boundary the publication is at
    failedAt,   \* the stage it failed in, or None
    requests,   \* the package requests, in order
    block,      \* the pinned block, or 0
    snapshots,  \* contract states read so far
    tx,         \* the transaction as last checked
    packages,   \* the expected packages assembled so far
    frozen,     \* guaranteed transcripts frozen at assembly
    record,     \* the saved record, or None
    final,      \* history: the record as finalization returned it
    submitted   \* the transaction given to the network, or None

vars == <<chain, stage, failedAt, requests, block, snapshots, tx, packages,
          frozen, record, final, submitted>>

built == <<requests, block, snapshots, packages, frozen>>

Stages == {"idle", "pinning", "reading", "assembling", "built", "proving",
           "balancing", "finalized", "submitted", "failed"}

-----------------------------------------------------------------------------
(* Operators of the steps *)

\* preflightPackage, for every request, before any provider is asked.
Preflight(reqs) ==
    /\ Len(reqs) \in 1..MaxPackages
    /\ \A i \in DOMAIN reqs : Len(reqs[i].parts) \in 1..MaxParts

Emission(r, p) ==
    [contract |-> r.contract, entry |-> r.entry, events |-> <<Misc(r.name, p)>>,
     nested |-> FALSE, coins |-> FALSE]

\* checkExecution: one trace of the right circuit, nothing but its one event.
ExecutionOK(e, r, p) ==
    /\ e.contract = r.contract /\ e.entry = r.entry
    /\ ~e.nested /\ ~e.coins
    /\ e.events = <<Misc(r.name, p)>>

\* What emitPart may leave for part p in state st: an assertion failure when the
\* authority is not the publisher's, else its emission or a stray execution.
MayEmit(r, p, st) ==
    IF st \in Authorised THEN {Emission(r, p)} \cup StrayExecutions ELSE {}

\* The guaranteed-only call an execution becomes in addCalls.
CallOf(e, st) ==
    [kind |-> "call", contract |-> e.contract, entry |-> e.entry,
     guaranteed |-> [logs |-> e.events, reads |-> st], fallible |-> None]

IntentOf(runs, st) ==
    [actions |-> [k \in DOMAIN runs |-> CallOf(runs[k], st)], offer |-> FALSE, dust |-> FALSE]

\* Mutant of Fresh: segment 0 is taken for a free segment.
MutantFresh(t, s) == s \notin DOMAIN t.intents

\* A draw addGuaranteedIntent accepts: not segment 0, not one already taken.
Fresh(t, s) == s # 0 /\ s \notin DOMAIN t.intents

\* The attempt it stops at: the first fresh draw (none when every draw is bad).
Accepted(t, draws) ==
    {a \in DOMAIN draws : Fresh(t, draws[a]) /\ \A b \in 1..(a - 1) : ~Fresh(t, draws[b])}

\* Mutant of StateReadFrom: the query names no block.
MutantStateReadFrom(c) == chain[Len(chain)][c]

\* contractStateAt(contract, block.hash): the state as of the pinned block.
StateReadFrom(c) == chain[block][c]

\* The contracts still to be read, one query each.
Unread == {requests[i].contract : i \in DOMAIN requests} \ DOMAIN snapshots

\* What a provider may answer when given t.
Answers(t) ==
    LET maps == {t.intents}
                \cup {DropIntent(t.intents, s) : s \in DOMAIN t.intents}
                \cup {PutIntent(t.intents, s, i) : s \in Segments, i \in StrayIntents}
                \cup {PutIntent(DropIntent(t.intents, s), u, t.intents[s]) :
                        s \in DOMAIN t.intents, u \in Segments}
    IN [intents : maps, zswap : {t.zswap} \cup {t.zswap \cup {s} : s \in DOMAIN t.intents}, form : Forms]

\* The entries one field of package entry e may be altered to.
Rewritten(e) ==
    {[e EXCEPT !.segment = s] : s \in Segments} \cup {[e EXCEPT !.contract = c] : c \in Contracts}
    \cup {[e EXCEPT !.entry = f] : f \in EntryPoints} \cup {[e EXCEPT !.name = n] : n \in Names}
    \cup {[e EXCEPT !.parts = Tail(e.parts)]}

\* Sequence s without element k.
Without(s, k) == [i \in 1..(Len(s) - 1) |-> IF i < k THEN s[i] ELSE s[i + 1]]

\* Record a is r with one field altered where it is saved, or one entry of packages
\* gone, the intent hash in it included.
Altered(a, r) ==
    \/ \E t \in Answers(r.tx) : a = [r EXCEPT !.tx = t]
    \/ a = [r EXCEPT !.hash = EmptyTx]
    \/ \E id \in r.identifiers : a = [r EXCEPT !.identifiers = r.identifiers \ {id}]
    \/ \E k \in DOMAIN r.packages : \E e \in Rewritten(r.packages[k]) : a = [r EXCEPT !.packages[k] = e]
    \/ \E k, j \in DOMAIN r.packages : a = [r EXCEPT !.hashes[k] = r.hashes[j]]
    \/ \E k \in DOMAIN r.packages :
            a = [r EXCEPT !.packages = Without(r.packages, k), !.hashes = Without(r.hashes, k)]
    \/ \E b \in 0..MaxBlocks : a = [r EXCEPT !.context = b]

\* Mutant of MatchesRecord: the recorded hash is not compared with the bytes'.
MutantMatchesRecord(r) ==
    /\ r.tx.form = "bound"
    /\ CarriesAll(r.tx, r.packages)
    /\ Identifiers(r.tx) = r.identifiers
    /\ \A i \in DOMAIN r.packages : IntentHash(r.tx, r.packages[i].segment) = r.hashes[i]

\* submitRecord's re-check of the saved bytes against the record.
MatchesRecord(r) ==
    /\ r.tx.form = "bound"
    /\ CarriesAll(r.tx, r.packages)
    /\ r.hash = r.tx
    /\ Identifiers(r.tx) = r.identifiers
    /\ \A i \in DOMAIN r.packages : IntentHash(r.tx, r.packages[i].segment) = r.hashes[i]

-----------------------------------------------------------------------------
Init ==
    /\ chain \in {<<f>> : f \in [Contracts -> States]}
    /\ stage = "idle" /\ failedAt = None
    /\ requests = <<>> /\ block = 0 /\ snapshots = [c \in {} |-> None]
    /\ tx = EmptyTx /\ packages = <<>> /\ frozen = <<>>
    /\ record = None /\ final = None /\ submitted = None

Fail ==
    /\ stage' = "failed" /\ failedAt' = stage
    /\ UNCHANGED <<chain, built, tx, record, final, submitted>>

\* A block changes one contract's state: authority rotated, key removed, restored.
NewBlock ==
    /\ Len(chain) < MaxBlocks
    /\ \E c \in Contracts, st \in States :
        chain' = Append(chain, [chain[Len(chain)] EXCEPT ![c] = st])
    /\ UNCHANGED <<stage, failedAt, built, tx, record, final, submitted>>

\* buildPackagesTransaction is called: configuration and preflight only.
Begin ==
    /\ stage = "idle"
    /\ \E reqs \in RequestLists :
        /\ requests' = reqs
        /\ \/ /\ Preflight(reqs)
              /\ stage' = "pinning" /\ UNCHANGED failedAt
           \/ /\ ~Preflight(reqs)
              /\ stage' = "failed" /\ failedAt' = stage
    /\ UNCHANGED <<chain, block, snapshots, tx, packages, frozen, record, final, submitted>>

\* source.latestBlock() answers.
PinBlock ==
    /\ stage = "pinning"
    /\ block' = Len(chain)
    /\ stage' = "reading"
    /\ UNCHANGED <<chain, failedAt, requests, snapshots, tx, packages, frozen, record, final, submitted>>

\* source.contractStateAt() answers for one more contract.
ReadState ==
    /\ stage = "reading"
    /\ \E c \in Unread :
        /\ snapshots' = [x \in DOMAIN snapshots \cup {c} |->
                            IF x = c THEN StateReadFrom(c) ELSE snapshots[x]]
        /\ stage' = IF Unread = {c} THEN "assembling" ELSE "reading"
    /\ UNCHANGED <<chain, failedAt, requests, block, tx, packages, frozen, record, final, submitted>>

\* The next package: executes its parts on the snapshot, draws a segment, adds
\* the intent; after the last one, the check after assembly.
Assemble ==
    /\ stage = "assembling"
    /\ LET r  == requests[Len(packages) + 1]
           st == snapshots[r.contract]
       IN
        /\ st \in Keyed
        /\ \E runs \in [DOMAIN r.parts -> UNION {MayEmit(r, r.parts[k], st) : k \in DOMAIN r.parts}],
              draws \in [1..MaxAttempts -> 0..MaxSegment] : \E a \in Accepted(tx, draws) :
            /\ \A k \in DOMAIN r.parts :
                /\ runs[k] \in MayEmit(r, r.parts[k], st)
                /\ ExecutionOK(runs[k], r, r.parts[k])
            /\ LET s    == draws[a]
                   next == [tx EXCEPT !.intents = PutIntent(tx.intents, s, IntentOf(runs, st))]
                   pkgs == Append(packages, [contract |-> r.contract, entry |-> r.entry,
                                             name |-> r.name, segment |-> s, parts |-> r.parts])
               IN
                /\ tx' = next
                /\ packages' = pkgs
                /\ IF Len(pkgs) < Len(requests)
                   THEN stage' = stage /\ UNCHANGED frozen
                   ELSE /\ CarriesAll(next, pkgs)
                        /\ stage' = "built"
                        /\ frozen' = FrozenTranscripts(next, pkgs)
    /\ UNCHANGED <<chain, failedAt, requests, block, snapshots, record, final, submitted>>

\* Assembly throws: no verifier key, a circuit that does not emit exactly its
\* part, or only segments that are 0 or taken in every attempt.
AssemblyFails ==
    /\ stage = "assembling"
    /\ LET r  == requests[Len(packages) + 1]
           st == snapshots[r.contract]
       IN \/ st \notin Keyed
          \/ st \notin Authorised
          \/ \E k \in DOMAIN r.parts : \E e \in MayEmit(r, r.parts[k], st) :
                ~ExecutionOK(e, r, r.parts[k])
          \/ \E draws \in [1..MaxAttempts -> 0..MaxSegment] : Accepted(tx, draws) = {}
    /\ Fail

\* finalizeTransactionPackages is called: check, then ask the prover.
StartProving ==
    /\ stage = "built"
    /\ CarriesFrozen(tx, packages, frozen)
    /\ stage' = "proving"
    /\ UNCHANGED <<chain, failedAt, built, tx, record, final, submitted>>

\* The prover's answer passes the check and the cost check; ask the balancer.
Proven ==
    /\ stage = "proving"
    /\ \E t \in Answers(tx) :
        /\ CarriesFrozen(t, packages, frozen)
        /\ Cost(t) <= BlockLimit
        /\ tx' = t
    /\ stage' = "balancing"
    /\ UNCHANGED <<chain, failedAt, built, record, final, submitted>>

\* Mutant of Balanced: no cost check after balancing.
MutantBalanced ==
    /\ stage = "balancing"
    /\ \E t \in Answers(tx) :
        /\ CarriesFrozen(t, packages, frozen)
        /\ t.form = "bound"
        /\ tx' = t
        /\ record' = RecordOf(t, packages, block)
        /\ final' = record'
    /\ stage' = "finalized"
    /\ UNCHANGED <<chain, failedAt, built, submitted>>

\* The balancer's answer passes the checks, serializes, and reads back as a
\* proven and bound transaction that still passes.
Balanced ==
    /\ stage = "balancing"
    /\ \E t \in Answers(tx) :
        /\ CarriesFrozen(t, packages, frozen)
        /\ Cost(t) <= BlockLimit
        /\ t.form = "bound"
        /\ tx' = t
        /\ record' = RecordOf(t, packages, block)
        /\ final' = record'
    /\ stage' = "finalized"
    /\ UNCHANGED <<chain, failedAt, built, submitted>>

\* A provider's answer fails a check, or the provider throws.
Refused ==
    /\ stage \in {"pinning", "reading", "proving", "balancing"}
    /\ Fail

\* One field of the saved record is altered on disk, or one entry lost.
AlterRecord ==
    /\ stage = "finalized"
    /\ record = final
    /\ Altered(record', record)
    /\ UNCHANGED <<chain, stage, failedAt, built, tx, final, submitted>>

\* submitRecord: re-check the saved bytes, then submit them.
Submit ==
    /\ stage = "finalized"
    /\ MatchesRecord(record)
    /\ submitted' = record.tx
    /\ stage' = "submitted"
    /\ UNCHANGED <<chain, failedAt, built, tx, record, final>>

SubmitRefused ==
    /\ stage = "finalized"
    /\ ~MatchesRecord(record)
    /\ Fail

Next ==
    \/ NewBlock \/ Begin \/ PinBlock \/ ReadState \/ Assemble \/ AssemblyFails
    \/ StartProving \/ Proven \/ Balanced \/ Refused
    \/ AlterRecord \/ Submit \/ SubmitRefused

Spec == Init /\ [][Next]_vars

-----------------------------------------------------------------------------
(* Properties *)

\* Type correctness of every variable.
TypeOK ==
    /\ chain \in Seq([Contracts -> States]) /\ Len(chain) \in 1..MaxBlocks
    /\ stage \in Stages /\ failedAt \in Stages \cup {None}
    /\ requests \in Seq(Requests)
    /\ block \in 0..Len(chain)
    /\ DOMAIN snapshots \subseteq Contracts
    /\ \A c \in DOMAIN snapshots : snapshots[c] \in States
    /\ IsTx(tx)
    /\ packages \in Seq(Packages)
    /\ frozen \in Seq(Seq(Transcripts \cup {None}))
    /\ record # None => IsTx(record.tx)
    /\ submitted # None => IsTx(submitted)

\* Transaction t publishes every request whole: at the segment assembled for it,
\* a segment of its own, the ledger's guaranteed phase emits exactly the parts
\* asked for, in order, and nothing can be emitted there later.
PublishesRequests(t) ==
    /\ Len(packages) = Len(requests)
    /\ \A i, j \in DOMAIN packages : i # j => packages[i].segment # packages[j].segment
    /\ \A i \in DOMAIN requests :
        LET s == packages[i].segment IN
        /\ s \in DOMAIN t.intents /\ s \notin t.zswap
        /\ GuaranteedAt(t, s) = {<<k, 1, Misc(requests[i].name, requests[i].parts[k])>> :
                                    k \in DOMAIN requests[i].parts}
        /\ FallibleAt(t, s) = {}

\* Whatever the prover and the balancer answered and whatever happened to the
\* saved record, the transaction that reaches the network publishes exactly
\* what the caller asked for (the checks between stages of finalize.ts).
SubmissionPublishesRequests == submitted # None => PublishesRequests(submitted)

\* Every package call, up to the submitted one, was computed from the state its
\* contract had at the one pinned block, while the chain moved on under the
\* queries and the providers (compose.ts: one block, then states at its hash).
PinnedReads ==
    \A i \in DOMAIN packages : \A t \in {tx} \cup ({submitted} \ {None}) :
        \A k \in DOMAIN t.intents[packages[i].segment].actions :
            t.intents[packages[i].segment].actions[k].guaranteed.reads
                = chain[block][packages[i].contract]

\* What a package entry says, the hash of its intent included.
EntryOf(r, i) == [package |-> r.packages[i], hash |-> r.hashes[i]]

\* Whatever happened to the saved record, the bytes that are submitted are those that
\* finalization checked, under their own hash and identifiers, and every package entry
\* still in the record is one of finalization's, unaltered (submitRecord).  What it does
\* not compare may differ: network, ttl and block, and an entry that is gone.
SubmittedAsFinalized ==
    submitted # None =>
        /\ submitted = final.tx
        /\ record.hash = final.hash /\ record.identifiers = final.identifiers
        /\ record.packages # <<>>
        /\ \A i \in DOMAIN record.packages : \E j \in DOMAIN final.packages :
                EntryOf(record, i) = EntryOf(final, j)

\* What is submitted fits the pinned block limits, the intents the balancer
\* added after the first cost check included.
SubmissionFits == submitted # None => Cost(submitted) <= BlockLimit
=============================================================================
