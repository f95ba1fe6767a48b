----------------------------- MODULE Transactions -----------------------------
(***************************************************************************)
(* Ledger transactions as the library sees them, and the one predicate     *)
(* everything else rests on: "this transaction carries these packages"     *)
(* (src/src/publisher/guard.ts).                                           *)
(*                                                                         *)
(* A transaction maps physical segments to intents; an intent is a         *)
(* sequence of actions; a contract call carries a guaranteed and a         *)
(* fallible transcript, either of which may be absent (None).  Of a        *)
(* transcript the library reads what it logs, and compares the rest as a   *)
(* whole; what it was computed from is kept as the contract state it       *)
(* reads, because the ledger replays it against the state of that moment.  *)
(***************************************************************************)
EXTENDS Naturals, Sequences, FiniteSets

LOCAL INSTANCE FiniteSetsExt

CONSTANTS
    Contracts,      \* contract addresses
    EntryPoints,    \* circuits a call may name
    Names,          \* 32-byte event names
    Parts,          \* 256-byte payloads
    States,         \* contract states a transcript can have been run against
    MaxSegment,     \* highest physical segment (65535 on chain)
    None            \* JavaScript's undefined

ASSUME SegmentAssumption == MaxSegment \in Nat \ {0}
ASSUME NoneAssumption == None \notin States

\* Segment 0 is the guaranteed section and never holds an intent.
Segments == 1..MaxSegment

-----------------------------------------------------------------------------
(* Data *)

\* The 288-byte value of a Misc event: the name, then the payload.
Misc(n, p) == [kind |-> "misc", name |-> n, part |-> p]

MiscLogs == [kind : {"misc"}, name : Names, part : Parts]

\* What a transcript may log: a Misc value, an event of another type, a Misc event whose
\* value cannot be decoded, or an item that is not pushed as [version, type, data].
Logs == MiscLogs \cup [kind : {"other", "garbled", "misshaped"}]

Transcripts == [logs : Seq(Logs), reads : States]

\* A contract call, or another action (deploy, maintenance update) whose call
\* fields mean nothing.
Actions == [kind : {"call", "update"}, contract : Contracts, entry : EntryPoints,
            guaranteed : Transcripts \cup {None}, fallible : Transcripts \cup {None}]

\* offer: the intent carries an unshielded offer; dust: it carries DUST actions.
Intents == [actions : Seq(Actions), offer : BOOLEAN, dust : BOOLEAN]

\* Proofs and binding a transaction has reached.
Forms == {"unproven", "proven", "bound"}

\* A map from some segments to intents.
IsIntentMap(f) == DOMAIN f \subseteq Segments /\ f \in [DOMAIN f -> Intents]

\* zswap: the segments with a fallible Zswap offer.
IsTx(t) ==
    /\ t = [intents |-> t.intents, zswap |-> t.zswap, form |-> t.form]
    /\ IsIntentMap(t.intents)
    /\ t.zswap \subseteq Segments
    /\ t.form \in Forms

\* One package as the publisher expects it (ExpectedPackage).
Packages == [contract : Contracts, entry : EntryPoints, name : Names,
             segment : Segments, parts : Seq(Parts)]

EmptyTx == [intents |-> [s \in {} |-> None], zswap |-> {}, form |-> "unproven"]

\* The map of intents f with intent i put at segment s.
PutIntent(f, s, i) == [x \in DOMAIN f \cup {s} |-> IF x = s THEN i ELSE f[x]]

\* The map of intents f without segment s.
DropIntent(f, s) == [x \in DOMAIN f \ {s} |-> f[x]]

-----------------------------------------------------------------------------
(* What the ledger derives from a transaction *)

\* An intent's seal covers its segment and its whole content, so its hash and
\* the identifier it adds to the transaction stand for exactly these.
IntentHash(tx, s) == <<s, tx.intents[s]>>

Identifiers(tx) == {IntentHash(tx, s) : s \in DOMAIN tx.intents}

\* Cost in units of one action, a DUST spend counting as one more action.
IntentCost(i) == Len(i.actions) + (IF i.dust THEN 1 ELSE 0)

Cost(tx) == MapThenSumSet(LAMBDA s : IntentCost(tx.intents[s]), DOMAIN tx.intents)

\* Two transactions merge when no segment holds an intent of both; the bound
\* intents are carried over untouched.
Mergeable(t, u) == DOMAIN t.intents \cap DOMAIN u.intents = {}

Merge(t, u) ==
    [intents |-> [s \in DOMAIN t.intents \cup DOMAIN u.intents |->
                    IF s \in DOMAIN t.intents THEN t.intents[s] ELSE u.intents[s]],
     zswap   |-> t.zswap \cup u.zswap,
     form    |-> t.form]

\* The segments that have a fallible phase.
FallibleSegments(t) ==
    {s \in DOMAIN t.intents : \E k \in DOMAIN t.intents[s].actions :
        t.intents[s].actions[k].kind = "call" /\ t.intents[s].actions[k].fallible # None}

\* What the ledger emits for the intent at segment s from its guaranteed (or
\* fallible) transcripts: one triple per event, in the order of call and log.
Logged(transcript) == IF transcript = None THEN <<>> ELSE transcript.logs

GuaranteedAt(t, s) ==
    UNION {{<<k, j, Logged(t.intents[s].actions[k].guaranteed)[j]>> :
                j \in DOMAIN Logged(t.intents[s].actions[k].guaranteed)} :
            k \in DOMAIN t.intents[s].actions}

FallibleAt(t, s) ==
    UNION {{<<k, j, Logged(t.intents[s].actions[k].fallible)[j]>> :
                j \in DOMAIN Logged(t.intents[s].actions[k].fallible)} :
            k \in DOMAIN t.intents[s].actions}

-----------------------------------------------------------------------------
(* The guard: assertPackageIntent and assertTransactionPackages *)

\* Mutant of CallCarries: the fallible transcript is not looked at.
MutantCallCarries(action, pkg, k) ==
    /\ action.kind = "call"
    /\ action.contract = pkg.contract
    /\ action.entry = pkg.entry
    /\ action.guaranteed # None
    /\ action.guaranteed.logs = <<Misc(pkg.name, pkg.parts[k])>>

\* Action number k of the package's intent is the guaranteed-only call of the
\* emitting circuit that logs exactly one event, part k under the name.
CallCarries(action, pkg, k) ==
    /\ action.kind = "call"
    /\ action.contract = pkg.contract
    /\ action.entry = pkg.entry
    /\ action.fallible = None
    /\ action.guaranteed # None
    /\ action.guaranteed.logs = <<Misc(pkg.name, pkg.parts[k])>>

\* One package's own intent, and nothing outside it.
IntentCarries(tx, pkg) ==
    /\ pkg.parts # <<>>
    /\ pkg.segment \in Segments
    /\ pkg.segment \in DOMAIN tx.intents
    /\ LET intent == tx.intents[pkg.segment] IN
        /\ Len(intent.actions) = Len(pkg.parts)
        /\ \A k \in DOMAIN pkg.parts : CallCarries(intent.actions[k], pkg, k)
        /\ ~intent.offer
        /\ ~intent.dust
    /\ pkg.segment \notin tx.zswap

\* Every package, one intent each.
CarriesAll(tx, pkgs) ==
    /\ pkgs # <<>>
    /\ \A i, j \in DOMAIN pkgs : pkgs[i].segment = pkgs[j].segment => i = j
    /\ \A i \in DOMAIN pkgs : IntentCarries(tx, pkgs[i])

\* The guaranteed transcripts of each package's intent, frozen at assembly.
FrozenTranscripts(tx, pkgs) ==
    [i \in DOMAIN pkgs |->
        [k \in DOMAIN tx.intents[pkgs[i].segment].actions |->
            tx.intents[pkgs[i].segment].actions[k].guaranteed]]

\* The same check with the frozen transcripts as reference, as at every stage
\* between assembly and serialization.
CarriesFrozen(tx, pkgs, frozen) ==
    /\ CarriesAll(tx, pkgs)
    /\ \A i \in DOMAIN pkgs : \A k \in DOMAIN pkgs[i].parts :
            tx.intents[pkgs[i].segment].actions[k].guaranteed = frozen[i][k]

-----------------------------------------------------------------------------
(* The saved record (FinalizedRecord) and where a transaction stands to it *)

\* What finalization saves of a checked transaction.  hash stands for the hash of the
\* whole transaction, hashes for the intent hash each entry of packages carries, context
\* for what nothing compares again: network, ttl, blockHash and blockHeight.
RecordOf(t, pkgs, context) ==
    [tx |-> t, hash |-> t, identifiers |-> Identifiers(t), packages |-> pkgs,
     hashes |-> [i \in DOMAIN pkgs |-> IntentHash(t, pkgs[i].segment)], context |-> context]

\* Mutant of Locates: the transaction must be the recorded one.
MutantLocates(t, r) == t = r.hash

\* locateRecord: every recorded identifier is present, every package intent is at
\* its segment unchanged, and the guard passes.
Locates(t, r) ==
    /\ r.identifiers \subseteq Identifiers(t)
    /\ \A i \in DOMAIN r.packages :
        /\ r.packages[i].segment \in DOMAIN t.intents
        /\ IntentHash(t, r.packages[i].segment) = r.hashes[i]
    /\ CarriesAll(t, r.packages)
=============================================================================
