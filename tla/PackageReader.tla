----------------------------- MODULE PackageReader -----------------------------
(***************************************************************************)
(* A reader of one included transaction's packages.  The ledger applies    *)
(* the transaction and emits its events; sources deliver them in pages, in *)
(* any order, again, not at all, altered, and among events of others; the  *)
(* reader is called on what has been delivered so far (readPackages), and  *)
(* on the raw transaction (verifyTransactionPackages, checkPlacement).     *)
(***************************************************************************)
EXTENDS Packages

CONSTANTS
    Candidates,     \* transactions that may be on chain
    Home,           \* the source's network
    Hash,           \* the transaction's hash
    Target,         \* PlacementTarget: contract, entry, name
    ReadOptions,    \* options of the event reader
    Noise,          \* events of others a source delivers
    MaxDeliveries   \* bound on deliveries

ASSUME ReaderAssumption ==
    /\ \A t \in Candidates : IsTx(t)
    /\ Home \in Networks /\ Hash \in Hashes
    /\ Target \in [contract : Contracts, entry : EntryPoints, name : Names]
    /\ ReadOptions \in Options /\ Noise \subseteq Events
    /\ MaxDeliveries \in Nat \ {0}
    /\ None \notin Included \cup {"FAILURE"}

VARIABLES
    tx,         \* the raw transaction
    status,     \* inclusion status, or None before the ledger applied it
    emitted,    \* the Misc events the ledger emitted, in emission order
    log,        \* deliveries so far, in delivery order
    readAt,     \* how many deliveries the last read saw
    output,     \* the last read's output, or None
    verdict     \* what the raw transaction verified, or None

vars == <<tx, status, emitted, log, readAt, output, verdict>>

-----------------------------------------------------------------------------
\* What a source may make of one of the ledger's events.
Altered(e) ==
    {[e EXCEPT !.value.part = p] : p \in Parts}
    \cup {[e EXCEPT !.value.long = TRUE]}
    \cup {[e EXCEPT !.position = emitted[j].position] : j \in DOMAIN emitted}

-----------------------------------------------------------------------------
Init ==
    /\ tx \in Candidates
    /\ status = None /\ emitted = <<>>
    /\ log = <<>> /\ readAt = 0 /\ output = None /\ verdict = None

\* The ledger applies the transaction: a failed guaranteed phase emits nothing.
Apply ==
    /\ status = None
    /\ \/ status' = "FAILURE" /\ emitted' = <<>>
       \/ \E succeeded \in SUBSET FallibleSegments(tx) :
            /\ status' = IF succeeded = FallibleSegments(tx) THEN "SUCCESS" ELSE "PARTIAL_SUCCESS"
            /\ emitted' = Emissions(tx, succeeded, Home, Hash, 0)
    /\ UNCHANGED <<tx, log, readAt, output, verdict>>

\* A source delivers one more event.
Deliver ==
    /\ status # None
    /\ Len(log) < MaxDeliveries
    /\ \E e \in Noise \cup UNION {{emitted[j]} \cup Altered(emitted[j]) : j \in DOMAIN emitted} :
        log' = Append(log, e)
    /\ UNCHANGED <<tx, status, emitted, readAt, output, verdict>>

\* readPackages on everything delivered so far.
Read ==
    /\ readAt < Len(log)
    /\ readAt' = Len(log)
    /\ output' = ReadPackages(log, ReadOptions)
    /\ UNCHANGED <<tx, status, emitted, log, verdict>>

\* verifyTransactionPackages on the raw transaction.
Verify ==
    /\ status # None /\ verdict = None
    /\ verdict' = VerifiedPackages(tx, Target, Home, Hash, status)
    /\ UNCHANGED <<tx, status, emitted, log, readAt, output>>

Next == Apply \/ Deliver \/ Read \/ Verify

Spec == Init /\ [][Next]_vars

-----------------------------------------------------------------------------
(* Properties *)

Keys == [network : Networks, contract : Contracts, name : Names, hash : Hashes, segment : Segments]

\* Type correctness: every package lies in an intent's segment of the chain.
TypeOK ==
    /\ IsTx(tx) /\ status \in Included \cup {"FAILURE", None}
    /\ readAt \in 0..Len(log)
    /\ output # None => \A k \in DOMAIN output.packages :
        /\ k \in Keys
        /\ output.packages[k].parts \in Seq(Parts)
        /\ output.packages[k].status \in {"accepted", "rejected"}
    /\ verdict # None => \A k \in DOMAIN verdict : k \in Keys /\ verdict[k] \in Seq(Parts)

\* The deliveries the last read saw, and those of one group, as sets.
Seen == {log[i] : i \in 1..readAt}
Of(k) == {e \in Seen : OptedIn(e, ReadOptions) /\ GroupKey(e) = k}
WellFormed(k) == {e \in Of(k) : ~e.value.long}
SeenKeys == {GroupKey(e) : e \in {x \in Seen : OptedIn(x, ReadOptions)}}

\* A read depends on which events were delivered, never on their order or on how
\* often: its packages are the groups of the delivered events; a package is
\* rejected exactly when one of its identities came with two contents or a
\* malformed one, and the parts of an accepted one follow the positions.
OrderFree ==
    output # None =>
        /\ output.error <=> \/ readAt > ReadOptions.maxEvents
                            \/ \E e \in Seen : e.segment \notin Segments \/ e.position < 0
                            \/ Cardinality(SeenKeys) > ReadOptions.maxGroups
        /\ ~output.error =>
            /\ DOMAIN output.packages = SeenKeys
            /\ \A k \in SeenKeys :
                LET pkg == output.packages[k] IN
                /\ pkg.status = "rejected" <=>
                        \E d, e \in Of(k) : d.value.long \/ (d.position = e.position /\ d # e)
                /\ {pkg.positions[j] : j \in DOMAIN pkg.positions} = {e.position : e \in WellFormed(k)}
                /\ \A i, j \in DOMAIN pkg.positions : i < j => pkg.positions[i] < pkg.positions[j]
                /\ pkg.status = "accepted" =>
                        \A j \in DOMAIN pkg.parts : \E e \in WellFormed(k) :
                            e.position = pkg.positions[j] /\ e.value.part = pkg.parts[j]

\* More deliveries never repair a read: an error stays an error and a rejected
\* package stays rejected, whatever is redelivered.
RejectedForGood ==
    [][output # None =>
        /\ output.error => output'.error
        /\ ~output'.error => \A k \in DOMAIN output.packages :
            /\ k \in DOMAIN output'.packages
            /\ output.packages[k].status = "rejected" => output'.packages[k].status = "rejected"]_output

\* What the ledger emitted for one group, in emission order.
LedgerParts(k) ==
    LET mine == Kept(emitted, {j \in DOMAIN emitted : GroupKey(emitted[j]) = k})
    IN [j \in DOMAIN mine |-> mine[j].value.part]

TargetKey(s) ==
    [network |-> Home, contract |-> Target.contract, name |-> Target.name, hash |-> Hash, segment |-> s]

\* An accepted package whose placement holds in an included transaction is whole,
\* though the source may have lost, repeated or altered events: exactly what the
\* ledger emitted from that intent, in emission order.
PlacedIsWhole ==
    output # None /\ status \in Included =>
        \A s \in Segments :
            LET k == TargetKey(s) IN
            k \in DOMAIN output.packages /\ output.packages[k].status = "accepted"
                    /\ PlacementOK(tx, Target, s, output.packages[k].parts)
                => output.packages[k].parts = LedgerParts(k)

\* The transaction is within the limits on events and packages of one read.
WithinLimits ==
    /\ Len(PartEvents(tx, Home, Target.contract, Hash)) <= MaxEvents
    /\ Cardinality({s \in DOMAIN tx.intents : RawParts(tx, Target, s) # <<>>}) <= MaxGroups

\* The raw transaction alone tells the same: what it verifies is what the ledger
\* emitted, and every package whose emission is cleanly placed is verified, unless the
\* transaction is beyond the reader's limits.
VerdictIsLedger ==
    verdict # None =>
        /\ \A k \in DOMAIN verdict : status \in Included /\ verdict[k] = LedgerParts(k)
        /\ WithinLimits => \A s \in DOMAIN tx.intents :
            LedgerParts(TargetKey(s)) # <<>> /\ PlacementOK(tx, Target, s, LedgerParts(TargetKey(s)))
                => TargetKey(s) \in DOMAIN verdict
=============================================================================
