------------------------------ MODULE Publication ------------------------------
(***************************************************************************)
(* Publications on a live chain: runs of the publish command (runPublish   *)
(* in src/deploy-tools/commands.ts), the network they submit to, the       *)
(* ledger, an indexer that lags behind it, and strangers who merge their   *)
(* own transactions into what circulates.                                  *)
(*                                                                         *)
(* A run is one process: it may crash at any moment, and a later run may   *)
(* be told the same record path.  What buildPackagesTransaction and        *)
(* finalizeTransactionPackages return is any draft the guard passes, which *)
(* is what module Publisher shows of them; a draft's calls were run        *)
(* against the state the run pinned when it started.                       *)
(***************************************************************************)
EXTENDS Packages

CONSTANTS
    Runs,           \* runs of the publish command
    Paths,          \* record paths (--out)
    PathOf,         \* the path a run was given
    Overlapping,    \* runs given one path may overlap in time
    Asked,          \* the parts of each message of a run, in order
    Target,         \* contract, entry and name every run publishes to
    Drafts,         \* [run, state, tx, packages]: transactions assembly might make
    Others,         \* transactions of strangers
    StateChanges,   \* the contract states that may follow one another, per state
    TTL,            \* ttlSeconds, in ticks
    Grace,          \* what inclusionTimeout adds to the TTL (60 s), in ticks
    Ahead,          \* how far each run's clock is ahead of the chain's
    MaxAttempts,    \* how often the indexer client tries a query (4)
    Horizon         \* bound on time

ASSUME PublicationAssumption ==
    /\ PathOf \in [Runs -> Paths]
    /\ Overlapping \in BOOLEAN
    /\ Asked \in [Runs -> Seq(Seq(Parts))]
    /\ \A d \in Drafts : /\ d.run \in Runs /\ d.state \in States /\ IsTx(d.tx)
                         /\ d.packages \in Seq(Packages)
                         /\ Len(d.packages) = Len(Asked[d.run])
                         /\ \A i \in DOMAIN d.packages : /\ d.packages[i].parts = Asked[d.run][i]
                                                         /\ d.packages[i].contract = Target.contract
                                                         /\ d.packages[i].entry = Target.entry
                                                         /\ d.packages[i].name = Target.name
                         /\ RecordOf(d.tx, d.packages, d.state) # None
    /\ Target \in [contract : Contracts, entry : EntryPoints, name : Names]
    /\ Networks # {} /\ Hashes # {}
    /\ \A u \in Others : IsTx(u)
    /\ \A st \in DOMAIN StateChanges : StateChanges[st] \subseteq DOMAIN StateChanges
    /\ TTL \in Nat /\ Grace \in Nat /\ Horizon \in Nat
    /\ Ahead \in [Runs -> Nat] /\ \A r \in Runs : Ahead[r] < Grace
    /\ MaxAttempts \in Nat \ {0}

VARIABLES
    clock,      \* time
    state,      \* the target contract's state
    pool,       \* [tx, ttl]: what circulates in the network
    chain,      \* [tx, status, succeeded]: what blocks hold, succeeded the fallible
                \* segments that did
    indexed,    \* how much of the chain the indexer shows
    disk,       \* [run, stage, saved]: the record at each path, Absent at first
    pc,         \* where each run is
    pinned,     \* the state each run pinned, its ttl, its wait's deadline by its own
                \* clock, and how often its current query has failed
    made,       \* the record each run holds in memory, or None
    found       \* [tx, status, hash]: what each run's wait returned, or None

vars == <<clock, state, pool, chain, indexed, disk, pc, pinned, made, found>>

network == <<clock, state, chain, indexed>>

Busy == {"building", "finalized", "sent", "waiting", "found", "located"}
Ended == {"refused", "failed", "dry", "crashed", "unseen", "absent", "unverified", "verified"}

LatestOf(x, y) == IF x > y THEN x ELSE y
EarliestOf(x, y) == IF x < y THEN x ELSE y

\* Mutant of WaitUntil: nothing is added to the TTL.
MutantWaitUntil(now, ttl) == LatestOf(now, ttl)

\* Date.now() of run r; a ttl is a time of the chain's own clock.
LocalTime(r) == clock + Ahead[r]

\* inclusionTimeout, as the deadline it makes: max(60 s, what the TTL leaves + 60 s).
WaitUntil(now, ttl) == LatestOf(now, ttl) + Grace

-----------------------------------------------------------------------------
(* The ledger and the indexer *)

\* The guaranteed calls of a transaction replay: each reads the state of now.
Replays(t) ==
    \A s \in DOMAIN t.intents : \A k \in DOMAIN t.intents[s].actions :
        LET a == t.intents[s].actions[k] IN
        a.kind = "call" /\ a.contract = Target.contract /\ a.guaranteed # None
            => a.guaranteed.reads = state

\* The transactions of the chain that took effect: a failed one has none.
InEffect == {n \in DOMAIN chain : chain[n].status \in Included}

\* No intent of it has taken effect before.
Unspent(t) == \A n \in InEffect : Identifiers(t) \cap Identifiers(chain[n].tx) = {}

\* What readers of the chain get from the intent at segment s of a landed transaction.
Emitted(e, s) ==
    [guaranteed |-> GuaranteedAt(e.tx, s),
     fallible |-> IF s \in e.succeeded THEN FallibleAt(e.tx, s) ELSE {}]

-----------------------------------------------------------------------------
\* No record: existsSync says no.
Absent == [run |-> None, stage |-> "absent", saved |-> None]

Init ==
    /\ clock = 0 /\ state \in DOMAIN StateChanges
    /\ pool = {} /\ chain = <<>> /\ indexed = 0
    /\ disk = [p \in Paths |-> Absent]
    /\ pc = [r \in Runs |-> "idle"]
    /\ pinned = [r \in Runs |-> [state |-> None, ttl |-> 0, deadline |-> 0, tries |-> 0]]
    /\ made = [r \in Runs |-> None]
    /\ found = [r \in Runs |-> None]

Tick ==
    /\ clock < Horizon
    /\ clock' = clock + 1
    /\ UNCHANGED <<state, pool, chain, indexed, disk, pc, pinned, made, found>>

\* Somebody else's transaction changes the contract: authority rotated, key removed.
ChangeState ==
    /\ state' \in StateChanges[state]
    /\ UNCHANGED <<clock, pool, chain, indexed, disk, pc, pinned, made, found>>

\* What a block may include: a submitted transaction, merged with that of another
\* run, of a stranger, of both or of none.  A merge needs nobody's consent and
\* reads no state, so it is made at the moment its result lands.
Circulating ==
    LET both == pool \cup {[tx |-> Merge(x[1].tx, x[2].tx), ttl |-> EarliestOf(x[1].ttl, x[2].ttl)] :
                            x \in {y \in pool \X pool : Mergeable(y[1].tx, y[2].tx)}}
    IN both \cup {[tx |-> Merge(x[1].tx, x[2]), ttl |-> x[1].ttl] :
                    x \in {y \in both \X Others : Mergeable(y[1].tx, y[2])}}

\* A block includes a circulating transaction: its whole guaranteed phase, and the
\* fallible segments that succeed.
Land ==
    /\ \E e \in Circulating, succeeded \in SUBSET Segments :
        /\ clock <= e.ttl /\ Replays(e.tx) /\ Unspent(e.tx)
        /\ succeeded \subseteq FallibleSegments(e.tx)
        /\ chain' = Append(chain,
                [tx |-> e.tx, succeeded |-> succeeded,
                 status |-> IF succeeded = FallibleSegments(e.tx) THEN "SUCCESS" ELSE "PARTIAL_SUCCESS"])
    /\ UNCHANGED <<clock, state, pool, indexed, disk, pc, pinned, made, found>>

\* A circulating transaction whose guaranteed phase does not replay is shown as FAILURE
\* and takes no effect.  README.md says that the ledger includes none, yet the indexer's
\* client and verifyTransactionPackages provide for one.  Bound: what is on the chain
\* fails no more.
Fail ==
    /\ \E e \in Circulating :
        /\ clock <= e.ttl /\ ~Replays(e.tx)
        /\ \A n \in DOMAIN chain : Identifiers(e.tx) \cap Identifiers(chain[n].tx) = {}
        /\ chain' = Append(chain, [tx |-> e.tx, succeeded |-> {}, status |-> "FAILURE"])
    /\ UNCHANGED <<clock, state, pool, indexed, disk, pc, pinned, made, found>>

\* Mutant of Index: the indexer shows what is not there yet.
MutantIndex ==
    /\ indexed < Horizon
    /\ indexed' = indexed + 1
    /\ UNCHANGED <<clock, state, pool, chain, disk, pc, pinned, made, found>>

\* The indexer catches up with one more transaction.
Index ==
    /\ indexed < Len(chain)
    /\ indexed' = indexed + 1
    /\ UNCHANGED <<clock, state, pool, chain, disk, pc, pinned, made, found>>

-----------------------------------------------------------------------------
(* runPublish *)

Goto(r, stage) == pc' = [pc EXCEPT ![r] = stage]

\* writeRecord: temporary file, then rename.
Save(r, stage) == disk' = [disk EXCEPT ![PathOf[r]] = [run |-> r, stage |-> stage, saved |-> made'[r]]]

\* A record exists at path p.
Exists(p) == disk[p].stage # "absent"

\* Mutant of PathFree: nothing looks for an existing record.
MutantPathFree(r) == TRUE

\* assertNewRecord.
PathFree(r) == ~Exists(PathOf[r])

\* The run starts: no record may exist at its path.
Start(r) ==
    /\ pc[r] = "idle"
    /\ clock + TTL + Grace <= Horizon
    /\ Overlapping \/ \A q \in Runs : PathOf[q] = PathOf[r] => pc[q] \notin Busy
    /\ IF PathFree(r)
       THEN /\ Goto(r, "building")
            /\ pinned' = [pinned EXCEPT ![r] = [state |-> state, ttl |-> clock + TTL, deadline |-> 0, tries |-> 0]]
       ELSE Goto(r, "refused") /\ UNCHANGED pinned
    /\ UNCHANGED <<network, pool, disk, made, found>>

\* Mutant of Finalize: the record is only saved once the network has answered.
MutantFinalize(r) ==
    /\ pc[r] = "building"
    /\ \E d \in Drafts :
        /\ d.run = r /\ d.state = pinned[r].state
        /\ CarriesAll(d.tx, d.packages)
        /\ made' = [made EXCEPT ![r] = RecordOf(d.tx, d.packages, d.state)]
    /\ \E stage \in {"finalized", "dry"} : Goto(r, stage)
    /\ UNCHANGED <<network, pool, disk, pinned, found>>

\* Assembled, proven, balanced and checked: the record is saved.  A dry run stops.
Finalize(r) ==
    /\ pc[r] = "building"
    /\ \E d \in Drafts :
        /\ d.run = r /\ d.state = pinned[r].state
        /\ CarriesAll(d.tx, d.packages)
        /\ made' = [made EXCEPT ![r] = RecordOf(d.tx, d.packages, d.state)]
    /\ Save(r, "finalized")
    /\ \E stage \in {"finalized", "dry"} : Goto(r, stage)
    /\ UNCHANGED <<network, pool, pinned, found>>

\* submitRecord hands the bytes to the network, which may or may not take them.
Send(r) ==
    /\ pc[r] = "finalized"
    /\ pool' \in {pool, pool \cup {[tx |-> made[r].tx, ttl |-> pinned[r].ttl]}}
    /\ Goto(r, "sent")
    /\ UNCHANGED <<network, disk, pinned, made, found>>

\* The submitter answers with an identifier; the wait begins.
SendReturns(r) ==
    /\ pc[r] = "sent"
    /\ [tx |-> made[r].tx, ttl |-> pinned[r].ttl] \in pool
    /\ made' = made
    /\ Save(r, "submitted")
    /\ WaitUntil(LocalTime(r), pinned[r].ttl) <= Horizon + Ahead[r]
    /\ pinned' = [pinned EXCEPT ![r].deadline = WaitUntil(LocalTime(r), pinned[r].ttl)]
    /\ Goto(r, "waiting")
    /\ UNCHANGED <<network, pool, found>>

\* Building, or the submission, throws.
Throws(r) ==
    /\ pc[r] \in {"building", "sent"}
    /\ Goto(r, "failed")
    /\ UNCHANGED <<network, pool, disk, pinned, made, found>>

\* A query of the wait fails (network, HTTP 429 or 5xx): it is tried again, MaxAttempts
\* times in all, and then the wait throws.
QueryFails(r) ==
    /\ pc[r] = "waiting"
    /\ IF pinned[r].tries + 1 < MaxAttempts
       THEN pinned' = [pinned EXCEPT ![r].tries = @ + 1] /\ UNCHANGED pc
       ELSE Goto(r, "failed") /\ UNCHANGED pinned
    /\ UNCHANGED <<network, pool, disk, made, found>>

\* Any other failure is not retried.
QueryRefused(r) ==
    /\ pc[r] = "waiting"
    /\ Goto(r, "failed")
    /\ UNCHANGED <<network, pool, disk, pinned, made, found>>

\* What the indexer shows for any of the record's identifiers.
Matches(r) ==
    {n \in 1..indexed : made[r].identifiers \cap Identifiers(chain[n].tx) # {}}

\* What the indexer reports of a transaction of the chain: its bytes, its status, and
\* as its hash that of the bytes or another.
Reported(e) == [tx : {e.tx}, status : {e.status}, hash : {e.tx, EmptyTx}]

\* One poll of waitForTransaction finds a transaction.
Poll(r) ==
    /\ pc[r] = "waiting"
    /\ \E n \in Matches(r) : \E answer \in Reported(chain[n]) : found' = [found EXCEPT ![r] = answer]
    /\ Goto(r, "found")
    /\ UNCHANGED <<network, pool, disk, pinned, made>>

\* Mutant of NotYet: the deadline is not looked at.
MutantNotYet(r) ==
    /\ pc[r] = "waiting"
    /\ Matches(r) = {}
    /\ pinned' = [pinned EXCEPT ![r].tries = 0]
    /\ UNCHANGED <<network, pool, disk, pc, made, found>>

\* Nothing yet, and time left: the next query starts with its own attempts.
NotYet(r) ==
    /\ pc[r] = "waiting"
    /\ Matches(r) = {}
    /\ LocalTime(r) < pinned[r].deadline
    /\ pinned' = [pinned EXCEPT ![r].tries = 0]
    /\ UNCHANGED <<network, pool, disk, pc, made, found>>

\* Or none, at or after the deadline: "it was not included".
GiveUp(r) ==
    /\ pc[r] = "waiting"
    /\ Matches(r) = {}
    /\ LocalTime(r) >= pinned[r].deadline
    /\ Goto(r, "unseen")
    /\ UNCHANGED <<network, pool, disk, pinned, made, found>>

\* locateRecord on the included bytes; the inclusion is saved either way.
Locate(r) ==
    /\ pc[r] = "found"
    /\ made' = made
    /\ Save(r, "included")
    /\ Goto(r, IF Locates(found[r].tx, made[r]) THEN "located" ELSE "absent")
    /\ UNCHANGED <<network, pool, pinned, found>>

\* The included bytes are read under their own network and hash; a single transaction
\* is read, so any stand for them.
Home == CHOOSE net \in Networks : TRUE
OwnHash == CHOOSE h \in Hashes : TRUE

\* Others merged more of the contract's events into the transaction than the reader takes.
TooMuch(r) == ReadTransaction(found[r].tx, Target, Home, OwnHash).error

\* The hash the indexer reported is that of the bytes, which are bound.
HashFits(r) == found[r].hash = found[r].tx

\* Mutant of Reads: the status the indexer reported is not looked at.
MutantReads(r) ==
    LET verified == VerifiedPackages(found[r].tx, Target, Home, OwnHash, "SUCCESS") IN
    HashFits(r) /\ \A i \in DOMAIN made[r].packages :
        LET pkg == made[r].packages[i] IN
        \E k \in DOMAIN verified : k.segment = pkg.segment /\ verified[k] = pkg.parts

\* Every package is among the verified ones of the included bytes, with its own payload;
\* another hash, or a status that is no inclusion, makes every package unverified.
Reads(r) ==
    LET verified == VerifiedPackages(found[r].tx, Target, Home, OwnHash, found[r].status) IN
    HashFits(r) /\ \A i \in DOMAIN made[r].packages :
        LET pkg == made[r].packages[i] IN
        \E k \in DOMAIN verified : k.segment = pkg.segment /\ verified[k] = pkg.parts

\* How verifyTransactionPackages on the included bytes ends the run: a limit of the
\* reader makes it throw.
Outcome(r) == IF TooMuch(r) THEN "failed" ELSE IF Reads(r) THEN "verified" ELSE "unverified"

\* The last save, unless the run ends by a throw.
EndRun(r, stage) ==
    /\ pc[r] = "located"
    /\ made' = made
    /\ IF stage = "failed" THEN UNCHANGED disk
       ELSE Save(r, IF stage = "verified" THEN "verified" ELSE "included")
    /\ Goto(r, stage)
    /\ UNCHANGED <<network, pool, pinned, found>>

\* The included bytes are verified.
VerifyIncluded(r) == pc[r] = "located" /\ EndRun(r, Outcome(r))

\* The process dies; what is on disk stays.
Crash(r) ==
    /\ pc[r] \in Busy
    /\ Goto(r, "crashed")
    /\ UNCHANGED <<network, pool, disk, pinned, made, found>>

Step(r) ==
    \/ Start(r) \/ Finalize(r) \/ Send(r) \/ SendReturns(r) \/ Throws(r)
    \/ QueryFails(r) \/ QueryRefused(r) \/ NotYet(r) \/ Poll(r) \/ GiveUp(r)
    \/ Locate(r) \/ VerifyIncluded(r) \/ Crash(r)

Next ==
    \/ Tick \/ ChangeState \/ Land \/ Fail \/ Index
    \/ \E r \in Runs : Step(r)

Spec == Init /\ [][Next]_vars

\* A live process takes its next step, time passes, and the indexer keeps up
\* eventually; nothing makes a block include a transaction, or a query succeed.
\* The steps of EndRun are those of VerifyIncluded, whatever it finds.
FairSpec ==
    /\ Spec
    /\ WF_vars(Tick)
    /\ WF_vars(Index)
    /\ \A r \in Runs : WF_vars(Finalize(r) \/ Throws(r) \/ Send(r) \/ SendReturns(r)
                                \/ QueryFails(r) \/ NotYet(r) \/ Poll(r) \/ GiveUp(r) \/ Locate(r)
                                \/ \E stage \in {"failed", "verified", "unverified"} : EndRun(r, stage))

-----------------------------------------------------------------------------
(* Properties *)

Stages == {"finalized", "submitted", "included", "verified"}

\* Type correctness, and how far each variable may be ahead of another.
TypeOK ==
    /\ clock \in 0..Horizon /\ state \in DOMAIN StateChanges
    /\ \A e \in pool : IsTx(e.tx) /\ e.ttl \in 0..Horizon
    /\ \A n \in DOMAIN chain : /\ IsTx(chain[n].tx) /\ chain[n].status \in Included \cup {"FAILURE"}
                               /\ chain[n].succeeded \subseteq FallibleSegments(chain[n].tx)
    /\ indexed \in 0..Len(chain)
    /\ pc \in [Runs -> {"idle"} \cup Busy \cup Ended]
    /\ \A p \in Paths : Exists(p) =>
            disk[p].run \in Runs /\ disk[p].stage \in Stages /\ IsTx(disk[p].saved.tx)
    /\ \A r \in Runs : found[r] # None => \E n \in DOMAIN chain : found[r] \in Reported(chain[n])

\* Transaction t holds the intents of run r's packages.
Holds(t, r) == made[r] # None /\ made[r].identifiers \cap Identifiers(t) # {}

\* Its publication took effect.
Landed(r) == \E n \in InEffect : Holds(chain[n].tx, r)

\* The packages of the runs' publications, as readers of the chain see them.
Board ==
    UNION {UNION {{[pub |-> r, index |-> i,
                    content |-> Emitted(chain[n], made[r].packages[i].segment)] :
                i \in {j \in DOMAIN made[r].packages : made[r].hashes[j] \in Identifiers(chain[n].tx)}} :
            r \in {q \in Runs : made[q] # None}} : n \in InEffect}

Promised ==
    [r \in Runs |-> [i \in DOMAIN Asked[r] |->
        [guaranteed |-> {<<k, 1, Misc(Target.name, Asked[r][i][k])>> : k \in DOMAIN Asked[r][i]},
         fallible |-> {}]]]

Promise == INSTANCE AtomicPublication
    WITH Publications <- Runs, Content <- Promised, board <- Board

\* However transactions are merged, delayed, dropped, resubmitted or fail in their
\* fallible part, and wherever a run crashes, each publication's packages become
\* visible all together, whole, at most once (README.md: "lands whole, in order, or
\* not at all").
ImplementsPromise == Promise!Spec

\* A record that says "verified" is true: the chain holds every package of the run,
\* with exactly the parts of its messages, in a transaction that took effect (runPublish's
\* last save).
VerifiedIsPublished ==
    \A p \in Paths : disk[p].stage = "verified" =>
        Promise!PackagesOf(disk[p].run) \subseteq Board

\* The transaction run r found has somebody's Zswap offer at a segment of its packages.
Offered(r) ==
    \E i \in DOMAIN made[r].packages : made[r].packages[i].segment \in found[r].tx.zswap

\* Of what others may merge into a publication, only a fallible Zswap offer at one of
\* its own segments hides it from the run that looks for it; nothing else does
\* (locateRecord: "other intents do not matter").
OnlyOffersHide == \A r \in Runs : pc[r] = "absent" => Offered(r)

\* Of the transaction run r found, the indexer reported a status that is no inclusion, or
\* another hash than that of the bytes.
IllReported(r) == found[r].status \notin Included \/ ~HashFits(r)

\* A publication found by one of its identifiers is located, unless such an offer hides
\* it, and then verified, whatever strangers merged into it within the reader's limits:
\* it ends unverified only if the indexer reported a failure or another hash than that
\* of the bytes (locateRecord, verifyTransactionPackages).
FoundIsLocated == OnlyOffersHide /\ \A r \in Runs : pc[r] = "unverified" => IllReported(r)

\* Whatever circulates of a run is on record at its path, wherever the run crashed
\* and whatever ran at the same path later (runPublish saves before it submits).
RecordedFirst ==
    \A r \in Runs : (\E e \in pool : Holds(e.tx, r)) =>
        Exists(PathOf[r]) /\ disk[PathOf[r]].saved = made[r]

\* A record is never overwritten by another run's (assertNewRecord).
NeverOverwritten ==
    [][\A p \in Paths : Exists(p) => disk'[p].run = disk[p].run]_disk

\* When a run stops waiting, its publication has landed or never will: what the
\* indexer did not show in time may exist, but cannot still be on its way
\* (inclusionTimeout waits past the TTL).
GiveUpIsFinal ==
    [][\A r \in Runs : pc[r] = "unseen" /\ Landed(r)' => Landed(r)]_vars

\* The message of a run that stops waiting: "the publication was not seen before its
\* TTL; it was not included".
UnseenNotIncluded == \A r \in Runs : pc[r] = "unseen" => ~Landed(r)

\* Every run that starts ends, whether or not its transaction lands or the indexer
\* shows it, and whatever else happens at its path.
RunsEnd == \A r \in Runs : pc[r] \in Busy ~> pc[r] \in Ended
=============================================================================
