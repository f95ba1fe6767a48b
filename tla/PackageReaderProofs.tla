-------------------------- MODULE PackageReaderProofs --------------------------
(***************************************************************************)
(* Theorems of PackageReader for any transaction, any noise and any limits *)
(* of the reader, however a source loses, repeats, reorders or alters the  *)
(* ledger's events.                                                        *)
(***************************************************************************)
EXTENDS PackageReader, PackagesProofs

-----------------------------------------------------------------------------
(* The inductive invariant, in named parts *)

\* The ledger's events are those of the transaction with some of its fallible segments,
\* or none when its guaranteed phase failed.
EmittedOf(succeeded) ==
    /\ status \in Included /\ succeeded \in SUBSET FallibleSegments(tx)
    /\ emitted = Emissions(tx, succeeded, Home, Hash, 0)

Ledger ==
    /\ tx \in Candidates /\ emitted \in Seq(Events)
    /\ \/ status \in {None, "FAILURE"} /\ emitted = <<>>
       \/ \E succeeded : EmittedOf(succeeded)

\* The first n deliveries.
Before(n) == [i \in 1..n |-> log[i]]

\* What was read is what readPackages makes of the deliveries read.
LastRead ==
    /\ log \in Seq(Events) /\ readAt \in 0..Len(log)
    /\ output # None => output = ReadPackages(Before(readAt), ReadOptions)

\* The verdict is verifyTransactionPackages' of the included transaction.
LastVerdict ==
    verdict # None => status # None /\ verdict = VerifiedPackages(tx, Target, Home, Hash, status)

IInv == Ledger /\ LastRead /\ LastVerdict

\* The named parts hold before anything happens.
LEMMA InitInv == Init => IInv
<1> SUFFICES ASSUME Init PROVE IInv
    OBVIOUS
<1>1. <<>> \in Seq(Events) /\ Len(<<>>) = 0
    BY EmptySeq
<1> QED BY <1>1 DEF Init, IInv, Ledger, LastRead, LastVerdict

\* What a source delivers is an event, even when it was altered.
LEMMA DeliveredIsEvent ==
    ASSUME Ledger, NEW e \in Noise \cup UNION {{emitted[j]} \cup Altered(emitted[j]) : j \in DOMAIN emitted}
    PROVE  e \in Events
<1>1. CASE e \in Noise
    BY <1>1, ReaderAssumption
<1>2. ASSUME NEW j \in DOMAIN emitted, e \in {emitted[j]} \cup Altered(emitted[j])
      PROVE  e \in Events
    <2>1. \A i \in DOMAIN emitted : emitted[i] \in Events
        BY ElementOfSeq, LenProperties DEF Ledger
    <2>2. PICK d : d = emitted[j]
        OBVIOUS
    <2>3. PICK v : v = d.value
        OBVIOUS
    <2>4. /\ d \in Events /\ v \in Values /\ v = [name |-> v.name, part |-> v.part, long |-> v.long]
          /\ d = [network |-> d.network, contract |-> d.contract, hash |-> d.hash,
                  segment |-> d.segment, position |-> d.position, value |-> v]
        BY <2>1, <2>2, <2>3, EventFields DEF Events, Values
    <2>5. CASE e = d
        BY <2>4, <2>5
    <2>6. ASSUME NEW p \in Parts, e = [d EXCEPT !.value.part = p] PROVE e \in Events
        <3>1. [v EXCEPT !.part = p] = [name |-> v.name, part |-> p, long |-> v.long]
            BY <2>4
        <3>2. [v EXCEPT !.part = p] \in Values
            BY <2>4, <3>1 DEF Values
        <3>3. e = [d EXCEPT !.value = [v EXCEPT !.part = p]]
            BY <2>3, <2>6
        <3> QED BY <2>4, <3>2, <3>3 DEF Events
    <2>7. ASSUME e = [d EXCEPT !.value.long = TRUE] PROVE e \in Events
        <3>0. PICK yes \in BOOLEAN : yes = TRUE
            OBVIOUS
        <3>1. [v EXCEPT !.long = yes] = [name |-> v.name, part |-> v.part, long |-> yes]
            BY <2>4
        <3>2. [v EXCEPT !.long = yes] \in Values
            BY <2>4, <3>1 DEF Values
        <3>3. e = [d EXCEPT !.value = [v EXCEPT !.long = yes]]
            BY <2>3, <2>7, <3>0
        <3> QED BY <2>4, <3>2, <3>3 DEF Events
    <2>8. ASSUME NEW i \in DOMAIN emitted, e = [d EXCEPT !.position = emitted[i].position] PROVE e \in Events
        <3>1. emitted[i].position \in Int
            BY <2>1, EventFields
        <3> QED BY <2>4, <2>8, <3>1 DEF Events
    <2> QED BY <1>2, <2>2, <2>5, <2>6, <2>7, <2>8 DEF Altered
<1> QED BY <1>1, <1>2

\* What was delivered before stays.
LEMMA BeforeStays ==
    ASSUME NEW e \in Events, log \in Seq(Events), log' = Append(log, e), NEW n \in 0..Len(log)
    PROVE  n \in 0..Len(log') /\ log' \in Seq(Events) /\ Before(n)' = Before(n)
<1>1. PICK l, s : l = Len(log) /\ s = log /\ s \in Seq(Events)
    OBVIOUS
<1>2. PICK t : t = Append(s, e)
    OBVIOUS
<1>3. t \in Seq(Events) /\ Len(t) = l + 1 /\ \A i \in 1..l : t[i] = s[i]
    BY <1>1, <1>2, AppendProperties
<1>4. l \in Nat
    BY <1>1, LenProperties
<1>5. [i \in 1..n |-> t[i]] = [i \in 1..n |-> s[i]]
    <2>1. \A i \in 1..n : i \in 1..l
        BY <1>1, <1>4
    <2> QED BY <1>3, <2>1
<1>6. log' = t /\ log = s
    BY <1>1, <1>2
<1>7. Before(n)' = [i \in 1..n |-> t[i]] /\ Before(n) = [i \in 1..n |-> s[i]]
    BY <1>6 DEF Before
<1>8. n \in 0..Len(t)
    BY <1>1, <1>3, <1>4
<1> QED BY <1>3, <1>5, <1>6, <1>7, <1>8

\* Everything delivered is before the end.
LEMMA BeforeAll == log \in Seq(Events) => Before(Len(log)) = log
<1> SUFFICES ASSUME log \in Seq(Events) PROVE Before(Len(log)) = log
    OBVIOUS
<1>1. log \in [1..Len(log) -> Events]
    BY LenProperties
<1> QED BY <1>1 DEF Before

\* Every step keeps the named parts.
LEMMA NextInv == IInv /\ [Next]_vars => IInv'
<1> SUFFICES ASSUME IInv, [Next]_vars PROVE IInv'
    OBVIOUS
<1> USE DEF IInv
<1>1. CASE Apply
    <2>1. status = None /\ verdict = None /\ UNCHANGED <<tx, log, readAt, output, verdict>>
        BY <1>1 DEF Apply, LastVerdict
    <2>2. CASE status' = "FAILURE" /\ emitted' = <<>>
        <3>1. <<>> \in Seq(Events)
            BY EmptySeq
        <3>2. Ledger'
            BY <2>1, <2>2, <3>1 DEF Ledger
        <3> QED BY <2>1, <3>2 DEF LastRead, LastVerdict, Before
    <2>3. ASSUME NEW succeeded \in SUBSET FallibleSegments(tx),
                 status' = (IF succeeded = FallibleSegments(tx) THEN "SUCCESS" ELSE "PARTIAL_SUCCESS"),
                 emitted' = Emissions(tx, succeeded, Home, Hash, 0)
          PROVE  IInv'
        <3>1. IsTx(tx) /\ Home \in Networks /\ Hash \in Hashes /\ 0 \in Nat
            BY ReaderAssumption DEF Ledger
        <3>2. succeeded \in SUBSET (DOMAIN tx.intents)
            BY DEF FallibleSegments
        <3>3. Emissions(tx, succeeded, Home, Hash, 0) \in Seq(Events)
            BY <3>1, <3>2, EmissionTypes
        <3>4. EmittedOf(succeeded)'
            BY <2>1, <2>3 DEF EmittedOf, Included
        <3>5. Ledger'
            BY <2>1, <2>3, <3>3, <3>4 DEF Ledger
        <3> QED BY <2>1, <3>5 DEF LastRead, LastVerdict, Before
    <2> QED BY <1>1, <2>2, <2>3 DEF Apply
<1>2. CASE Deliver
    <2>1. UNCHANGED <<tx, status, emitted, readAt, output, verdict>>
        BY <1>2 DEF Deliver
    <2>2. PICK e \in Noise \cup UNION {{emitted[j]} \cup Altered(emitted[j]) : j \in DOMAIN emitted} :
            log' = Append(log, e)
        BY <1>2 DEF Deliver
    <2>3. e \in Events
        BY DeliveredIsEvent
    <2>4. readAt \in 0..Len(log') /\ log' \in Seq(Events) /\ Before(readAt)' = Before(readAt)
        <3>1. PICK n : n = readAt
            OBVIOUS
        <3>2. n \in 0..Len(log') /\ log' \in Seq(Events) /\ Before(n)' = Before(n)
            BY <2>2, <2>3, <3>1, BeforeStays DEF LastRead
        <3>3. Before(readAt)' = [i \in 1..n |-> log'[i]] /\ Before(readAt) = [i \in 1..n |-> log[i]]
            BY <2>1, <3>1 DEF Before
        <3> QED BY <3>1, <3>2, <3>3 DEF Before
    <2>5. Ledger'
        BY <2>1 DEF Ledger, EmittedOf
    <2> QED BY <2>1, <2>4, <2>5 DEF LastRead, LastVerdict
<1>3. CASE Read
    <2>1. /\ readAt' = Len(log) /\ output' = ReadPackages(log, ReadOptions)
          /\ UNCHANGED <<tx, status, emitted, log, verdict>>
        BY <1>3 DEF Read
    <2>2. Len(log) \in Nat /\ log \in Seq(Events)
        BY LenProperties DEF LastRead
    <2>3. Before(readAt)' = log
        <3>1. Before(readAt)' = [i \in 1..Len(log) |-> log[i]]
            BY <2>1 DEF Before
        <3> QED BY <2>2, <3>1, BeforeAll DEF Before
    <2>4. LastRead'
        BY <2>1, <2>2, <2>3 DEF LastRead
    <2> QED BY <2>1, <2>4 DEF Ledger, EmittedOf, LastVerdict
<1>4. CASE Verify
    BY <1>4 DEF Verify, Ledger, EmittedOf, LastRead, Before, LastVerdict
<1>5. CASE UNCHANGED vars
    BY <1>5 DEF vars, Ledger, EmittedOf, LastRead, Before, LastVerdict
<1> QED BY <1>1, <1>2, <1>3, <1>4, <1>5 DEF Next

\* The named parts hold at all times.
THEOREM Invariance == Spec => []IInv
BY InitInv, NextInv, PTL DEF Spec

-----------------------------------------------------------------------------
(* Reads *)

\* The last read, told from the deliveries it saw.
LEMMA ReadSaw ==
    ASSUME LastRead, output # None
    PROVE  \E evs : /\ evs = Before(readAt) /\ evs \in Seq(Events) /\ Len(evs) = readAt /\ readAt \in Nat
                    /\ ReadAs(evs, ReadOptions, readAt, output)
                    /\ Seen = {evs[i] : i \in 1..readAt}
                    /\ SeenKeys = KeysOf(evs, ReadOptions, readAt)
<1>1. PICK evs : evs = Before(readAt)
    OBVIOUS
<1>2. Len(log) \in Nat /\ DOMAIN log = 1..Len(log) /\ \A i \in 1..Len(log) : log[i] \in Events
    BY LenProperties, ElementOfSeq DEF LastRead
<1>3. readAt \in Nat /\ \A i \in 1..readAt : i \in 1..Len(log)
    BY <1>2 DEF LastRead
<1>4. evs \in [1..readAt -> Events] /\ \A i \in 1..readAt : evs[i] = log[i]
    BY <1>1, <1>2, <1>3 DEF Before
<1>5. evs \in Seq(Events)
    BY <1>3, <1>4, SeqDef
<1>6. Len(evs) = readAt
    <2>1. DOMAIN evs = 1..readAt
        BY <1>4
    <2> QED BY <1>3, <1>5, <2>1, LenProperties
<1>7. PICK l, R : ReadAs(evs, ReadOptions, l, R)
    BY <1>5, ReaderAssumption, ReadIs
<1>8. l = readAt /\ R = output
    BY <1>1, <1>6, <1>7 DEF ReadAs, LastRead
<1>9. Seen = {evs[i] : i \in 1..readAt}
    BY <1>4 DEF Seen
<1>10. SeenKeys = KeysOf(evs, ReadOptions, readAt)
    BY <1>9 DEF SeenKeys, KeysOf
<1> QED BY <1>1, <1>3, <1>5, <1>6, <1>7, <1>8, <1>9, <1>10

\* What an error means.
LEMMA ErrorMeans ==
    ASSUME LastRead, output # None
    PROVE  output.error <=> \/ readAt > ReadOptions.maxEvents
                            \/ \E e \in Seen : e.segment \notin Segments \/ e.position < 0
                            \/ Cardinality(SeenKeys) > ReadOptions.maxGroups
<1>1. PICK evs : /\ evs = Before(readAt) /\ evs \in Seq(Events) /\ Len(evs) = readAt /\ readAt \in Nat
                 /\ ReadAs(evs, ReadOptions, readAt, output)
                 /\ Seen = {evs[i] : i \in 1..readAt}
                 /\ SeenKeys = KeysOf(evs, ReadOptions, readAt)
    BY ReadSaw
<1>2. \A i \in 1..readAt : evs[i].position \in Int
    BY <1>1, ElementOfSeq, EventFields
<1>3. \A i \in 1..readAt : ~SourceOK(evs[i]) <=> evs[i].segment \notin Segments \/ evs[i].position < 0
    BY <1>2 DEF SourceOK
<1>4. (\E i \in 1..readAt : ~SourceOK(evs[i])) <=> \E e \in Seen : e.segment \notin Segments \/ e.position < 0
    BY <1>1, <1>3
<1> QED BY <1>1, <1>4 DEF ReadAs, Fails

\* What the package of one group means.
LEMMA PackageMeans ==
    ASSUME LastRead, output # None, ~output.error, NEW k \in SeenKeys,
           NEW pkg, pkg = output.packages[k]
    PROVE  /\ pkg.status \in {"accepted", "rejected"} /\ pkg.parts \in Seq(Parts)
           /\ pkg.status = "rejected" <=>
                    \E d, e \in Of(k) : d.value.long \/ (d.position = e.position /\ d # e)
           /\ {pkg.positions[j] : j \in DOMAIN pkg.positions} = {e.position : e \in WellFormed(k)}
           /\ \A i, j \in DOMAIN pkg.positions : i < j => pkg.positions[i] < pkg.positions[j]
           /\ \A j \in DOMAIN pkg.parts : \E e \in WellFormed(k) :
                    e.position = pkg.positions[j] /\ e.value.part = pkg.parts[j]
<1>1. PICK evs : /\ evs = Before(readAt) /\ evs \in Seq(Events) /\ Len(evs) = readAt /\ readAt \in Nat
                 /\ ReadAs(evs, ReadOptions, readAt, output)
                 /\ Seen = {evs[i] : i \in 1..readAt}
                 /\ SeenKeys = KeysOf(evs, ReadOptions, readAt)
    BY ReadSaw
<1>2. PICK ds, n : PackageRead(evs, ReadOptions, output, k, ds, n)
    BY <1>1, ReaderAssumption, PackagesAre
<1>3. PackageOf(ds, n, pkg) /\ GroupOf(evs, ReadOptions, k, ds)
    BY <1>2 DEF PackageRead
<1>4. Of(k) = {ds[i] : i \in DOMAIN ds}
    BY <1>1, <1>3 DEF Of, GroupOf
<1>5. WellFormed(k) = {ds[i] : i \in Formed(ds)}
    BY <1>4 DEF WellFormed, Formed
<1>6. pkg.status = "rejected" <=> \E d, e \in Of(k) : d.value.long \/ (d.position = e.position /\ d # e)
    BY <1>3, <1>4 DEF PackageOf, Clash
<1>7. {pkg.positions[j] : j \in DOMAIN pkg.positions} = {e.position : e \in WellFormed(k)}
    <2>1. Places(ds) = {e.position : e \in WellFormed(k)}
        BY <1>5 DEF Places
    <2>2. /\ \A j \in DOMAIN pkg.positions : pkg.positions[j] \in Places(ds)
          /\ \A x \in Places(ds) : \E j \in DOMAIN pkg.positions : pkg.positions[j] = x
        BY <1>3 DEF PackageOf, Rising
    <2> QED BY <2>1, <2>2
<1>8. \A i, j \in DOMAIN pkg.positions : i < j => pkg.positions[i] < pkg.positions[j]
    BY <1>3 DEF PackageOf, Rising
<1>9. \A j \in DOMAIN pkg.parts : \E e \in WellFormed(k) :
            e.position = pkg.positions[j] /\ e.value.part = pkg.parts[j]
    <2>1. TAKE j \in DOMAIN pkg.parts
    <2>2. PICK f : IsFirst(ds, f) /\ ds[f].position = pkg.positions[j] /\ pkg.parts[j] = ds[f].value.part
        BY <1>3 DEF PackageOf
    <2> QED BY <1>5, <2>2 DEF IsFirst
<1> QED BY <1>3, <1>6, <1>7, <1>8, <1>9 DEF PackageOf

\* The packages are those of the groups seen.
LEMMA PackagesSeen ==
    ASSUME LastRead, output # None
    PROVE  /\ output.error \in BOOLEAN
           /\ output.error => DOMAIN output.packages = {}
           /\ ~output.error => DOMAIN output.packages = SeenKeys
BY ReadSaw DEF ReadAs

\* A read depends on which events were delivered, never on their order or on how often
\* (readPackages' groups and evaluate).
THEOREM ReadsAreOrderFree == Spec => []OrderFree
<1>1. LastRead => OrderFree
    <2> SUFFICES ASSUME LastRead, output # None PROVE OrderFree
        BY DEF OrderFree
    <2>1. ASSUME ~output.error, NEW k \in SeenKeys
          PROVE  LET pkg == output.packages[k] IN
                 /\ pkg.status = "rejected" <=>
                        \E d, e \in Of(k) : d.value.long \/ (d.position = e.position /\ d # e)
                 /\ {pkg.positions[j] : j \in DOMAIN pkg.positions} = {e.position : e \in WellFormed(k)}
                 /\ \A i, j \in DOMAIN pkg.positions : i < j => pkg.positions[i] < pkg.positions[j]
                 /\ pkg.status = "accepted" =>
                        \A j \in DOMAIN pkg.parts : \E e \in WellFormed(k) :
                            e.position = pkg.positions[j] /\ e.value.part = pkg.parts[j]
        BY <2>1, PackageMeans
    <2> QED BY <2>1, ErrorMeans, PackagesSeen DEF OrderFree
<1> QED BY Invariance, <1>1, PTL DEF IInv

\* More deliveries never repair a read (readPackages keeps no state between calls, and
\* evaluate looks at every delivery of a group).
THEOREM RejectedStays == Spec => RejectedForGood
<1>1. ASSUME IInv, Read, output # None
      PROVE  /\ output.error => output'.error
             /\ ~output'.error => \A k \in DOMAIN output.packages :
                /\ k \in DOMAIN output'.packages
                /\ output.packages[k].status = "rejected" => output'.packages[k].status = "rejected"
    <2>1. PICK evs : /\ evs = Before(readAt) /\ evs \in Seq(Events) /\ Len(evs) = readAt /\ readAt \in Nat
                     /\ ReadAs(evs, ReadOptions, readAt, output)
        BY <1>1, ReadSaw DEF IInv
    <2>2. PICK all : all = log /\ all \in Seq(Events)
        BY <1>1 DEF IInv, LastRead
    <2>3. PICK n, S : ReadAs(all, ReadOptions, n, S)
        BY <2>2, ReaderAssumption, ReadIs
    <2>4. n = Len(log) /\ S = output'
        BY <1>1, <2>2, <2>3 DEF ReadAs, Read
    <2>5. PICK m, R : m = readAt /\ R = output
        OBVIOUS
    <2>6. m <= n /\ \A i \in 1..m : all[i] = evs[i]
        <3>1. n \in Nat
            BY <2>2, <2>4, LenProperties
        <3>2. m \in 0..n
            BY <1>1, <2>4, <2>5 DEF IInv, LastRead
        <3>3. \A i \in 1..m : all[i] = evs[i]
            BY <2>1, <2>2, <2>5 DEF Before
        <3> QED BY <3>1, <3>2, <3>3
    <2>7. ReadAs(evs, ReadOptions, m, R)
        BY <2>1, <2>5
    <2>8. /\ R.error => S.error
          /\ ~S.error => \A k \in DOMAIN R.packages :
                /\ k \in DOMAIN S.packages
                /\ R.packages[k].status = "rejected" => S.packages[k].status = "rejected"
        BY <2>1, <2>2, <2>3, <2>6, <2>7, ReaderAssumption, LongerRead
    <2> QED BY <2>4, <2>5, <2>8
<1>2. IInv /\ [Next]_vars =>
        [output # None =>
            /\ output.error => output'.error
            /\ ~output'.error => \A k \in DOMAIN output.packages :
                /\ k \in DOMAIN output'.packages
                /\ output.packages[k].status = "rejected" => output'.packages[k].status = "rejected"]_output
    <2> SUFFICES ASSUME IInv, [Next]_vars, output' # output, output # None
                 PROVE  /\ output.error => output'.error
                        /\ ~output'.error => \A k \in DOMAIN output.packages :
                            /\ k \in DOMAIN output'.packages
                            /\ output.packages[k].status = "rejected" => output'.packages[k].status = "rejected"
        OBVIOUS
    <2>1. Read
        BY DEF Next, vars, Apply, Deliver, Verify
    <2> QED BY <1>1, <2>1
<1> QED BY Invariance, <1>2, PTL DEF Spec, RejectedForGood

-----------------------------------------------------------------------------
(* What the ledger emitted *)

\* The events of one group, counted from the ledger's items.
LEMMA LedgerPartsAre ==
    ASSUME Ledger, status \in Included, NEW s \in Segments
    PROVE  \E succeeded \in SUBSET (DOMAIN tx.intents) :
            LedgerParts(TargetKey(s)) = Gather(AllItems(tx, succeeded), Emitting(Target.contract, s, Target.name),
                                               ItemPart(Target.contract, s, Target.name))
<1>1. PICK succeeded : EmittedOf(succeeded)
    BY ReaderAssumption DEF Ledger, Included
<1>2. succeeded \in SUBSET (DOMAIN tx.intents)
    BY <1>1 DEF EmittedOf, FallibleSegments
<1>3. IsTx(tx) /\ Home \in Networks /\ Hash \in Hashes /\ 0 \in Nat
    BY ReaderAssumption DEF Ledger
<1>4. PICK k, c, n : k = TargetKey(s) /\ c = Target.contract /\ n = Target.name
    OBVIOUS
<1>5. k = Group(Home, c, n, Hash, s)
    BY <1>4 DEF TargetKey, Group
<1>6. PICK evs : evs = emitted /\ evs \in Seq(Events)
    BY DEF Ledger
<1>7. Gather(evs, OfGroup(k), EventPart(k)) = Gather(AllItems(tx, succeeded), Emitting(c, s, n), ItemPart(c, s, n))
    BY <1>1, <1>2, <1>3, <1>5, <1>6, EmissionGather DEF EmittedOf
<1>8. Gather(evs, OfGroup(k), EventPart(k)) = LedgerParts(k)
    <2>1. \A j \in DOMAIN evs : evs[j] \in Events
        BY <1>6, ElementOfSeq, LenProperties
    <2>2. {j \in DOMAIN evs : GroupKey(evs[j]) = k} = Where(evs, OfGroup(k))
        BY <2>1 DEF Where, OfGroup
    <2>3. LedgerParts(k) = [i \in DOMAIN Those(evs, OfGroup(k)) |-> Those(evs, OfGroup(k))[i].value.part]
        BY <1>6, <2>2 DEF LedgerParts, Those
    <2> QED BY <1>6, <2>3, PartsOfThose
<1> QED BY <1>2, <1>4, <1>7, <1>8

\* Parts whose placement holds in the included transaction are the ledger's.
LEMMA PlacedParts ==
    ASSUME Ledger, status \in Included, NEW s \in Segments, NEW parts, PlacementOK(tx, Target, s, parts)
    PROVE  parts = LedgerParts(TargetKey(s))
<1>1. IsTx(tx)
    BY ReaderAssumption DEF Ledger
<1> QED BY <1>1, LedgerPartsAre, PlacedIsEmitted

\* An accepted package whose placement holds in an included transaction is whole
\* (checkPlacement against the raw transaction).
THEOREM PlacedPackagesWhole == Spec => []PlacedIsWhole
<1>1. IInv => PlacedIsWhole
    BY PlacedParts DEF IInv, PlacedIsWhole
<1> QED BY Invariance, <1>1, PTL

\* What the raw transaction verifies is what the ledger emitted, and within the limits
\* every cleanly placed package is verified (verifyTransactionPackages).
THEOREM VerdictsAreLedger == Spec => []VerdictIsLedger
<1>1. IInv => VerdictIsLedger
    <2> SUFFICES ASSUME IInv, verdict # None PROVE VerdictIsLedger
        BY DEF VerdictIsLedger
    <2>1. IsTx(tx) /\ Home \in Networks /\ Hash \in Hashes
          /\ Target \in [contract : Contracts, entry : EntryPoints, name : Names]
        BY ReaderAssumption DEF IInv, Ledger
    <2>2. PICK V : VerdictAs(tx, Target, Home, Hash, status, V)
        BY <2>1, VerdictIs
    <2>3. V = verdict
        BY <2>2 DEF VerdictAs, IInv, LastVerdict
    <2>4. \A s : TargetKey(s) = Group(Home, Target.contract, Target.name, Hash, s)
        BY DEF TargetKey, Group
    <2>5. \A s \in DOMAIN tx.intents : s \in Segments
        BY <2>1, ActionTypes
    <2>6. ASSUME NEW k \in DOMAIN verdict PROVE status \in Included /\ verdict[k] = LedgerParts(k)
        <3>1. status \in Included
            BY <2>2, <2>3, <2>6 DEF VerdictAs
        <3>2. PICK s \in RawIntents(tx, Target) :
                k = Group(Home, Target.contract, Target.name, Hash, s) /\ PlacementOK(tx, Target, s, verdict[k])
            BY <2>2, <2>3, <2>6 DEF VerdictAs
        <3>3. s \in Segments /\ k = TargetKey(s)
            BY <2>4, <2>5, <3>2 DEF RawIntents
        <3> QED BY <3>1, <3>2, <3>3, PlacedParts DEF IInv
    <2>7. ASSUME WithinLimits, NEW s \in DOMAIN tx.intents, LedgerParts(TargetKey(s)) # <<>>,
                 PlacementOK(tx, Target, s, LedgerParts(TargetKey(s)))
          PROVE  TargetKey(s) \in DOMAIN verdict
        <3>1. LedgerParts(TargetKey(s)) = RawParts(tx, Target, s)
            BY <2>1, <2>7, PlacedRaw
        <3>2. s \in RawIntents(tx, Target)
            BY <2>7, <3>1 DEF RawIntents
        <3>3. status \in Included
            <4>1. CASE emitted = <<>>
                <5>1. {j \in DOMAIN emitted : GroupKey(emitted[j]) = TargetKey(s)} = {}
                    BY <4>1
                <5>2. Kept(emitted, {}) = <<>>
                    <6>1. emitted \in Seq(Events) /\ {} \in SUBSET (DOMAIN emitted)
                        BY DEF IInv, Ledger
                    <6> QED BY <6>1, KeptType
                <5>3. LedgerParts(TargetKey(s)) = <<>>
                    <6>1. PICK mine : mine = <<>>
                        OBVIOUS
                    <6>2. LedgerParts(TargetKey(s)) = [j \in DOMAIN mine |-> mine[j].value.part]
                        BY <5>1, <5>2, <6>1 DEF LedgerParts
                    <6>3. DOMAIN mine = {}
                        BY <6>1
                    <6>4. [j \in DOMAIN mine |-> mine[j].value.part] = <<>>
                        BY <6>3
                    <6> QED BY <6>2, <6>4
                <5> QED BY <2>7, <5>3
            <4>2. CASE emitted # <<>>
                BY <4>2 DEF IInv, Ledger, EmittedOf
            <4> QED BY <4>1, <4>2
        <3>4. Len(PartEvents(tx, Home, Target.contract, Hash)) <= MaxEvents
              /\ Cardinality(RawIntents(tx, Target)) <= MaxGroups
            BY <2>7 DEF WithinLimits, RawIntents
        <3>5. PlacementOK(tx, Target, s, RawParts(tx, Target, s))
            BY <2>7, <3>1
        <3> QED BY <2>2, <2>3, <2>4, <3>2, <3>3, <3>4, <3>5 DEF VerdictAs
    <2> QED BY <2>6, <2>7 DEF VerdictIsLedger
<1> QED BY Invariance, <1>1, PTL

-----------------------------------------------------------------------------
(* Type correctness *)

\* The groups of a read that went well lie in an intent's segment of the chain.
LEMMA SeenAreKeys ==
    ASSUME LastRead, output # None, ~output.error
    PROVE  SeenKeys \subseteq Keys
<1>1. PICK evs : /\ evs = Before(readAt) /\ evs \in Seq(Events) /\ Len(evs) = readAt /\ readAt \in Nat
                 /\ ReadAs(evs, ReadOptions, readAt, output)
                 /\ Seen = {evs[i] : i \in 1..readAt}
                 /\ SeenKeys = KeysOf(evs, ReadOptions, readAt)
    BY ReadSaw
<1>2. \A i \in 1..readAt : evs[i] \in Events
    BY <1>1, ElementOfSeq
<1>3. \A i \in 1..readAt : SourceOK(evs[i])
    BY <1>1 DEF ReadAs, Fails
<1>4. \A i \in 1..readAt : GroupKey(evs[i]) \in Keys
    <2>1. TAKE i \in 1..readAt
    <2>2. /\ evs[i].network \in Networks /\ evs[i].contract \in Contracts /\ evs[i].hash \in Hashes
          /\ evs[i].value.name \in Names /\ evs[i].segment \in Segments
        BY <1>2, <1>3, EventFields DEF SourceOK
    <2> QED BY <2>2 DEF GroupKey, Keys
<1> QED BY <1>1, <1>4 DEF KeysOf

\* Every package lies in an intent's segment of the chain and has payloads as parts.
THEOREM TypeCorrect == Spec => []TypeOK
<1>1. IInv => TypeOK
    <2> SUFFICES ASSUME IInv PROVE TypeOK
        OBVIOUS
    <2>1. IsTx(tx) /\ status \in Included \cup {"FAILURE", None} /\ readAt \in 0..Len(log)
        BY ReaderAssumption DEF IInv, Ledger, EmittedOf, LastRead
    <2>2. ASSUME output # None, NEW k \in DOMAIN output.packages
          PROVE  /\ k \in Keys
                 /\ output.packages[k].parts \in Seq(Parts)
                 /\ output.packages[k].status \in {"accepted", "rejected"}
        <3>1. ~output.error /\ k \in SeenKeys
            BY <2>2, PackagesSeen DEF IInv
        <3>2. k \in Keys
            BY <2>2, <3>1, SeenAreKeys DEF IInv
        <3>3. /\ output.packages[k].parts \in Seq(Parts)
              /\ output.packages[k].status \in {"accepted", "rejected"}
            <4>1. PICK pkg : pkg = output.packages[k]
                OBVIOUS
            <4>2. pkg.status \in {"accepted", "rejected"} /\ pkg.parts \in Seq(Parts)
                BY <2>2, <3>1, <4>1, PackageMeans DEF IInv
            <4> QED BY <4>1, <4>2
        <3> QED BY <3>2, <3>3
    <2>3. ASSUME verdict # None, NEW k \in DOMAIN verdict PROVE k \in Keys /\ verdict[k] \in Seq(Parts)
        <3>1. Home \in Networks /\ Hash \in Hashes
              /\ Target \in [contract : Contracts, entry : EntryPoints, name : Names]
            BY ReaderAssumption
        <3>2. PICK V : VerdictAs(tx, Target, Home, Hash, status, V)
            BY <2>1, <3>1, VerdictIs
        <3>3. V = verdict
            BY <2>3, <3>2 DEF VerdictAs, IInv, LastVerdict
        <3>4. PICK s \in RawIntents(tx, Target) :
                k = Group(Home, Target.contract, Target.name, Hash, s) /\ verdict[k] = RawParts(tx, Target, s)
            BY <2>3, <3>2, <3>3 DEF VerdictAs
        <3>5. s \in DOMAIN tx.intents /\ s \in Segments
            BY <2>1, <3>4, ActionTypes DEF RawIntents
        <3>6. k \in Keys
            BY <3>1, <3>4, <3>5 DEF Group, Keys
        <3>7. RawParts(tx, Target, s) \in Seq(Parts)
            BY <2>1, <3>5, RawType
        <3> QED BY <3>4, <3>6, <3>7
    <2> QED BY <2>1, <2>2, <2>3 DEF TypeOK
<1> QED BY Invariance, <1>1, PTL
=============================================================================
