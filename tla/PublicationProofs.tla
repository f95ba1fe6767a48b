---------------------------- MODULE PublicationProofs ----------------------------
(***************************************************************************)
(* Theorems of Publication for every instance: any number of runs, paths,  *)
(* messages and parts, whatever assembly makes of them, whoever merges     *)
(* what with what, and however long anything takes.                        *)
(***************************************************************************)
EXTENDS Publication, PackagesProofs, TLAPS

-----------------------------------------------------------------------------
(* What some of the theorems suppose of the instance *)

\* Runs given one path follow one another.
OwnPaths == Overlapping => \A r, q \in Runs : PathOf[r] = PathOf[q] => r = q

Share(t, u) == Identifiers(t) \cap Identifiers(u) # {}

\* No two runs, and no run and stranger, make one and the same intent: every intent is
\* bound with randomness of its own.
DraftsApart ==
    /\ \A d, e \in Drafts : Share(d.tx, e.tx) => d.run = e.run
    /\ \A d \in Drafts, u \in Others : ~Share(d.tx, u)

-----------------------------------------------------------------------------
(* The inductive invariant, in named parts *)

\* What may land: drafts, merged with each other and with what strangers have.
OwnTxs == {d.tx : d \in Drafts}
BothTxs == OwnTxs \cup {Merge(x[1], x[2]) : x \in OwnTxs \X OwnTxs}
Landable == BothTxs \cup {Merge(x[1], x[2]) : x \in BothTxs \X Others}

\* What blocks hold.
ChainEntries == [tx : Landable, succeeded : SUBSET Segments, status : Included \cup {"FAILURE"}]

\* What the variables look like.
Shape ==
    /\ clock \in Nat
    /\ chain \in Seq(ChainEntries)
    /\ indexed \in 0..Len(chain)
    /\ DOMAIN disk = Paths /\ DOMAIN made = Runs /\ DOMAIN found = Runs
    /\ pc \in [Runs -> {"idle"} \cup Busy \cup Ended]
    /\ DOMAIN pinned = Runs
    /\ \A r \in Runs : /\ pinned[r] = [state |-> pinned[r].state, ttl |-> pinned[r].ttl,
                                       deadline |-> pinned[r].deadline, tries |-> pinned[r].tries]
                       /\ pinned[r].ttl \in Nat /\ pinned[r].deadline \in Nat

\* v is the record of a draft of run r that passed the guard.
RecordOfRun(v, r) ==
    \E d \in Drafts : d.run = r /\ CarriesAll(d.tx, d.packages) /\ v = RecordOf(d.tx, d.packages, d.state)

\* A run has a record from finalization on, and it is that of a draft that passed.
MadeOnce ==
    \A r \in Runs :
        /\ pc[r] \in {"idle", "building"} => made[r] = None
        /\ pc[r] \in Busy \ {"building"} => made[r] # None
        /\ made[r] # None => RecordOfRun(made[r], r)

\* Everything that was made is on record, under its own run.
MadeIsSaved ==
    \A r \in Runs : made[r] # None =>
        Exists(PathOf[r]) /\ disk[PathOf[r]].run = r /\ disk[PathOf[r]].saved = made[r]

\* One busy run per record path, and the record there is its own.
PathOwned ==
    \A r \in Runs : pc[r] \in Busy =>
        /\ Exists(PathOf[r]) => disk[PathOf[r]].run = r
        /\ \A q \in Runs : PathOf[q] = PathOf[r] /\ pc[q] \in Busy => q = r

RecordsOwned == MadeIsSaved /\ PathOwned

\* What circulates was made by a run, and cannot land after its TTL.
PoolIsMade ==
    \A e \in pool : \E r \in Runs :
        made[r] # None /\ e.tx = made[r].tx /\ e.ttl = pinned[r].ttl

\* What has landed of a draft's intents is all of what its run made.
ChainIsWhole ==
    \A n \in DOMAIN chain, d \in Drafts : Share(d.tx, chain[n].tx) =>
        made[d.run] # None /\ Identifiers(made[d.run].tx) \subseteq Identifiers(chain[n].tx)

\* A wait reaches past the TTL even by a clock that is ahead.
WaitsPastTTL ==
    \A r \in Runs :
        /\ pc[r] = "waiting" => pinned[r].deadline >= pinned[r].ttl + Grace
        /\ pc[r] = "unseen" => clock > pinned[r].ttl

\* What was found, and what is on record as verified, has landed.
FoundIsLanded ==
    /\ \A r \in Runs : pc[r] \in {"found", "located"} /\ found[r].status \in Included => Landed(r)
    /\ \A p \in Paths : disk[p].stage = "verified" => disk[p].run \in Runs /\ Landed(disk[p].run)

IInv ==
    /\ Shape
    /\ MadeOnce
    /\ OwnPaths => RecordsOwned
    /\ PoolIsMade
    /\ DraftsApart => ChainIsWhole
    /\ WaitsPastTTL
    /\ FoundIsLanded

-----------------------------------------------------------------------------
(* Lemmas about transactions *)

\* A merge has the identifiers of both: its intents are carried over untouched.
LEMMA MergedIdentifiers ==
    ASSUME NEW t, NEW u, Mergeable(t, u)
    PROVE  Identifiers(Merge(t, u)) = Identifiers(t) \cup Identifiers(u)
<1>1. /\ DOMAIN Merge(t, u).intents = DOMAIN t.intents \cup DOMAIN u.intents
      /\ \A s \in DOMAIN t.intents : Merge(t, u).intents[s] = t.intents[s]
      /\ \A s \in DOMAIN u.intents : Merge(t, u).intents[s] = u.intents[s]
    BY DEF Merge, Mergeable
<1> QED BY <1>1 DEF Identifiers, IntentHash

\* The record of a run is that of one of its drafts.
LEMMA MadeIsDraft ==
    ASSUME MadeOnce, NEW r \in Runs, made[r] # None
    PROVE  \E d \in Drafts :
            /\ d.run = r /\ CarriesAll(d.tx, d.packages) /\ made[r] = RecordOf(d.tx, d.packages, d.state)
            /\ made[r].tx = d.tx /\ made[r].identifiers = Identifiers(d.tx)
            /\ made[r].packages = d.packages
<1>1. RecordOfRun(made[r], r)
    BY DEF MadeOnce
<1>2. PICK d \in Drafts : d.run = r /\ CarriesAll(d.tx, d.packages) /\ made[r] = RecordOf(d.tx, d.packages, d.state)
    BY <1>1 DEF RecordOfRun
<1>3. /\ made[r].tx = d.tx /\ made[r].identifiers = Identifiers(d.tx)
      /\ made[r].packages = d.packages
    BY <1>2 DEF RecordOf
<1> QED BY <1>2, <1>3

\* ids are the identifiers of the transactions of own and other.
Joins(ids, own, other) ==
    \A x : x \in ids <=> (\E y \in own : x \in Identifiers(y.tx)) \/ (\E u \in other : x \in Identifiers(u))

\* What circulates, pair by pair.
Pairs == {y \in pool \X pool : Mergeable(y[1].tx, y[2].tx)}
PoolOrPairs == pool \cup {[tx |-> Merge(x[1].tx, x[2].tx), ttl |-> EarliestOf(x[1].ttl, x[2].ttl)] : x \in Pairs}

\* What two runs have on its way: a submitted transaction, or two of them merged.
LEMMA BothForms ==
    ASSUME NEW b \in PoolOrPairs
    PROVE  \/ b \in pool
           \/ \E v, w \in pool : /\ Mergeable(v.tx, w.tx)
                                 /\ b = [tx |-> Merge(v.tx, w.tx), ttl |-> EarliestOf(v.ttl, w.ttl)]
<1> SUFFICES ASSUME b \notin pool
             PROVE  \E v, w \in pool : /\ Mergeable(v.tx, w.tx)
                                       /\ b = [tx |-> Merge(v.tx, w.tx), ttl |-> EarliestOf(v.ttl, w.ttl)]
    OBVIOUS
<1>1. PICK x \in Pairs : b = [tx |-> Merge(x[1].tx, x[2].tx), ttl |-> EarliestOf(x[1].ttl, x[2].ttl)]
    BY DEF PoolOrPairs
<1>2. x[1] \in pool /\ x[2] \in pool /\ Mergeable(x[1].tx, x[2].tx)
    BY DEF Pairs
<1> QED BY <1>1, <1>2

\* What circulates: that, or that merged with a stranger's.
LEMMA CirculatingForms ==
    ASSUME NEW e \in Circulating
    PROVE  \/ e \in PoolOrPairs
           \/ \E b \in PoolOrPairs, u \in Others :
                Mergeable(b.tx, u) /\ e = [tx |-> Merge(b.tx, u), ttl |-> b.ttl]
<1> DEFINE Triples == {y \in PoolOrPairs \X Others : Mergeable(y[1].tx, y[2])}
<1>1. Circulating = PoolOrPairs \cup {[tx |-> Merge(x[1].tx, x[2]), ttl |-> x[1].ttl] : x \in Triples}
    BY DEF Circulating, PoolOrPairs, Pairs
<1> SUFFICES ASSUME e \notin PoolOrPairs
             PROVE  \E b \in PoolOrPairs, u \in Others :
                        Mergeable(b.tx, u) /\ e = [tx |-> Merge(b.tx, u), ttl |-> b.ttl]
    OBVIOUS
<1>2. PICK x \in Triples : e = [tx |-> Merge(x[1].tx, x[2]), ttl |-> x[1].ttl]
    BY <1>1
<1>3. x[1] \in PoolOrPairs /\ x[2] \in Others /\ Mergeable(x[1].tx, x[2])
    OBVIOUS
<1> QED BY <1>2, <1>3

\* Its identifiers are those of some submitted transactions, and it expires no later.
LEMMA BothParts ==
    ASSUME \A y \in pool : y.ttl \in Nat /\ y.tx \in OwnTxs, NEW b \in PoolOrPairs
    PROVE  /\ b.tx \in BothTxs /\ b.ttl \in Nat
           /\ \E own \in SUBSET pool :
                Joins(Identifiers(b.tx), own, {}) /\ \A y \in own : b.ttl <= y.ttl
<1>1. CASE b \in pool
    <2>1. b.tx \in BothTxs /\ b.ttl \in Nat /\ b.ttl <= b.ttl
        BY <1>1 DEF BothTxs
    <2>2. Joins(Identifiers(b.tx), {b}, {})
        BY DEF Joins
    <2> QED BY <1>1, <2>1, <2>2
<1>2. ASSUME NEW v \in pool, NEW w \in pool, Mergeable(v.tx, w.tx),
             b = [tx |-> Merge(v.tx, w.tx), ttl |-> EarliestOf(v.ttl, w.ttl)]
      PROVE  /\ b.tx \in BothTxs /\ b.ttl \in Nat
             /\ \E own \in SUBSET pool :
                    Joins(Identifiers(b.tx), own, {}) /\ \A y \in own : b.ttl <= y.ttl
    <2>0. b.tx = Merge(v.tx, w.tx) /\ b.ttl = EarliestOf(v.ttl, w.ttl)
        BY <1>2
    <2>1. Identifiers(b.tx) = Identifiers(v.tx) \cup Identifiers(w.tx)
        BY <1>2, <2>0, MergedIdentifiers
    <2>2. Joins(Identifiers(b.tx), {v, w}, {})
        BY <2>1 DEF Joins
    <2>3. b.ttl \in Nat /\ b.ttl <= v.ttl /\ b.ttl <= w.ttl
        BY <2>0 DEF EarliestOf
    <2>4. v.tx \in OwnTxs /\ w.tx \in OwnTxs
        OBVIOUS
    <2>5. b.tx \in BothTxs
        <3>1. <<v.tx, w.tx>> \in OwnTxs \X OwnTxs /\ b.tx = Merge(<<v.tx, w.tx>>[1], <<v.tx, w.tx>>[2])
            BY <2>0, <2>4
        <3> QED BY <3>1 DEF BothTxs
    <2> QED BY <2>2, <2>3, <2>5
<1> QED BY <1>1, <1>2, BothForms

\* What circulates is made of transactions of the pool and of strangers, and expires
\* with the first of them.
LEMMA CirculatingParts ==
    ASSUME Shape, MadeOnce, PoolIsMade, NEW e \in Circulating
    PROVE  /\ e.tx \in Landable /\ e.ttl \in Nat
           /\ \E own \in SUBSET pool, other \in SUBSET Others :
                Joins(Identifiers(e.tx), own, other) /\ \A y \in own : e.ttl <= y.ttl
<1>1. \A y \in pool : y.ttl \in Nat /\ y.tx \in OwnTxs
    <2> TAKE y \in pool
    <2>1. PICK r \in Runs : made[r] # None /\ y.tx = made[r].tx /\ y.ttl = pinned[r].ttl
        BY DEF PoolIsMade
    <2>2. made[r].tx \in OwnTxs
        BY <2>1, MadeIsDraft DEF OwnTxs
    <2> QED BY <2>1, <2>2 DEF Shape
<1>2. CASE e \in PoolOrPairs
    BY <1>1, <1>2, BothParts DEF Landable
<1>3. ASSUME NEW b \in PoolOrPairs, NEW u \in Others, Mergeable(b.tx, u),
             e = [tx |-> Merge(b.tx, u), ttl |-> b.ttl]
      PROVE  /\ e.tx \in Landable /\ e.ttl \in Nat
             /\ \E own \in SUBSET pool, other \in SUBSET Others :
                    Joins(Identifiers(e.tx), own, other) /\ \A y \in own : e.ttl <= y.ttl
    <2>1. PICK own \in SUBSET pool : Joins(Identifiers(b.tx), own, {}) /\ \A y \in own : b.ttl <= y.ttl
        BY <1>1, BothParts
    <2>2. e.tx = Merge(b.tx, u) /\ e.ttl = b.ttl /\ e.ttl \in Nat
        BY <1>1, <1>3, BothParts
    <2>3. Identifiers(e.tx) = Identifiers(b.tx) \cup Identifiers(u)
        BY <1>3, <2>2, MergedIdentifiers
    <2>4. Joins(Identifiers(e.tx), own, {u})
        BY <2>1, <2>3 DEF Joins
    <2>5. e.tx \in Landable
        <3>1. <<b.tx, u>> \in BothTxs \X Others /\ e.tx = Merge(<<b.tx, u>>[1], <<b.tx, u>>[2])
            BY <1>1, <2>2, BothParts
        <3> QED BY <3>1 DEF Landable
    <2> QED BY <2>1, <2>2, <2>4, <2>5
<1> QED BY <1>2, <1>3, CirculatingForms

\* A circulating transaction that has one intent of a draft has all that its run made,
\* and expires no later.
LEMMA CirculatesWhole ==
    ASSUME Shape, MadeOnce, PoolIsMade, DraftsApart,
           NEW e \in Circulating, NEW d \in Drafts, Share(d.tx, e.tx)
    PROVE  /\ made[d.run] # None
           /\ Identifiers(made[d.run].tx) \subseteq Identifiers(e.tx)
           /\ e.ttl \in Nat /\ e.ttl <= pinned[d.run].ttl
<1>1. PICK own \in SUBSET pool, other \in SUBSET Others :
        Joins(Identifiers(e.tx), own, other) /\ \A y \in own : e.ttl <= y.ttl
    BY CirculatingParts
<1>2. PICK x : x \in Identifiers(d.tx) /\ x \in Identifiers(e.tx)
    BY DEF Share
<1>3. \A u \in other : x \notin Identifiers(u)
    BY <1>2 DEF DraftsApart, Share
<1>4. PICK y \in own : x \in Identifiers(y.tx)
    BY <1>1, <1>2, <1>3 DEF Joins
<1>5. PICK r \in Runs : made[r] # None /\ y.tx = made[r].tx /\ y.ttl = pinned[r].ttl
    BY DEF PoolIsMade
<1>6. PICK c \in Drafts : c.run = r /\ made[r].tx = c.tx
    BY <1>5, MadeIsDraft
<1>7. r = d.run
    BY <1>2, <1>4, <1>5, <1>6 DEF DraftsApart, Share
<1>8. Identifiers(y.tx) \subseteq Identifiers(e.tx)
    BY <1>1 DEF Joins
<1> QED BY <1>1, <1>5, <1>7, <1>8, CirculatingParts
-----------------------------------------------------------------------------
(* The invariant is inductive: records *)

\* The named parts hold before any run starts.
LEMMA InitInv == Init => IInv
<1> SUFFICES ASSUME Init PROVE IInv
    OBVIOUS
<1>1. /\ \A r \in Runs : pc[r] = "idle" /\ made[r] = None
      /\ \A p \in Paths : disk[p].stage = "absent"
      /\ \A r \in Runs : PathOf[r] \in Paths
    BY PublicationAssumption DEF Init, Absent
<1>2. Shape
    <2>1. pc \in [Runs -> {"idle"} \cup Busy \cup Ended]
        BY DEF Init
    <2>2. /\ chain \in Seq(ChainEntries) /\ clock \in Nat
          /\ indexed \in 0..Len(chain)
        BY DEF Init
    <2> QED BY <2>1, <2>2 DEF Init, Shape
<1>3. MadeOnce /\ RecordsOwned
    BY <1>1 DEF MadeOnce, RecordsOwned, MadeIsSaved, PathOwned, Busy
<1>4. PoolIsMade /\ ChainIsWhole
    BY DEF Init, PoolIsMade, ChainIsWhole
<1>5. WaitsPastTTL /\ FoundIsLanded
    BY <1>1 DEF WaitsPastTTL, FoundIsLanded
<1> QED BY <1>2, <1>3, <1>4, <1>5 DEF IInv

\* Records stay while neither disk nor memory changes and no run becomes busy.
LEMMA RecordsStay ==
    ASSUME OwnPaths => RecordsOwned, UNCHANGED <<disk, made>>,
           \A r \in Runs : pc'[r] \in Busy => pc[r] \in Busy
    PROVE  OwnPaths => RecordsOwned'
BY DEF RecordsOwned, MadeIsSaved, PathOwned, Exists

\* A run that saves its record finds nobody else's there.
LEMMA RecordsSaved ==
    ASSUME Shape, OwnPaths => RecordsOwned, NEW r \in Runs, NEW stage \in Stages, pc[r] \in Busy,
           Save(r, stage), made'[r] # None, \A q \in Runs : q # r => made'[q] = made[q],
           \A q \in Runs : pc'[q] \in Busy => pc[q] \in Busy
    PROVE  OwnPaths => RecordsOwned'
<1> SUFFICES ASSUME OwnPaths PROVE RecordsOwned'
    BY DEF OwnPaths
<1>1. /\ PathOf[r] \in Paths
      /\ disk'[PathOf[r]] = [run |-> r, stage |-> stage, saved |-> made'[r]]
      /\ \A p \in Paths : p # PathOf[r] => disk'[p] = disk[p]
    BY PublicationAssumption DEF Shape, Save
<1>2. Exists(PathOf[r])' /\ disk'[PathOf[r]].run = r /\ disk'[PathOf[r]].saved = made'[r]
    BY <1>1 DEF Exists, Stages
<1>3. ASSUME NEW q \in Runs, q # r, PathOf[q] = PathOf[r]
      PROVE  pc[q] \notin Busy /\ made[q] = None
    BY <1>3 DEF RecordsOwned, PathOwned, MadeIsSaved
<1>4. ASSUME NEW q \in Runs, q # r
      PROVE  /\ made'[q] # None =>
                    Exists(PathOf[q])' /\ disk'[PathOf[q]].run = q /\ disk'[PathOf[q]].saved = made'[q]
             /\ pc'[q] \in Busy =>
                    /\ Exists(PathOf[q])' => disk'[PathOf[q]].run = q
                    /\ \A s \in Runs : PathOf[s] = PathOf[q] /\ pc'[s] \in Busy => s = q
    <2>1. CASE PathOf[q] = PathOf[r]
        BY <1>3, <1>4, <2>1
    <2>2. CASE PathOf[q] # PathOf[r]
        <3>1. disk'[PathOf[q]] = disk[PathOf[q]] /\ made'[q] = made[q]
            BY <1>1, <1>4, <2>2, PublicationAssumption
        <3> QED BY <3>1 DEF RecordsOwned, PathOwned, MadeIsSaved, Exists
    <2> QED BY <2>1, <2>2
<1>5. \A s \in Runs : PathOf[s] = PathOf[r] /\ pc'[s] \in Busy => s = r
    BY <1>3
<1>6. MadeIsSaved'
    BY <1>2, <1>4 DEF MadeIsSaved
<1>7. PathOwned'
    BY <1>2, <1>4, <1>5 DEF PathOwned
<1> QED BY <1>6, <1>7 DEF RecordsOwned

\* A run that starts finds its path free of records and of other runs.
LEMMA RecordsStarted ==
    ASSUME Shape, OwnPaths => RecordsOwned, NEW r \in Runs, Start(r)
    PROVE  OwnPaths => RecordsOwned'
<1>1. CASE pc' = [pc EXCEPT ![r] = "refused"]
    <2>1. \A q \in Runs : pc'[q] \in Busy => pc[q] \in Busy
        BY <1>1 DEF Shape, Busy
    <2> QED BY <2>1, RecordsStay DEF Start
<1>2. CASE pc' # [pc EXCEPT ![r] = "refused"]
    <2> SUFFICES ASSUME OwnPaths PROVE RecordsOwned'
        BY DEF OwnPaths
    <2>1. /\ ~Exists(PathOf[r]) /\ UNCHANGED <<disk, made>>
          /\ pc' = [pc EXCEPT ![r] = "building"]
          /\ Overlapping \/ \A q \in Runs : PathOf[q] = PathOf[r] => pc[q] \notin Busy
        BY <1>2 DEF Start, Goto, PathFree
    <2>2. \A q \in Runs : pc'[q] = IF q = r THEN "building" ELSE pc[q]
        BY <2>1 DEF Shape
    <2>3. \A q \in Runs : PathOf[q] = PathOf[r] => q = r \/ pc[q] \notin Busy
        BY <2>1, PublicationAssumption DEF OwnPaths
    <2>4. MadeIsSaved'
        BY <2>1 DEF RecordsOwned, MadeIsSaved, Exists
    <2>5. PathOwned'
        BY <2>1, <2>2, <2>3 DEF RecordsOwned, PathOwned, Exists
    <2> QED BY <2>4, <2>5 DEF RecordsOwned
<1> QED BY <1>1, <1>2

-----------------------------------------------------------------------------
(* The invariant is inductive: what is made, circulates and lands *)

EntriesOf(t) == [tx : {t}, succeeded : SUBSET Segments, status : Included \cup {"FAILURE"}]

\* One entry is added to the chain, unexpired, unspent if it takes effect; the others stay.
LEMMA LandsOne ==
    ASSUME Shape, MadeOnce, PoolIsMade, Land \/ Fail
    PROVE  \E e \in Circulating, n \in Nat :
            /\ clock <= e.ttl
            /\ n \notin DOMAIN chain /\ DOMAIN chain' = DOMAIN chain \cup {n}
            /\ chain'[n].tx = e.tx /\ (chain'[n].status \in Included => Unspent(e.tx))
            /\ \A m \in DOMAIN chain : chain'[m] = chain[m]
            /\ chain' \in Seq(ChainEntries) /\ Len(chain') = Len(chain) + 1
            /\ chain'[n].succeeded \subseteq FallibleSegments(e.tx)
<1>1. PICK e \in Circulating : \E entry \in EntriesOf(e.tx) :
        /\ clock <= e.ttl /\ (entry.status \in Included => Unspent(e.tx))
        /\ chain' = Append(chain, entry) /\ entry.succeeded \subseteq FallibleSegments(e.tx)
    <2>1. CASE Land
        <3>1. PICK e \in Circulating, succeeded \in SUBSET Segments :
                /\ clock <= e.ttl /\ Unspent(e.tx) /\ succeeded \subseteq FallibleSegments(e.tx)
                /\ chain' = Append(chain, [tx |-> e.tx, succeeded |-> succeeded,
                        status |-> IF succeeded = FallibleSegments(e.tx) THEN "SUCCESS" ELSE "PARTIAL_SUCCESS"])
            BY <2>1 DEF Land
        <3>2. PICK st \in Included :
                st = IF succeeded = FallibleSegments(e.tx) THEN "SUCCESS" ELSE "PARTIAL_SUCCESS"
            BY DEF Included
        <3>3. [tx |-> e.tx, succeeded |-> succeeded, status |-> st]
                \in EntriesOf(e.tx)
            BY DEF EntriesOf
        <3> QED BY <3>1, <3>2, <3>3
    <2>2. CASE Fail
        <3>1. PICK e \in Circulating :
                clock <= e.ttl /\ chain' = Append(chain, [tx |-> e.tx, succeeded |-> {}, status |-> "FAILURE"])
            BY <2>2 DEF Fail
        <3>2. "FAILURE" \notin Included
            BY DEF Included
        <3>3. [tx |-> e.tx, succeeded |-> {}, status |-> "FAILURE"]
                \in EntriesOf(e.tx)
            BY DEF EntriesOf
        <3> QED BY <3>1, <3>2, <3>3
    <2> QED BY <2>1, <2>2
<1>a. PICK entry \in EntriesOf(e.tx) :
        /\ clock <= e.ttl /\ (entry.status \in Included => Unspent(e.tx))
        /\ chain' = Append(chain, entry) /\ entry.succeeded \subseteq FallibleSegments(e.tx)
    BY <1>1
<1>2. e.tx \in Landable
    BY CirculatingParts
<1>3. entry \in ChainEntries /\ entry.tx = e.tx
    BY <1>2 DEF EntriesOf, ChainEntries
<1>4. /\ Len(chain) \in Nat /\ DOMAIN chain = 1..Len(chain)
      /\ DOMAIN chain' = 1..(Len(chain) + 1) /\ Len(chain') = Len(chain) + 1
      /\ chain'[Len(chain) + 1] = entry /\ chain' \in Seq(ChainEntries)
      /\ \A m \in DOMAIN chain : chain'[m] = chain[m]
    BY <1>a, <1>3 DEF Shape
<1>5. Len(chain) + 1 \in Nat /\ Len(chain) + 1 \notin DOMAIN chain
      /\ DOMAIN chain' = DOMAIN chain \cup {Len(chain) + 1}
    BY <1>4
<1> QED BY <1>a, <1>3, <1>4, <1>5

\* A new entry keeps the chain whole.
LEMMA LandsWhole ==
    ASSUME Shape, MadeOnce, PoolIsMade, DraftsApart => ChainIsWhole, Land \/ Fail
    PROVE  DraftsApart => ChainIsWhole'
<1>1. PICK e \in Circulating, n \in Nat :
        /\ DOMAIN chain' = DOMAIN chain \cup {n} /\ chain'[n].tx = e.tx
        /\ \A m \in DOMAIN chain : chain'[m] = chain[m]
    BY LandsOne
<1>2. ASSUME DraftsApart, NEW m \in DOMAIN chain', NEW d \in Drafts, Share(d.tx, chain'[m].tx)
      PROVE  made[d.run] # None /\ Identifiers(made[d.run].tx) \subseteq Identifiers(chain'[m].tx)
    <2>1. CASE m \in DOMAIN chain /\ chain'[m] = chain[m]
        BY <1>2, <2>1 DEF ChainIsWhole
    <2>2. CASE chain'[m].tx = e.tx
        BY <1>2, <2>2, CirculatesWhole
    <2> QED BY <1>1, <2>1, <2>2
<1>3. made' = made
    BY DEF Land, Fail
<1> QED BY <1>2, <1>3 DEF ChainIsWhole, Share, Identifiers, IntentHash

\* While made and pinned stay, what was made stays on its way.
LEMMA LandedStays ==
    ASSUME \A r \in Runs : made[r] # None => made'[r] = made[r],
           \A n \in DOMAIN chain : n \in DOMAIN chain' /\ chain'[n] = chain[n],
           NEW r \in Runs, Landed(r)
    PROVE  Landed(r)'
BY DEF Landed, InEffect, Included, Holds, Identifiers, IntentHash

\* What run r knows of its times keeps its form.
PinnedForm(w) ==
    /\ w = [state |-> w.state, ttl |-> w.ttl, deadline |-> w.deadline, tries |-> w.tries]
    /\ w.ttl \in Nat /\ w.deadline \in Nat

\* Steps of nobody, and of a run that goes on waiting.
LEMMA Waits ==
    ASSUME IInv, UNCHANGED <<pool, chain, disk, pc, made, found>>, clock' \in Nat, clock' >= clock,
           indexed' \in 0..Len(chain),
           DOMAIN pinned' = Runs,
           \A r \in Runs : /\ PinnedForm(pinned'[r])
                           /\ pinned'[r].ttl = pinned[r].ttl /\ pinned'[r].deadline = pinned[r].deadline
    PROVE  IInv'
<1>1. Shape'
    BY DEF IInv, Shape, PinnedForm
<1>2. MadeOnce' /\ (OwnPaths => RecordsOwned')
    BY DEF IInv, MadeOnce, RecordOfRun, RecordsOwned, MadeIsSaved, PathOwned, Exists
<1>3. PoolIsMade'
    BY DEF IInv, PoolIsMade
<1>4. DraftsApart => ChainIsWhole'
    BY DEF IInv, ChainIsWhole, Share, Identifiers, IntentHash
<1>5. WaitsPastTTL'
    BY DEF IInv, WaitsPastTTL, Shape
<1>6. FoundIsLanded'
    BY DEF IInv, FoundIsLanded, Landed, InEffect, Included, Holds, Identifiers, IntentHash
<1> QED BY <1>1, <1>2, <1>3, <1>4, <1>5, <1>6 DEF IInv, OwnPaths, DraftsApart, Share, Identifiers, IntentHash

\* Steps of a run that has made what it makes.
LEMMA Moves ==
    ASSUME IInv, NEW r \in Runs, NEW x \in Ended \cup Busy, x # "building", pc[r] \in Busy,
           x \in Busy => pc[r] # "building",
           pc' = [pc EXCEPT ![r] = x], UNCHANGED <<clock, chain, indexed, made>>,
           OwnPaths => RecordsOwned', DOMAIN disk' = Paths, DOMAIN pinned' = Runs, DOMAIN found' = Runs,
           \A q \in Runs : q # r => found'[q] = found[q],
           \A q \in Runs : PinnedForm(pinned'[q]) /\ pinned'[q].ttl = pinned[q].ttl
                           /\ (q # r => pinned'[q] = pinned[q]),
           \A e \in pool' : e \in pool \/ (made[r] # None /\ e.tx = made[r].tx /\ e.ttl = pinned[r].ttl),
           x = "waiting" => pinned'[r].deadline >= pinned[r].ttl + Grace,
           x = "unseen" => clock > pinned[r].ttl,
           x \in {"found", "located"} /\ found'[r].status \in Included => Landed(r),
           \A p \in Paths : disk'[p].stage = "verified" =>
                disk'[p] = disk[p] \/ (disk'[p].run = r /\ Landed(r))
    PROVE  IInv'
<1>0. \A q \in Runs : pc'[q] = IF q = r THEN x ELSE pc[q]
    BY DEF IInv, Shape
<1>1. Shape'
    BY <1>0 DEF IInv, Shape, PinnedForm
<1>2. MadeOnce'
    <2>1. x \notin {"idle", "building"}
        BY DEF Busy, Ended
    <2>2. \A q \in Runs : RecordOfRun(made[q], q)' <=> RecordOfRun(made[q], q)
        BY DEF RecordOfRun
    <2> QED BY <1>0, <2>1, <2>2 DEF IInv, MadeOnce
<1>3. PoolIsMade'
    <2> SUFFICES ASSUME NEW e \in pool'
                 PROVE  \E q \in Runs :
                            made'[q] # None /\ e.tx = made'[q].tx /\ e.ttl = pinned'[q].ttl
        BY DEF PoolIsMade
    <2>1. CASE e \in pool
        BY <2>1 DEF IInv, PoolIsMade
    <2>2. CASE e \notin pool
        BY <2>2
    <2> QED BY <2>1, <2>2
<1>4. DraftsApart => ChainIsWhole'
    BY DEF IInv, ChainIsWhole, Share, Identifiers, IntentHash
<1>5. WaitsPastTTL'
    BY <1>0 DEF IInv, WaitsPastTTL
<1>6. FoundIsLanded'
    <2>1. \A q \in Runs : Landed(q)' <=> Landed(q)
        BY DEF Landed, InEffect, Included, Holds, Identifiers, IntentHash
    <2>2. \A q \in Runs : pc'[q] \in {"found", "located"} /\ found'[q].status \in Included => Landed(q)'
        BY <1>0, <2>1 DEF IInv, FoundIsLanded
    <2>3. \A p \in Paths : disk'[p].stage = "verified" => disk'[p].run \in Runs /\ Landed(disk'[p].run)
        BY DEF IInv, FoundIsLanded
    <2>4. ASSUME NEW p \in Paths, disk'[p].stage = "verified"
          PROVE  disk'[p].run \in Runs /\ Landed(disk[p].run)'
        BY <2>1, <2>3, <2>4
    <2> QED BY <2>2, <2>4 DEF FoundIsLanded
<1> QED BY <1>1, <1>2, <1>3, <1>4, <1>5, <1>6 DEF IInv, OwnPaths, DraftsApart, Share, Identifiers, IntentHash

\* Starting a run keeps the named parts: it has made nothing yet.
LEMMA StartKeeps ==
    ASSUME IInv, NEW r \in Runs, Start(r)
    PROVE  IInv'
<1>1. PICK x \in {"building", "refused"} : pc' = [pc EXCEPT ![r] = x]
    BY DEF Start, Goto
<1>2. /\ \A q \in Runs : pc'[q] = IF q = r THEN x ELSE pc[q]
      /\ pc[r] = "idle" /\ UNCHANGED <<clock, chain, indexed, pool, made, disk, found>> /\ made[r] = None
    BY <1>1 DEF Start, IInv, Shape, network, MadeOnce
<1>3. /\ DOMAIN pinned' = Runs
      /\ \A q \in Runs : PinnedForm(pinned'[q]) /\ (q # r => pinned'[q] = pinned[q])
    <2>1. CASE pinned' = pinned
        BY <2>1 DEF IInv, Shape, PinnedForm
    <2>2. CASE pinned' # pinned
        <3>1. pinned' = [pinned EXCEPT ![r] = [state |-> state, ttl |-> clock + TTL, deadline |-> 0, tries |-> 0]]
            BY <2>2 DEF Start
        <3>2. clock + TTL \in Nat
            BY PublicationAssumption DEF IInv, Shape
        <3>3. /\ DOMAIN pinned' = Runs /\ \A q \in Runs : q # r => pinned'[q] = pinned[q]
              /\ pinned'[r] = [state |-> state, ttl |-> clock + TTL, deadline |-> 0, tries |-> 0]
            BY <3>1 DEF IInv, Shape
        <3>4. PinnedForm(pinned'[r])
            BY <3>2, <3>3 DEF PinnedForm
        <3> QED BY <3>3, <3>4 DEF IInv, Shape, PinnedForm
    <2> QED BY <2>1, <2>2
<1>4. Shape'
    BY <1>1, <1>2, <1>3 DEF IInv, Shape, PinnedForm, Busy, Ended
<1>5. MadeOnce'
    BY <1>2 DEF IInv, MadeOnce, RecordOfRun, Busy
<1>6. OwnPaths => RecordsOwned'
    BY RecordsStarted DEF IInv
<1>7. PoolIsMade'
    <2> SUFFICES ASSUME NEW e \in pool'
                 PROVE  \E q \in Runs :
                            made'[q] # None /\ e.tx = made'[q].tx /\ e.ttl = pinned'[q].ttl
        BY DEF PoolIsMade
    <2>1. PICK q \in Runs : made[q] # None /\ e.tx = made[q].tx /\ e.ttl = pinned[q].ttl
        BY <1>2 DEF IInv, PoolIsMade
    <2>2. q # r
        BY <1>2, <2>1
    <2> QED BY <1>2, <1>3, <2>1, <2>2
<1>8. DraftsApart => ChainIsWhole'
    BY <1>2 DEF IInv, ChainIsWhole, Share, Identifiers, IntentHash
<1>9. WaitsPastTTL'
    BY <1>2, <1>3 DEF IInv, WaitsPastTTL
<1>10. FoundIsLanded'
    BY <1>2 DEF IInv, FoundIsLanded, Landed, InEffect, Included, Holds, Identifiers, IntentHash
<1> QED BY <1>4, <1>5, <1>6, <1>7, <1>8, <1>9, <1>10 DEF IInv, OwnPaths, DraftsApart, Share, Identifiers, IntentHash

\* Finalizing keeps the named parts: the record is that of a draft the guard passed.
LEMMA FinalizeKeeps ==
    ASSUME IInv, NEW r \in Runs, Finalize(r)
    PROVE  IInv'
<1>1. PICK d \in Drafts : /\ d.run = r /\ CarriesAll(d.tx, d.packages)
                          /\ made' = [made EXCEPT ![r] = RecordOf(d.tx, d.packages, d.state)]
    BY DEF Finalize
<1>2. PICK x \in {"finalized", "dry"} : pc' = [pc EXCEPT ![r] = x]
    BY DEF Finalize, Goto
<1>3. /\ \A q \in Runs : pc'[q] = IF q = r THEN x ELSE pc[q]
      /\ pc[r] = "building" /\ UNCHANGED <<clock, chain, indexed, pool, pinned, found>> /\ made[r] = None
      /\ Save(r, "finalized")
    BY <1>2 DEF Finalize, IInv, Shape, network, MadeOnce
<1>4. /\ DOMAIN made' = Runs /\ \A q \in Runs : q # r => made'[q] = made[q]
      /\ made'[r] = RecordOf(d.tx, d.packages, d.state) /\ made'[r] # None
    BY <1>1, PublicationAssumption DEF IInv, Shape
<1>5. DOMAIN disk' = Paths /\ \A p \in Paths : disk'[p] = disk[p] \/ disk'[p].stage = "finalized"
    BY <1>3, PublicationAssumption DEF Save, IInv, Shape
<1>6. Shape'
    BY <1>2, <1>3, <1>4, <1>5 DEF IInv, Shape, Busy, Ended
<1>7. MadeOnce'
    <2>1. ASSUME NEW q \in Runs
          PROVE  /\ pc'[q] \in {"idle", "building"} => made'[q] = None
                 /\ pc'[q] \in Busy \ {"building"} => made'[q] # None
                 /\ made'[q] # None => RecordOfRun(made'[q], q)
        <3>1. CASE q = r
            BY <1>1, <1>3, <1>4, <3>1 DEF RecordOfRun
        <3>2. CASE q # r
            BY <1>3, <1>4, <3>2 DEF IInv, MadeOnce
        <3> QED BY <3>1, <3>2
    <2> QED BY <2>1 DEF MadeOnce, RecordOfRun
<1>8. OwnPaths => RecordsOwned'
    <2>1. pc[r] \in Busy /\ (\A q \in Runs : pc'[q] \in Busy => pc[q] \in Busy)
        BY <1>3 DEF Busy
    <2>2. "finalized" \in Stages
        BY DEF Stages
    <2> QED BY <1>3, <1>4, <2>1, <2>2, RecordsSaved DEF IInv
<1>9. \A q \in Runs : made[q] # None => q # r /\ made'[q] = made[q]
    BY <1>3, <1>4
<1>10. PoolIsMade'
    <2> SUFFICES ASSUME NEW e \in pool'
                 PROVE  \E q \in Runs :
                            made'[q] # None /\ e.tx = made'[q].tx /\ e.ttl = pinned'[q].ttl
        BY DEF PoolIsMade
    <2>1. PICK q \in Runs : made[q] # None /\ e.tx = made[q].tx /\ e.ttl = pinned[q].ttl
        BY <1>3 DEF IInv, PoolIsMade
    <2> QED BY <1>3, <1>9, <2>1
<1>11. DraftsApart => ChainIsWhole'
    <2>1. \A c \in Drafts : c.run \in Runs
        BY PublicationAssumption
    <2> QED BY <1>3, <1>9, <2>1 DEF IInv, ChainIsWhole, Share, Identifiers, IntentHash
<1>12. WaitsPastTTL'
    BY <1>3 DEF IInv, WaitsPastTTL
<1>13. FoundIsLanded'
    <2>1. \A q \in Runs : Landed(q) => Landed(q)'
        BY <1>3, <1>9, LandedStays
    <2>2. \A q \in Runs : pc'[q] \in {"found", "located"} /\ found'[q].status \in Included => Landed(q)'
        BY <1>3, <2>1 DEF IInv, FoundIsLanded
    <2>3. \A p \in Paths : disk'[p].stage = "verified" => disk'[p].run \in Runs /\ Landed(disk'[p].run)
        BY <1>5 DEF IInv, FoundIsLanded
    <2>4. ASSUME NEW p \in Paths, disk'[p].stage = "verified"
          PROVE  disk'[p].run \in Runs /\ Landed(disk[p].run)'
        <3>1. disk'[p] = disk[p] /\ disk[p].run \in Runs /\ Landed(disk[p].run)
            BY <1>5, <2>4 DEF IInv, FoundIsLanded
        <3>2. PICK q \in Runs : q = disk[p].run /\ q = disk'[p].run
            BY <3>1
        <3>3. Landed(q)'
            BY <2>1, <3>1, <3>2
        <3> QED BY <3>2, <3>3 DEF Landed, InEffect, Included, Holds
    <2> QED BY <2>2, <2>4 DEF FoundIsLanded
<1> QED BY <1>6, <1>7, <1>8, <1>10, <1>11, <1>12, <1>13 DEF IInv, OwnPaths, DraftsApart, Share, Identifiers, IntentHash

\* Nothing but where a run is.
LEMMA GoesOn ==
    ASSUME IInv, NEW r \in Runs, NEW x \in Ended \cup Busy, x \notin {"building", "waiting"},
           pc[r] \in Busy, x \in Busy => pc[r] # "building",
           pc' = [pc EXCEPT ![r] = x], UNCHANGED <<clock, chain, indexed, made, disk, pinned>>,
           \A e \in pool' : e \in pool \/ (made[r] # None /\ e.tx = made[r].tx /\ e.ttl = pinned[r].ttl),
           x = "unseen" => clock > pinned[r].ttl, DOMAIN found' = Runs,
           \A q \in Runs : q # r => found'[q] = found[q],
           x \in {"found", "located"} /\ found'[r].status \in Included => Landed(r)
    PROVE  IInv'
<1>1. \A q \in Runs : pc'[q] \in Busy => pc[q] \in Busy
    BY DEF IInv, Shape
<1>2. OwnPaths => RecordsOwned'
    BY <1>1, RecordsStay DEF IInv
<1>3. \A q \in Runs : PinnedForm(pinned'[q]) /\ pinned'[q].ttl = pinned[q].ttl
    BY DEF IInv, Shape, PinnedForm
<1>4. /\ DOMAIN disk' = Paths /\ DOMAIN pinned' = Runs
      /\ \A q \in Runs : pinned'[q] = pinned[q]
      /\ \A p \in Paths : disk'[p] = disk[p]
      /\ x # "building" /\ x # "waiting"
    BY DEF IInv, Shape
<1> QED BY <1>2, <1>3, <1>4, Moves

\* A run that saves what it has made.
LEMMA Saves ==
    ASSUME IInv, NEW r \in Runs, NEW x \in Ended \cup Busy, NEW stage \in Stages,
           x # "building", pc[r] \in Busy, pc[r] # "building",
           pc' = [pc EXCEPT ![r] = x], UNCHANGED <<clock, chain, indexed, pool, made, found>>, Save(r, stage),
           DOMAIN pinned' = Runs,
           \A q \in Runs : PinnedForm(pinned'[q]) /\ pinned'[q].ttl = pinned[q].ttl
                           /\ (q # r => pinned'[q] = pinned[q]),
           x = "waiting" => pinned'[r].deadline >= pinned[r].ttl + Grace,
           x # "unseen",
           x \in {"found", "located"} /\ found[r].status \in Included => Landed(r),
           stage = "verified" => Landed(r)
    PROVE  IInv'
<1>1. \A q \in Runs : pc'[q] \in Busy => pc[q] \in Busy
    BY DEF IInv, Shape
<1>2. made[r] # None
    BY DEF IInv, MadeOnce
<1>3. OwnPaths => RecordsOwned'
    BY <1>1, <1>2, RecordsSaved DEF IInv
<1>4. /\ DOMAIN disk' = Paths
      /\ \A p \in Paths : disk'[p] = disk[p]
                            \/ disk'[p] = [run |-> r, stage |-> stage, saved |-> made'[r]]
    BY PublicationAssumption DEF Save, IInv, Shape
<1>5. \A p \in Paths : disk'[p].stage = "verified" =>
            disk'[p] = disk[p] \/ (disk'[p].run = r /\ Landed(r))
    BY <1>4
<1>6. (\A e \in pool' : e \in pool) /\ DOMAIN found' = Runs
    BY DEF IInv, Shape
<1> QED BY <1>2, <1>3, <1>4, <1>5, <1>6, Moves

\* A new entry keeps the named parts: it was submitted by its runs, before its TTL.
LEMMA LandKeeps == ASSUME IInv, Land \/ Fail PROVE IInv'
<1>0. /\ chain' \in Seq(ChainEntries) /\ Len(chain') = Len(chain) + 1 /\ Len(chain) \in Nat
      /\ \A n \in DOMAIN chain : n \in DOMAIN chain' /\ chain'[n] = chain[n]
    <2>1. Shape /\ MadeOnce /\ PoolIsMade
        BY DEF IInv
    <2>2. PICK n \in Nat :
            /\ DOMAIN chain' = DOMAIN chain \cup {n} /\ \A m \in DOMAIN chain : chain'[m] = chain[m]
            /\ chain' \in Seq(ChainEntries) /\ Len(chain') = Len(chain) + 1
        BY <2>1, LandsOne
    <2>3. Len(chain) \in Nat
        BY <2>1 DEF Shape
    <2> QED BY <2>2, <2>3
<1>1. /\ UNCHANGED <<clock, indexed, pool, disk, pc, pinned, made, found>>
      /\ DraftsApart => ChainIsWhole'
    BY LandsWhole DEF IInv, Land, Fail
<1>2. Shape' /\ MadeOnce' /\ PoolIsMade' /\ WaitsPastTTL'
    BY <1>0, <1>1 DEF IInv, Shape, MadeOnce, RecordOfRun, PoolIsMade, WaitsPastTTL
<1>3. OwnPaths => RecordsOwned'
    BY <1>1 DEF IInv, RecordsOwned, MadeIsSaved, PathOwned, Exists
<1>5. \A q \in Runs : Landed(q) => Landed(q)'
    BY <1>0, <1>1, LandedStays
<1>6. FoundIsLanded'
    <2>1. \A q \in Runs : pc'[q] \in {"found", "located"} /\ found'[q].status \in Included => Landed(q)'
        BY <1>1, <1>5 DEF IInv, FoundIsLanded
    <2>2. ASSUME NEW p \in Paths, disk'[p].stage = "verified"
          PROVE  disk'[p].run \in Runs /\ Landed(disk[p].run)'
        <3>1. disk'[p] = disk[p] /\ disk[p].run \in Runs /\ Landed(disk[p].run)
            BY <1>1, <2>2 DEF IInv, FoundIsLanded
        <3>2. PICK q \in Runs : q = disk[p].run /\ q = disk'[p].run
            BY <3>1
        <3>3. Landed(q)'
            BY <1>5, <3>1, <3>2
        <3> QED BY <3>2, <3>3 DEF Landed, InEffect, Included, Holds
    <2> QED BY <2>1, <2>2 DEF FoundIsLanded
<1> QED BY <1>1, <1>2, <1>3, <1>6 DEF IInv, OwnPaths, DraftsApart, Share, Identifiers, IntentHash

\* Packages verify only in a transaction that took effect.
LEMMA ReadsIncluded ==
    ASSUME MadeOnce, NEW r \in Runs, made[r] # None, Reads(r)
    PROVE  found[r].status \in Included
<1>1. PICK d \in Drafts : CarriesAll(d.tx, d.packages) /\ made[r].packages = d.packages
    BY MadeIsDraft
<1>2. d.packages \in Seq(Packages) /\ d.packages # <<>>
    BY <1>1, PublicationAssumption DEF CarriesAll
<1>3. 1 \in DOMAIN made[r].packages
    BY <1>1, <1>2
<1>4. \E k : k \in DOMAIN VerifiedPackages(found[r].tx, Target, Home, OwnHash, found[r].status)
    BY <1>3 DEF Reads
<1> QED BY <1>4 DEF VerifiedPackages

\* A run that looks at the included bytes ends, with a last save unless it throws.
LEMMA EndsOneWay ==
    ASSUME NEW r \in Runs, VerifyIncluded(r)
    PROVE  \E x \in {"failed", "verified", "unverified"} :
                /\ pc' = [pc EXCEPT ![r] = x] /\ x = Outcome(r)
                /\ \/ UNCHANGED disk
                   \/ \E stage \in {"included", "verified"} :
                        Save(r, stage) /\ (stage = "verified" => Reads(r))
<1>1. EndRun(r, Outcome(r))
    BY DEF VerifyIncluded
<1>2. PICK x \in {"failed", "verified", "unverified"} : x = Outcome(r)
    BY DEF Outcome
<1>3. EndRun(r, x)
    BY <1>1, <1>2
<1>4. pc' = [pc EXCEPT ![r] = x]
    BY <1>3 DEF EndRun, Goto
<1>5. x = "verified" => Reads(r)
    BY <1>2 DEF Outcome
<1>6. CASE x = "failed"
    BY <1>2, <1>3, <1>4, <1>6 DEF EndRun
<1>7. CASE x = "verified"
    BY <1>2, <1>3, <1>4, <1>5, <1>7 DEF EndRun
<1>8. CASE x = "unverified"
    BY <1>2, <1>3, <1>4, <1>8 DEF EndRun
<1> QED BY <1>6, <1>7, <1>8

\* Every step keeps the named parts.
LEMMA NextInv == IInv /\ [Next]_vars => IInv'
<1> SUFFICES ASSUME IInv, [Next]_vars PROVE IInv'
    OBVIOUS
<1>0. /\ DOMAIN pinned = Runs /\ DOMAIN disk = Paths /\ DOMAIN found = Runs /\ clock \in Nat
      /\ \A r \in Runs : PinnedForm(pinned[r]) /\ pinned[r].ttl \in Nat /\ pinned[r].deadline \in Nat
      /\ Grace \in Nat
    BY PublicationAssumption DEF IInv, Shape, PinnedForm
<1>1. CASE Tick \/ ChangeState \/ Index \/ UNCHANGED vars
    <2>1. /\ UNCHANGED <<pool, chain, disk, pc, pinned, made, found>> /\ clock' \in Nat /\ clock' >= clock
          /\ indexed' \in 0..Len(chain)
        BY <1>0, <1>1 DEF Tick, ChangeState, Index, vars, IInv, Shape
    <2> QED BY <1>0, <2>1, Waits
<1>2. CASE Land \/ Fail
    BY <1>2, LandKeeps
<1>3. ASSUME NEW r \in Runs, Step(r) PROVE IInv'
    <2>1. CASE Start(r)
        BY <2>1, StartKeeps
    <2>2. CASE Finalize(r)
        BY <2>2, FinalizeKeeps
    <2>3. CASE Send(r)
        <3>1. /\ pc[r] = "finalized" /\ made[r] # None
              /\ pc' = [pc EXCEPT ![r] = "sent"] /\ UNCHANGED <<clock, chain, indexed, made, disk, pinned, found>>
              /\ pool' = pool \/ pool' = pool \cup {[tx |-> made[r].tx, ttl |-> pinned[r].ttl]}
            BY <2>3 DEF Send, Goto, network, IInv, MadeOnce, Busy
        <3>2. \A e \in pool' : e \in pool \/ (made[r] # None /\ e.tx = made[r].tx /\ e.ttl = pinned[r].ttl)
            BY <3>1
        <3>3. PICK x \in Ended \cup Busy : x = "sent"
            BY DEF Busy
        <3>4. pc[r] \in Busy
            BY <3>1 DEF Busy
        <3> QED BY <3>1, <3>2, <3>3, <3>4, <1>0, GoesOn
    <2>4. CASE SendReturns(r)
        <3>1. /\ pc[r] = "sent" /\ pc' = [pc EXCEPT ![r] = "waiting"] /\ Save(r, "submitted")
              /\ UNCHANGED <<clock, chain, indexed, pool, made, found>>
              /\ pinned' = [pinned EXCEPT ![r].deadline = WaitUntil(LocalTime(r), pinned[r].ttl)]
            BY <2>4 DEF SendReturns, Goto, network
        <3>2. LocalTime(r) \in Nat
            BY <1>0, PublicationAssumption DEF LocalTime
        <3>3. /\ WaitUntil(LocalTime(r), pinned[r].ttl) \in Nat
              /\ WaitUntil(LocalTime(r), pinned[r].ttl) >= pinned[r].ttl + Grace
            BY <1>0, <3>2 DEF WaitUntil, LatestOf
        <3>4. /\ DOMAIN pinned' = Runs /\ \A q \in Runs : q # r => pinned'[q] = pinned[q]
              /\ pinned'[r] = [state |-> pinned[r].state, ttl |-> pinned[r].ttl,
                               deadline |-> WaitUntil(LocalTime(r), pinned[r].ttl),
                               tries |-> pinned[r].tries]
            BY <1>0, <3>1 DEF PinnedForm
        <3>5. \A q \in Runs : PinnedForm(pinned'[q]) /\ pinned'[q].ttl = pinned[q].ttl
            BY <1>0, <3>3, <3>4 DEF PinnedForm
        <3>6. pc[r] \in Busy /\ "waiting" \in Busy /\ "submitted" \in Stages
            BY <3>1 DEF Busy, Stages
        <3>7. PICK x \in Ended \cup Busy, stage \in Stages : x = "waiting" /\ stage = "submitted"
            BY <3>6
        <3>8. pinned'[r].deadline >= pinned[r].ttl + Grace
            BY <3>3, <3>4
        <3> QED BY <3>1, <3>4, <3>5, <3>6, <3>7, <3>8, Saves
    <2>5. CASE Throws(r) \/ QueryRefused(r) \/ Crash(r)
        <3>1. /\ pc[r] \in Busy /\ UNCHANGED <<clock, chain, indexed, made, disk, pinned, pool, found>>
              /\ \E x \in {"failed", "crashed"} : pc' = [pc EXCEPT ![r] = x]
            BY <2>5 DEF Throws, QueryRefused, Crash, Goto, network, Busy
        <3>2. PICK x \in {"failed", "crashed"} : pc' = [pc EXCEPT ![r] = x]
            BY <3>1
        <3>3. x \in Ended \cup Busy /\ x \notin Busy
            BY DEF Ended, Busy
        <3> QED BY <1>0, <3>1, <3>2, <3>3, GoesOn
    <2>6. CASE QueryFails(r) \/ NotYet(r)
        <3>1. CASE pc' = pc
            <4>1. /\ UNCHANGED <<pool, chain, disk, pc, made, found, clock, indexed>> /\ indexed \in 0..Len(chain)
                  /\ \E n : pinned' = [pinned EXCEPT ![r].tries = n]
                BY <2>6, <3>1 DEF QueryFails, NotYet, Goto, network, IInv, Shape, Busy
            <4>2. PICK n : pinned' = [pinned EXCEPT ![r].tries = n]
                BY <4>1
            <4>3. /\ DOMAIN pinned' = Runs /\ \A q \in Runs : q # r => pinned'[q] = pinned[q]
                  /\ pinned'[r] = [state |-> pinned[r].state, ttl |-> pinned[r].ttl,
                                   deadline |-> pinned[r].deadline, tries |-> n]
                BY <1>0, <4>2 DEF PinnedForm
            <4>4. \A q \in Runs : /\ PinnedForm(pinned'[q])
                                  /\ pinned'[q].ttl = pinned[q].ttl /\ pinned'[q].deadline = pinned[q].deadline
                BY <1>0, <4>3 DEF PinnedForm
            <4> QED BY <1>0, <4>1, <4>3, <4>4, Waits
        <3>2. CASE pc' # pc
            <4>1. /\ pc[r] = "waiting" /\ UNCHANGED <<clock, chain, indexed, made, disk, pinned, pool, found>>
                  /\ pc' = [pc EXCEPT ![r] = "failed"]
                BY <2>6, <3>2 DEF QueryFails, NotYet, Goto, network
            <4>2. PICK x \in Ended \cup Busy : x = "failed"
                BY DEF Ended
            <4>3. pc[r] \in Busy /\ x \notin Busy
                BY <4>1, <4>2 DEF Busy
            <4> QED BY <1>0, <4>1, <4>2, <4>3, GoesOn
        <3> QED BY <3>1, <3>2
    <2>7. CASE Poll(r)
        <3>1. /\ pc[r] = "waiting" /\ pc' = [pc EXCEPT ![r] = "found"]
              /\ UNCHANGED <<clock, chain, indexed, made, disk, pinned, pool>>
            BY <2>7 DEF Poll, Goto, network
        <3>2. PICK n \in Matches(r) : \E answer \in Reported(chain[n]) : found' = [found EXCEPT ![r] = answer]
            BY <2>7 DEF Poll
        <3>3. PICK answer \in Reported(chain[n]) : found' = [found EXCEPT ![r] = answer]
            BY <3>2
        <3>4. /\ DOMAIN found' = Runs /\ found'[r] = answer /\ answer.status = chain[n].status
              /\ \A q \in Runs : q # r => found'[q] = found[q]
            BY <3>3 DEF IInv, Shape, Reported
        <3>5. found'[r].status \in Included => Landed(r)
            <4>1. n \in 1..indexed /\ made[r].identifiers \cap Identifiers(chain[n].tx) # {}
                BY <3>2 DEF Matches
            <4>2. n \in DOMAIN chain /\ made[r] # None
                BY <3>1, <4>1 DEF IInv, Shape, MadeOnce, Busy
            <4> QED BY <3>4, <4>1, <4>2 DEF Landed, InEffect, Holds
        <3>6. PICK x \in Ended \cup Busy : x = "found"
            BY DEF Busy
        <3>7. pc[r] \in Busy
            BY <3>1 DEF Busy
        <3> QED BY <3>1, <3>4, <3>5, <3>6, <3>7, GoesOn
    <2>8. CASE GiveUp(r)
        <3>1. /\ pc[r] = "waiting" /\ pc' = [pc EXCEPT ![r] = "unseen"]
              /\ UNCHANGED <<clock, chain, indexed, made, disk, pinned, pool, found>>
              /\ LocalTime(r) >= pinned[r].deadline
            BY <2>8 DEF GiveUp, Goto, network
        <3>2. clock > pinned[r].ttl
            <4>1. Ahead[r] \in Nat /\ Ahead[r] < Grace
                BY PublicationAssumption
            <4>2. pinned[r].deadline >= pinned[r].ttl + Grace
                BY <3>1 DEF IInv, WaitsPastTTL
            <4>3. clock + Ahead[r] >= pinned[r].deadline
                BY <3>1 DEF LocalTime
            <4> QED BY <1>0, <4>1, <4>2, <4>3
        <3>3. PICK x \in Ended \cup Busy : x = "unseen"
            BY DEF Ended
        <3>4. pc[r] \in Busy /\ x \notin Busy
            BY <3>1, <3>3 DEF Busy
        <3> QED BY <3>1, <3>2, <3>3, <3>4, <1>0, GoesOn
    <2>9. CASE Locate(r)
        <3>1. /\ pc[r] = "found" /\ Save(r, "included") /\ UNCHANGED <<clock, chain, indexed, made, pool, pinned, found>>
              /\ \E x \in {"located", "absent"} : pc' = [pc EXCEPT ![r] = x]
            BY <2>9 DEF Locate, Goto, network
        <3>2. found[r].status \in Included => Landed(r)
            BY <3>1 DEF IInv, FoundIsLanded
        <3>3. PICK x \in {"located", "absent"} : pc' = [pc EXCEPT ![r] = x]
            BY <3>1
        <3>4. x \in Ended \cup Busy /\ pc[r] \in Busy /\ "included" \in Stages
            BY <3>1 DEF Ended, Busy, Stages
        <3>5. PICK stage \in Stages : stage = "included"
            BY <3>4
        <3> QED BY <1>0, <3>1, <3>2, <3>3, <3>4, <3>5, Saves
    <2>10. CASE VerifyIncluded(r)
        <3>1. /\ pc[r] = "located" /\ UNCHANGED <<clock, chain, indexed, made, pool, pinned, found>>
            BY <2>10 DEF VerifyIncluded, EndRun, network
        <3>2. made[r] # None /\ (found[r].status \in Included => Landed(r))
            BY <3>1 DEF IInv, FoundIsLanded, MadeOnce, Busy
        <3>3. PICK x \in {"failed", "verified", "unverified"} :
                /\ pc' = [pc EXCEPT ![r] = x]
                /\ \/ UNCHANGED disk
                   \/ \E stage \in {"included", "verified"} :
                        Save(r, stage) /\ (stage = "verified" => Reads(r))
            BY <2>10, EndsOneWay
        <3>4. x \in Ended \cup Busy /\ pc[r] \in Busy /\ x \notin Busy /\ x # "unseen"
            BY <3>1 DEF Ended, Busy
        <3>5. DOMAIN found' = Runs /\ \A q \in Runs : found'[q] = found[q]
            BY <3>1 DEF IInv, Shape
        <3>6. CASE UNCHANGED disk
            BY <3>1, <3>3, <3>4, <3>5, <3>6, GoesOn
        <3>7. CASE \E stage \in {"included", "verified"} : Save(r, stage) /\ (stage = "verified" => Reads(r))
            <4>1. PICK stage \in {"included", "verified"} : Save(r, stage) /\ (stage = "verified" => Reads(r))
                BY <3>7
            <4>2. stage \in Stages
                BY DEF Stages
            <4>3. stage = "verified" => Landed(r)
                BY <3>2, <4>1, ReadsIncluded DEF IInv
            <4> QED BY <1>0, <3>1, <3>3, <3>4, <4>1, <4>2, <4>3, Saves
        <3> QED BY <3>3, <3>6, <3>7
    <2> QED BY <1>3, <2>1, <2>2, <2>3, <2>4, <2>5, <2>6, <2>7, <2>8, <2>9, <2>10 DEF Step
<1> QED BY <1>1, <1>2, <1>3 DEF Next

\* The named parts above hold at all times.
THEOREM Invariance == Spec => []IInv
BY InitInv, NextInv, PTL DEF Spec

-----------------------------------------------------------------------------
(* What follows for one run *)

\* Where runs given one path follow one another, whatever circulates of a run is on
\* record at its path, at every crash and whatever runs there later.
THEOREM RecordsComeFirst == OwnPaths /\ Spec => []RecordedFirst
<1>1. OwnPaths /\ IInv => RecordedFirst
    BY DEF IInv, RecordsOwned, MadeIsSaved, RecordedFirst, Holds
<1>2. OwnPaths /\ []IInv => []RecordedFirst
    <2>1. SUFFICES ASSUME OwnPaths PROVE []IInv => []RecordedFirst
        OBVIOUS
    <2>2. IInv => RecordedFirst
        BY <1>1, <2>1
    <2> QED BY <2>2, PTL
<1> QED BY Invariance, <1>2

\* A run makes its record once, when it builds.
LEMMA MadeStays ==
    ASSUME IInv, [Next]_vars, NEW r \in Runs
    PROVE  \/ made'[r] = made[r]
           \/ pc[r] = "building" /\ made[r] = None /\ chain' = chain
<1>1. CASE UNCHANGED made
    BY <1>1
<1>2. CASE \E q \in Runs : Finalize(q)
    <2>1. PICK q \in Runs : Finalize(q)
        BY <1>2
    <2>2. \E v : made' = [made EXCEPT ![q] = v]
        BY <2>1 DEF Finalize
    <2>3. pc[q] = "building" /\ made[q] = None /\ chain' = chain
        BY <2>1 DEF Finalize, network, IInv, MadeOnce
    <2> QED BY <2>2, <2>3 DEF IInv, Shape
<1>3. UNCHANGED made \/ \E q \in Runs : Finalize(q)
    BY DEF Next, Step, vars, Tick, ChangeState, Land, Fail, Index, Start, Send, SendReturns, Throws,
        QueryFails, QueryRefused, NotYet, Poll, GiveUp, Locate, VerifyIncluded, EndRun, Crash
<1> QED BY <1>1, <1>2, <1>3

\* Only Land and Fail change the chain.
LEMMA ChainStays ==
    ASSUME [Next]_vars
    PROVE  chain' = chain \/ Land \/ Fail
BY DEF Next, Step, vars, Tick, ChangeState, Index, Start, Finalize, Send, SendReturns, Throws,
    QueryFails, QueryRefused, NotYet, Poll, GiveUp, Locate, VerifyIncluded, EndRun, Crash, network

\* What run r holds is what its transaction's intents identify.
LEMMA HoldsIsShare ==
    ASSUME MadeOnce, NEW r \in Runs, NEW t
    PROVE  Holds(t, r) <=> made[r] # None /\ Share(made[r].tx, t)
<1>1. CASE made[r] = None
    BY <1>1 DEF Holds
<1>2. CASE made[r] # None
    BY <1>2, MadeIsDraft DEF Holds, Share
<1> QED BY <1>1, <1>2

\* A run that has stopped waiting sees its publication land nowhere: what the indexer
\* did not show has landed by then or never will, by whichever clock the run waited.
THEOREM GivingUpIsFinal == DraftsApart /\ Spec => GiveUpIsFinal
<1>1. ASSUME DraftsApart, IInv, [Next]_vars, NEW r \in Runs, pc[r] = "unseen", Landed(r)'
      PROVE  Landed(r)
    <2>1. made'[r] = made[r]
        BY <1>1, MadeStays
    <2>2. CASE chain' = chain
        BY <1>1, <2>1, <2>2 DEF Landed, InEffect, Included, Holds, Identifiers, IntentHash
    <2>3. CASE Land \/ Fail
        <3>1. PICK e \in Circulating, n \in Nat :
                /\ clock <= e.ttl /\ DOMAIN chain' = DOMAIN chain \cup {n} /\ chain'[n].tx = e.tx
                /\ \A m \in DOMAIN chain : chain'[m] = chain[m]
            BY <1>1, <2>3, LandsOne DEF IInv
        <3>2. PICK m \in DOMAIN chain' : Holds(chain'[m].tx, r) /\ chain'[m].status \in Included
            BY <1>1, <2>1 DEF Landed, InEffect, Included, Holds, Identifiers, IntentHash
        <3>3. CASE m \in DOMAIN chain
            BY <3>1, <3>2, <3>3 DEF Landed, InEffect
        <3>4. CASE m \notin DOMAIN chain
            <4>1. made[r] # None /\ Share(made[r].tx, e.tx)
                BY <1>1, <3>1, <3>2, <3>4, HoldsIsShare DEF IInv
            <4>2. PICK d \in Drafts : d.run = r /\ made[r].tx = d.tx
                BY <1>1, <4>1, MadeIsDraft DEF IInv
            <4>3. e.ttl \in Nat /\ e.ttl <= pinned[r].ttl
                BY <1>1, <4>1, <4>2, CirculatesWhole DEF IInv
            <4>4. clock > pinned[r].ttl /\ clock \in Nat /\ pinned[r].ttl \in Nat
                BY <1>1 DEF IInv, WaitsPastTTL, Shape
            <4> QED BY <3>1, <4>3, <4>4
        <3> QED BY <3>3, <3>4
    <2> QED BY <1>1, <2>2, <2>3, ChainStays
<1>2. ASSUME DraftsApart PROVE IInv /\ [Next]_vars =>
        [\A r \in Runs : pc[r] = "unseen" /\ Landed(r)' => Landed(r)]_vars
    BY <1>1, <1>2
<1>3. ASSUME DraftsApart PROVE []IInv /\ [][Next]_vars => GiveUpIsFinal
    BY <1>2, <1>3, PTL DEF GiveUpIsFinal
<1> QED BY <1>3, Invariance DEF Spec

\* A record is never overwritten by another run's.
THEOREM RecordsStayTheirs == OwnPaths /\ Spec => NeverOverwritten
<1>1. ASSUME OwnPaths, IInv, [Next]_vars, NEW p \in Paths, Exists(p)
      PROVE  disk'[p].run = disk[p].run
    <2>1. \/ disk' = disk
          \/ \E r \in Runs, stage \in Stages : pc[r] \in Busy /\ Save(r, stage)
        BY <1>1 DEF Next, Step, vars, Tick, ChangeState, Land, Fail, Index, Start, Finalize, Send,
            SendReturns, Throws, QueryFails, QueryRefused, NotYet, Poll, GiveUp, Locate,
            VerifyIncluded, EndRun, Crash, Busy, Stages
    <2>2. ASSUME NEW r \in Runs, NEW stage \in Stages, pc[r] \in Busy, Save(r, stage)
          PROVE  disk'[p].run = disk[p].run
        <3>1. disk'[p] = IF p = PathOf[r] THEN [run |-> r, stage |-> stage, saved |-> made'[r]] ELSE disk[p]
            BY <1>1, <2>2 DEF Save, IInv, Shape
        <3>2. p = PathOf[r] => disk[p].run = r
            BY <1>1, <2>2 DEF IInv, RecordsOwned, PathOwned
        <3> QED BY <3>1, <3>2
    <2> QED BY <2>1, <2>2
<1>2. ASSUME OwnPaths PROVE Spec => NeverOverwritten
    <2>1. IInv /\ [Next]_vars => [\A p \in Paths : Exists(p) => disk'[p].run = disk[p].run]_disk
        BY <1>1, <1>2
    <2> QED BY <2>1, Invariance, PTL DEF Spec, NeverOverwritten
<1> QED BY <1>2

\* What a run has found is on the chain and its own, and only an offer hides it.
FoundIsOwn ==
    /\ DOMAIN found = Runs
    /\ \A r \in Runs : pc[r] = "found" =>
            \E n \in DOMAIN chain : found[r].tx = chain[n].tx /\ Holds(chain[n].tx, r)
    /\ DraftsApart => OnlyOffersHide

\* Of a transaction that holds a run's intents, the run recognizes every package unless
\* somebody's offer is in its segment.
LEMMA HeldIsLocated ==
    ASSUME IInv, DraftsApart, NEW r \in Runs, NEW n \in DOMAIN chain, found[r].tx = chain[n].tx,
           Holds(chain[n].tx, r), ~Offered(r)
    PROVE  Locates(found[r].tx, made[r])
<1> DEFINE t == found[r].tx
<1>1. PICK d \in Drafts :
        /\ d.run = r /\ CarriesAll(d.tx, d.packages) /\ made[r] = RecordOf(d.tx, d.packages, d.state)
        /\ made[r].tx = d.tx /\ made[r].identifiers = Identifiers(d.tx)
        /\ made[r].packages = d.packages
    BY MadeIsDraft DEF IInv, Holds
<1>2. made[r].identifiers \subseteq Identifiers(t)
    BY <1>1 DEF IInv, ChainIsWhole, Share, Holds
<1>3. ASSUME NEW i \in DOMAIN d.packages
      PROVE  LET s == d.packages[i].segment IN
             /\ s \in DOMAIN d.tx.intents /\ s \in DOMAIN t.intents /\ t.intents[s] = d.tx.intents[s]
             /\ made[r].hashes[i] = IntentHash(d.tx, s) /\ s \notin t.zswap
    <2> DEFINE s == d.packages[i].segment
    <2>1. s \in DOMAIN d.tx.intents
        BY <1>1 DEF CarriesAll, IntentCarries
    <2>2. <<s, d.tx.intents[s]>> \in Identifiers(t)
        BY <1>1, <1>2, <2>1 DEF Identifiers, IntentHash
    <2>3. s \in DOMAIN t.intents /\ t.intents[s] = d.tx.intents[s]
        BY <2>2 DEF Identifiers, IntentHash
    <2>4. made[r].hashes[i] = IntentHash(d.tx, s)
        BY <1>1 DEF RecordOf
    <2>5. s \notin t.zswap
        BY <1>1 DEF Offered
    <2> QED BY <2>1, <2>3, <2>4, <2>5
<1>4. CarriesAll(t, d.packages)
    <2>1. ASSUME NEW i \in DOMAIN d.packages PROVE IntentCarries(t, d.packages[i])
        BY <1>1, <1>3 DEF CarriesAll, IntentCarries
    <2> QED BY <1>1, <2>1 DEF CarriesAll
<1> QED BY <1>1, <1>2, <1>3, <1>4 DEF Locates, IntentHash

\* What a run found stays its own, on the chain.
LEMMA FoundStays ==
    ASSUME IInv, IInv', FoundIsOwn, [Next]_vars
    PROVE  FoundIsOwn'
<1>1. DOMAIN found' = Runs
    BY DEF FoundIsOwn, Next, Step, vars, Tick, ChangeState, Land, Fail, Index, Start, Finalize, Send,
        SendReturns, Throws, QueryFails, QueryRefused, NotYet, Poll, GiveUp, Locate,
        VerifyIncluded, EndRun, Crash
<1>2. ASSUME NEW r \in Runs
      PROVE  \/ Poll(r) \/ Locate(r)
             \/ pc'[r] \in {"found", "absent"} => pc'[r] = pc[r] /\ found'[r] = found[r]
    <2>1. CASE UNCHANGED <<pc, found>>
        BY <2>1
    <2>2. ASSUME NEW q \in Runs, NEW x \in {"idle"} \cup Busy \cup Ended,
                 pc' = [pc EXCEPT ![q] = x], UNCHANGED found, x \notin {"found", "absent"}
          PROVE  pc'[r] \in {"found", "absent"} => pc'[r] = pc[r] /\ found'[r] = found[r]
        BY <2>2 DEF IInv, Shape
    <2>3. ASSUME NEW q \in Runs, Step(q) PROVE <1>2!2
        <3>1. CASE Start(q) \/ Finalize(q) \/ Send(q) \/ SendReturns(q) \/ Throws(q) \/ QueryFails(q)
                    \/ QueryRefused(q) \/ NotYet(q) \/ GiveUp(q) \/ VerifyIncluded(q) \/ Crash(q)
            <4>1. /\ UNCHANGED found
                  /\ UNCHANGED pc \/ \E x \in {"building", "refused", "finalized", "dry", "sent", "waiting",
                        "failed", "unseen", "verified", "unverified", "crashed"} : pc' = [pc EXCEPT ![q] = x]
                <5>1. CASE VerifyIncluded(q)
                    BY <5>1, EndsOneWay DEF VerifyIncluded, EndRun
                <5>2. CASE ~VerifyIncluded(q)
                    BY <3>1, <5>2 DEF Start, Finalize, Send, SendReturns, Throws, QueryFails, QueryRefused,
                        NotYet, GiveUp, Crash, Goto
                <5> QED BY <5>1, <5>2
            <4> QED BY <2>1, <4>1 DEF IInv, Shape
        <3>2. CASE Poll(q) \/ Locate(q)
            <4>1. CASE q = r
                BY <3>2, <4>1
            <4>2. CASE q # r
                BY <3>2, <4>2 DEF Poll, Locate, Goto, IInv, Shape, FoundIsOwn
            <4> QED BY <4>1, <4>2
        <3> QED BY <2>3, <3>1, <3>2 DEF Step
    <2>4. CASE Tick \/ ChangeState \/ Land \/ Fail \/ Index \/ UNCHANGED vars
        BY <2>4 DEF Tick, ChangeState, Land, Fail, Index, vars
    <2> QED BY <2>3, <2>4 DEF Next
<1>3. \A n \in DOMAIN chain : n \in DOMAIN chain' /\ chain'[n] = chain[n]
    BY ChainStays, LandsOne DEF IInv
<1>4. ASSUME NEW r \in Runs PROVE made[r] # None => made'[r] = made[r]
    BY MadeStays
<1>5. ASSUME NEW r \in Runs, pc'[r] = "found"
      PROVE  \E n \in DOMAIN chain' :
                found'[r].tx = chain'[n].tx /\ made'[r] # None
                /\ made'[r].identifiers \cap Identifiers(chain'[n].tx) # {}
    <2>1. CASE Poll(r)
        <3>0. PICK n \in Matches(r) : \E answer \in Reported(chain[n]) : found' = [found EXCEPT ![r] = answer]
            BY <2>1 DEF Poll
        <3>1. PICK answer \in Reported(chain[n]) : found' = [found EXCEPT ![r] = answer]
            BY <3>0
        <3>2. n \in DOMAIN chain /\ made[r] # None /\ made' = made /\ found'[r].tx = chain[n].tx
            BY <2>1, <3>0, <3>1 DEF Poll, Matches, Reported, IInv, Shape, MadeOnce, Busy, FoundIsOwn
        <3>3. made'[r].identifiers \cap Identifiers(chain[n].tx) # {}
            BY <3>0, <3>2 DEF Matches
        <3>4. n \in DOMAIN chain' /\ chain'[n] = chain[n]
            BY <1>3, <3>2
        <3> QED BY <3>2, <3>3, <3>4
    <2>2. CASE Locate(r)
        BY <1>5, <2>2 DEF Locate, Goto, IInv, Shape
    <2>3. CASE pc[r] = "found" /\ found'[r] = found[r]
        <3>1. PICK n \in DOMAIN chain : found[r].tx = chain[n].tx /\ Holds(chain[n].tx, r)
            BY <2>3 DEF FoundIsOwn
        <3>2. made[r] # None /\ made[r].identifiers \cap Identifiers(chain[n].tx) # {}
            BY <3>1 DEF Holds
        <3>3. n \in DOMAIN chain' /\ chain'[n] = chain[n] /\ made'[r] = made[r]
            BY <1>3, <1>4, <3>2
        <3> QED BY <2>3, <3>1, <3>2, <3>3
    <2> QED BY <1>2, <1>5, <2>1, <2>2, <2>3
<1>6. ASSUME DraftsApart, NEW r \in Runs, pc'[r] = "absent"
      PROVE  Offered(r)'
    <2>1. CASE Locate(r)
        <3>1. pc[r] = "found" /\ ~Locates(found[r].tx, made[r]) /\ UNCHANGED <<made, found>>
            BY <1>6, <2>1 DEF Locate, Goto, IInv, Shape
        <3>2. Offered(r)
            BY <1>6, <3>1, HeldIsLocated DEF FoundIsOwn
        <3> QED BY <3>1, <3>2 DEF Offered
    <2>2. CASE Poll(r)
        BY <1>6, <2>2 DEF Poll, Goto, IInv, Shape
    <2>3. CASE pc[r] = "absent" /\ found'[r] = found[r]
        <3>1. Offered(r) /\ made'[r] = made[r]
            BY <1>6, <2>3, MadeStays DEF FoundIsOwn, OnlyOffersHide
        <3> QED BY <2>3, <3>1 DEF Offered
    <2> QED BY <1>2, <1>6, <2>1, <2>2, <2>3
<1>7. DraftsApart' <=> DraftsApart
    BY DEF DraftsApart, Share, Identifiers, IntentHash
<1>8. \A r \in Runs : pc'[r] = "found" =>
            \E n \in DOMAIN chain' : found'[r].tx = chain'[n].tx /\ Holds(chain[n].tx, r)'
    BY <1>5 DEF Holds, Identifiers, IntentHash
<1>9. DraftsApart' => OnlyOffersHide'
    BY <1>6, <1>7 DEF OnlyOffersHide
<1> QED BY <1>1, <1>8, <1>9 DEF FoundIsOwn

\* Whoever merges what into a publication, a run that finds one of its identifiers
\* recognizes every package, unless somebody's Zswap offer is in its segment.
THEOREM OnlyOffersHidePackages == DraftsApart /\ Spec => []OnlyOffersHide
<1>1. Init => FoundIsOwn
    BY DEF Init, FoundIsOwn, OnlyOffersHide
<1>2. IInv /\ IInv' /\ FoundIsOwn /\ [Next]_vars => FoundIsOwn'
    BY FoundStays
<1>3. Spec => []FoundIsOwn
    BY <1>1, <1>2, Invariance, PTL DEF Spec
<1>4. ASSUME DraftsApart PROVE []FoundIsOwn => []OnlyOffersHide
    <2>1. FoundIsOwn => OnlyOffersHide
        BY <1>4 DEF FoundIsOwn
    <2> QED BY <2>1, PTL
<1> QED BY <1>3, <1>4

-----------------------------------------------------------------------------
(* Types *)

\* What IInv does not say of the variables' types.
Typed ==
    /\ clock \in 0..Horizon /\ state \in DOMAIN StateChanges
    /\ \A r \in Runs : pinned[r].ttl \in 0..Horizon
    /\ \A e \in pool : IsTx(e.tx) /\ e.ttl \in 0..Horizon
    /\ \A n \in DOMAIN chain : IsTx(chain[n].tx) /\ chain[n].succeeded \subseteq FallibleSegments(chain[n].tx)
    /\ \A p \in Paths : Exists(p) =>
            disk[p].run \in Runs /\ disk[p].stage \in Stages /\ IsTx(disk[p].saved.tx)
    /\ DOMAIN found = Runs
    /\ \A r \in Runs : found[r] # None => \E n \in DOMAIN chain : found[r] \in Reported(chain[n])

\* A merge of two transactions is one.
LEMMA MergeIsTx ==
    ASSUME NEW t, NEW u, IsTx(t), IsTx(u)
    PROVE  IsTx(Merge(t, u))
<1> DEFINE m == Merge(t, u)
<1>1. /\ m = [intents |-> m.intents, zswap |-> m.zswap, form |-> m.form]
      /\ m.zswap = t.zswap \cup u.zswap /\ m.form = t.form
      /\ m.intents = [s \in DOMAIN t.intents \cup DOMAIN u.intents |->
                        IF s \in DOMAIN t.intents THEN t.intents[s] ELSE u.intents[s]]
    BY DEF Merge
<1>2. IsIntentMap(m.intents)
    BY <1>1 DEF IsTx, IsIntentMap
<1> QED BY <1>1, <1>2 DEF IsTx

\* What circulates is a transaction.
LEMMA CirculatingIsTx ==
    ASSUME Typed, NEW e \in Circulating
    PROVE  IsTx(e.tx)
<1>1. ASSUME NEW b \in PoolOrPairs PROVE IsTx(b.tx)
    BY BothForms, MergeIsTx DEF Typed
<1>2. \A u \in Others : IsTx(u)
    BY PublicationAssumption
<1> QED BY <1>1, <1>2, CirculatingForms, MergeIsTx

\* What a run makes is a transaction.
LEMMA MadeIsTx ==
    ASSUME MadeOnce, NEW r \in Runs, made[r] # None
    PROVE  IsTx(made[r].tx)
BY MadeIsDraft, PublicationAssumption

\* Every step keeps the types.
LEMMA StaysTyped ==
    ASSUME IInv, IInv', Typed, [Next]_vars
    PROVE  Typed'
<1>1. clock' \in 0..Horizon /\ state' \in DOMAIN StateChanges
    <2>1. clock' = clock \/ (clock < Horizon /\ clock' = clock + 1)
        BY DEF Next, Step, vars, network, Tick, ChangeState, Land, Fail, Index, Start, Finalize, Send,
            SendReturns, Throws, QueryFails, QueryRefused, NotYet, Poll, GiveUp, Locate, VerifyIncluded, EndRun, Crash
    <2>2. state' = state \/ state' \in StateChanges[state]
        BY DEF Next, Step, vars, network, Tick, ChangeState, Land, Fail, Index, Start, Finalize, Send,
            SendReturns, Throws, QueryFails, QueryRefused, NotYet, Poll, GiveUp, Locate, VerifyIncluded, EndRun, Crash
    <2> QED BY <2>1, <2>2, PublicationAssumption DEF Typed
<1>2. \A r \in Runs : pinned'[r].ttl \in 0..Horizon
    <2>1. CASE \E q \in Runs : Start(q)
        <3>1. PICK q \in Runs : Start(q)
            BY <2>1
        <3>2. clock + TTL \in 0..Horizon
            BY <3>1, PublicationAssumption DEF Start, Typed
        <3>3. \A r \in Runs : pinned'[r].ttl \in {pinned[r].ttl, clock + TTL}
            <4>1. UNCHANGED pinned
                  \/ pinned' = [pinned EXCEPT ![q] = [state |-> state, ttl |-> clock + TTL, deadline |-> 0, tries |-> 0]]
                BY <3>1 DEF Start
            <4> QED BY <4>1 DEF IInv, Shape
        <3> QED BY <3>2, <3>3 DEF Typed
    <2>2. CASE \E q \in Runs : SendReturns(q) \/ QueryFails(q) \/ NotYet(q)
        <3>1. \A r \in Runs : pinned'[r].ttl = pinned[r].ttl
            <4>1. PICK q \in Runs : SendReturns(q) \/ QueryFails(q) \/ NotYet(q)
                BY <2>2
            <4>2. \/ UNCHANGED pinned
                  \/ \E v : pinned' = [pinned EXCEPT ![q].deadline = v]
                  \/ \E v : pinned' = [pinned EXCEPT ![q].tries = v]
                BY <4>1 DEF SendReturns, QueryFails, NotYet
            <4> QED BY <4>2 DEF IInv, Shape
        <3> QED BY <3>1 DEF Typed
    <2>3. CASE UNCHANGED pinned
        BY <2>3 DEF Typed
    <2>4. UNCHANGED pinned \/ \E q \in Runs : Start(q) \/ SendReturns(q) \/ QueryFails(q) \/ NotYet(q)
        BY DEF Next, Step, vars, Tick, ChangeState, Land, Fail, Index, Finalize, Send, Throws,
            QueryRefused, Poll, GiveUp, Locate, VerifyIncluded, EndRun, Crash
    <2> QED BY <2>1, <2>2, <2>3, <2>4
<1>3. \A e \in pool' : IsTx(e.tx) /\ e.ttl \in 0..Horizon
    <2>1. CASE \E q \in Runs : Send(q)
        <3>1. PICK q \in Runs : Send(q)
            BY <2>1
        <3>2. made[q] # None
            BY <3>1 DEF Send, IInv, MadeOnce, Busy
        <3>3. IsTx(made[q].tx) /\ pinned[q].ttl \in 0..Horizon
            BY <3>2, MadeIsTx DEF IInv, Typed
        <3>4. pool' \subseteq pool \cup {[tx |-> made[q].tx, ttl |-> pinned[q].ttl]}
            BY <3>1 DEF Send
        <3> QED BY <3>3, <3>4 DEF Typed
    <2>2. UNCHANGED pool \/ \E q \in Runs : Send(q)
        BY DEF Next, Step, vars, Tick, ChangeState, Land, Fail, Index, Start, Finalize, SendReturns, Throws,
            QueryFails, QueryRefused, NotYet, Poll, GiveUp, Locate, VerifyIncluded, EndRun, Crash
    <2> QED BY <2>1, <2>2 DEF Typed
<1>4. /\ \A n \in DOMAIN chain' :
            IsTx(chain'[n].tx) /\ chain'[n].succeeded \subseteq FallibleSegments(chain'[n].tx)
      /\ \A n \in DOMAIN chain : n \in DOMAIN chain' /\ chain'[n] = chain[n]
    <2>1. CASE Land \/ Fail
        <3>1. PICK e \in Circulating, n \in Nat :
                /\ DOMAIN chain' = DOMAIN chain \cup {n} /\ chain'[n].tx = e.tx
                /\ \A m \in DOMAIN chain : chain'[m] = chain[m]
                /\ chain'[n].succeeded \subseteq FallibleSegments(e.tx)
            BY <2>1, LandsOne DEF IInv
        <3>2. IsTx(e.tx)
            BY CirculatingIsTx
        <3> QED BY <3>1, <3>2 DEF Typed
    <2>2. CASE chain' = chain
        BY <2>2 DEF Typed
    <2> QED BY <2>1, <2>2, ChainStays
<1>5. \A p \in Paths : Exists(p)' =>
            disk'[p].run \in Runs /\ disk'[p].stage \in Stages /\ IsTx(disk'[p].saved.tx)
    <2>1. ASSUME NEW r \in Runs, NEW stage \in Stages, Save(r, stage), made'[r] # None
          PROVE  \A p \in Paths : Exists(p)' =>
                    disk'[p].run \in Runs /\ disk'[p].stage \in Stages /\ IsTx(disk'[p].saved.tx)
        <3>1. IsTx(made'[r].tx)
            <4>1. RecordOfRun(made[r], r)'
                BY <2>1 DEF IInv, MadeOnce
            <4>2. PICK d \in Drafts : made'[r] = RecordOf(d.tx, d.packages, d.state)
                BY <4>1 DEF RecordOfRun, RecordOf, IntentHash, Identifiers
            <4>3. made'[r].tx = d.tx
                BY <4>2 DEF RecordOf
            <4> QED BY <4>3, PublicationAssumption
        <3>2. \A p \in Paths : disk'[p] = IF p = PathOf[r] THEN [run |-> r, stage |-> stage, saved |-> made'[r]]
                                        ELSE disk[p]
            BY <2>1 DEF Save, IInv, Shape
        <3> QED BY <3>1, <3>2 DEF Typed, Exists
    <2>2. CASE UNCHANGED disk
        BY <2>2 DEF Typed, Exists
    <2>3. ASSUME NEW r \in Runs, Finalize(r) \/ SendReturns(r) \/ Locate(r) \/ VerifyIncluded(r), disk' # disk
          PROVE  made'[r] # None /\ \E stage \in Stages : Save(r, stage)
        <3>1. \E stage \in Stages : Save(r, stage)
            BY <2>3, EndsOneWay DEF Finalize, SendReturns, Locate, Stages
        <3>2. pc[r] \in Busy /\ (pc[r] # "building" => made' = made)
            BY <2>3 DEF Finalize, SendReturns, Locate, VerifyIncluded, EndRun, Busy
        <3>3. CASE Finalize(r)
            <4>1. PICK d \in Drafts : made' = [made EXCEPT ![r] = RecordOf(d.tx, d.packages, d.state)]
                BY <3>3 DEF Finalize
            <4> QED BY <3>1, <4>1, PublicationAssumption DEF IInv, Shape
        <3>4. CASE pc[r] # "building"
            BY <3>1, <3>2, <3>4 DEF IInv, MadeOnce
        <3>5. Finalize(r) \/ pc[r] # "building"
            BY <2>3 DEF SendReturns, Locate, VerifyIncluded, EndRun
        <3> QED BY <3>3, <3>4, <3>5
    <2>4. UNCHANGED disk
          \/ \E r \in Runs : Finalize(r) \/ SendReturns(r) \/ Locate(r) \/ VerifyIncluded(r)
        BY DEF Next, Step, vars, Tick, ChangeState, Land, Fail, Index, Start, Send, Throws,
            QueryFails, QueryRefused, NotYet, Poll, GiveUp, Crash
    <2> QED BY <2>1, <2>2, <2>3, <2>4
<1>6. /\ DOMAIN found' = Runs
      /\ \A r \in Runs : found'[r] # None =>
            \E n \in DOMAIN chain' : found'[r] \in Reported(chain'[n])
    <2>1. CASE \E q \in Runs : Poll(q)
        <3>0. PICK q \in Runs : Poll(q)
            BY <2>1
        <3>1. PICK n \in Matches(q) : \E answer \in Reported(chain[n]) : found' = [found EXCEPT ![q] = answer]
            BY <3>0 DEF Poll
        <3>2. PICK answer \in Reported(chain[n]) : found' = [found EXCEPT ![q] = answer]
            BY <3>1
        <3>3. n \in DOMAIN chain /\ chain' = chain
            BY <3>0, <3>1 DEF Poll, network, Matches, IInv, Shape
        <3> QED BY <3>2, <3>3 DEF Typed
    <2>2. CASE UNCHANGED found
        BY <1>4, <2>2 DEF Typed
    <2>3. UNCHANGED found \/ \E q \in Runs : Poll(q)
        BY DEF Next, Step, vars, Tick, ChangeState, Land, Fail, Index, Start, Finalize, Send,
            SendReturns, Throws, QueryFails, QueryRefused, NotYet, GiveUp, Locate, VerifyIncluded, EndRun, Crash
    <2> QED BY <2>1, <2>2, <2>3
<1> QED BY <1>1, <1>2, <1>3, <1>4, <1>5, <1>6 DEF Typed

\* Every variable keeps its type: what circulates and lands are transactions, only
\* fallible segments succeed, and what a run found has landed.
THEOREM TypeCorrect == Spec => []TypeOK
<1>1. Init => Typed
    BY PublicationAssumption DEF Init, Typed, Exists, Absent
<1>2. IInv /\ IInv' /\ Typed /\ [Next]_vars => Typed'
    BY StaysTyped
<1>3. IInv /\ Typed => TypeOK
    <2> SUFFICES ASSUME IInv, Typed PROVE TypeOK
        OBVIOUS
    <2>1. \A n \in DOMAIN chain : chain[n].status \in Included \cup {"FAILURE"}
        <3>1. chain \in Seq(ChainEntries)
            BY DEF IInv, Shape
        <3>2. \A n \in DOMAIN chain : chain[n] \in ChainEntries
            BY <3>1
        <3> QED BY <3>2 DEF ChainEntries
    <2>2. indexed \in 0..Len(chain) /\ pc \in [Runs -> {"idle"} \cup Busy \cup Ended]
        BY DEF IInv, Shape
    <2> QED BY <2>1, <2>2 DEF Typed, TypeOK
<1> QED BY <1>1, <1>2, <1>3, Invariance, PTL DEF Spec

-----------------------------------------------------------------------------
(* What the guard accepted is what the reader reads *)

\* A located publication passes verification, unless others made the reader throw or the
\* indexer reported it as something else.
LEMMA LocatedReads ==
    ASSUME MadeOnce, NEW r \in Runs, made[r] # None, IsTx(found[r].tx),
           Locates(found[r].tx, made[r]), ~TooMuch(r), ~IllReported(r)
    PROVE  Reads(r)
<1>1. PICK d \in Drafts : d.run = r /\ made[r].packages = d.packages
    BY MadeIsDraft
<1>2. Home \in Networks /\ OwnHash \in Hashes /\ found[r].status \in Included
    BY PublicationAssumption DEF Home, OwnHash, IllReported
<1>3. Target \in [contract : Contracts, entry : EntryPoints, name : Names]
    BY PublicationAssumption
<1>a. PICK t : t = found[r].tx
    OBVIOUS
<1>b. PICK net \in Networks, h \in Hashes, st \in Included : net = Home /\ h = OwnHash /\ st = found[r].status
    BY <1>2
<1>4. t = found[r].tx /\ net = Home /\ h = OwnHash /\ st = found[r].status
    BY <1>a, <1>b
<1>5. IsTx(t) /\ ~ReadTransaction(t, Target, net, h).error
    BY <1>4 DEF TooMuch
<1>6. ASSUME NEW i \in DOMAIN made[r].packages
      PROVE  LET pkg == made[r].packages[i]
                 verified == VerifiedPackages(t, Target, net, h, st) IN
             \E k \in DOMAIN verified : k.segment = pkg.segment /\ verified[k] = pkg.parts
    <2>1. PICK pkg : pkg = made[r].packages[i]
        OBVIOUS
    <2>2. pkg \in Packages /\ pkg.contract = Target.contract /\ pkg.entry = Target.entry /\ pkg.name = Target.name
        BY <1>1, <2>1, PublicationAssumption, ElementOfSeq
    <2>3. IntentCarries(t, pkg)
        BY <1>4, <2>1 DEF Locates, CarriesAll
    <2>4. \E k \in DOMAIN VerifiedPackages(t, Target, net, h, st) :
                k.segment = pkg.segment /\ VerifiedPackages(t, Target, net, h, st)[k] = pkg.parts
        BY <1>3, <1>5, <2>2, <2>3, GuardedIsVerified
    <2> QED BY <2>1, <2>4
<1> QED BY <1>4, <1>6 DEF Reads, IllReported

\* What is located stays so until the run ends, and a run ends "unverified" only where
\* the indexer reported a failure or another hash.
LocatedPasses ==
    \A r \in Runs :
        /\ pc[r] = "located" => made[r] # None /\ IsTx(found[r].tx) /\ Locates(found[r].tx, made[r])
        /\ pc[r] = "unverified" => IllReported(r)

\* Only VerifyIncluded ends a run "unverified", and LocatedReads says why.
LEMMA LocatedStays ==
    ASSUME IInv, Typed, FoundIsOwn, LocatedPasses, [Next]_vars
    PROVE  LocatedPasses'
<1>1. ASSUME NEW r \in Runs
      PROVE  \/ Locate(r) \/ VerifyIncluded(r)
             \/ /\ pc'[r] \in {"located", "unverified"} => pc'[r] = pc[r]
                /\ pc'[r] \in {"located", "unverified"} => found'[r] = found[r]
    <2>1. CASE UNCHANGED <<pc, found>>
        BY <2>1
    <2>2. ASSUME NEW q \in Runs, NEW x \in {"idle"} \cup Busy \cup Ended,
                 pc' = [pc EXCEPT ![q] = x], q # r \/ x \notin {"located", "unverified"}
          PROVE  pc'[r] \in {"located", "unverified"} => pc'[r] = pc[r]
        BY <2>2 DEF IInv, Shape
    <2>3. ASSUME NEW q \in Runs, Step(q)
          PROVE  <1>1!2
        <3>1. UNCHANGED found \/ Poll(q)
            BY <2>3 DEF Step, Start, Finalize, Send, SendReturns, Throws, QueryFails, QueryRefused,
                NotYet, GiveUp, Locate, VerifyIncluded, EndRun, Crash
        <3>2. pc[r] \in {"located", "unverified"} => found'[r] = found[r]
            BY <3>1 DEF Poll, FoundIsOwn
        <3>3. CASE q = r
            <4>1. CASE Locate(q) \/ VerifyIncluded(q)
                BY <3>3, <4>1
            <4>2. CASE ~(Locate(q) \/ VerifyIncluded(q))
                <5>1. UNCHANGED pc \/ \E x \in {"building", "refused", "finalized", "dry", "sent", "waiting",
                        "failed", "unseen", "found", "crashed"} : pc' = [pc EXCEPT ![q] = x]
                    BY <2>3, <4>2 DEF Step, Start, Finalize, Send, SendReturns, Throws, QueryFails, QueryRefused,
                        NotYet, Poll, GiveUp, Crash, Goto
                <5> QED BY <3>1, <3>2, <3>3, <5>1 DEF IInv, Shape, Poll
            <4> QED BY <4>1, <4>2
        <3>4. CASE q # r
            <4>1. found'[r] = found[r]
                BY <3>1, <3>4 DEF Poll, FoundIsOwn
            <4>2. UNCHANGED pc \/ \E x : pc' = [pc EXCEPT ![q] = x]
                BY <2>3 DEF Step, Start, Finalize, Send, SendReturns, Throws, QueryFails, QueryRefused,
                        NotYet, Poll, GiveUp, Locate, VerifyIncluded, EndRun, Crash, Goto
            <4> QED BY <3>4, <4>1, <4>2 DEF IInv, Shape
        <3> QED BY <3>3, <3>4
    <2>4. CASE Tick \/ ChangeState \/ Land \/ Fail \/ Index \/ UNCHANGED vars
        BY <2>4 DEF Tick, ChangeState, Land, Fail, Index, vars
    <2> QED BY <2>3, <2>4 DEF Next
<1>2. ASSUME NEW r \in Runs, Locate(r)
      PROVE  /\ pc'[r] = "located" => made'[r] # None /\ IsTx(found'[r].tx) /\ Locates(found'[r].tx, made'[r])
             /\ pc'[r] # "unverified"
    <2>1. /\ pc[r] = "found" /\ UNCHANGED <<made, found>>
          /\ pc'[r] = IF Locates(found[r].tx, made[r]) THEN "located" ELSE "absent"
        BY <1>2 DEF Locate, Goto, IInv, Shape
    <2>2. PICK n \in DOMAIN chain : found[r].tx = chain[n].tx /\ Holds(chain[n].tx, r)
        BY <2>1 DEF FoundIsOwn
    <2>3. IsTx(found[r].tx) /\ made[r] # None
        BY <2>2 DEF Typed, Holds
    <2> QED BY <2>1, <2>3
<1>3. ASSUME NEW r \in Runs, VerifyIncluded(r)
      PROVE  pc'[r] # "located" /\ (pc'[r] = "unverified" => found' = found /\ IllReported(r))
    <2>1. pc[r] = "located" /\ pc'[r] = Outcome(r) /\ found' = found
        BY <1>3 DEF VerifyIncluded, EndRun, Goto, IInv, Shape
    <2>2. ~TooMuch(r) /\ ~IllReported(r) => Reads(r)
        BY <2>1, LocatedReads DEF LocatedPasses, IInv
    <2> QED BY <2>1, <2>2 DEF Outcome
<1>4. ASSUME NEW r \in Runs, made[r] # None PROVE made'[r] = made[r]
    BY <1>4, MadeStays
<1>5. ASSUME NEW r \in Runs
      PROVE  /\ pc'[r] = "located" => made'[r] # None /\ IsTx(found'[r].tx) /\ Locates(found'[r].tx, made'[r])
             /\ pc'[r] = "unverified" => IllReported(r)'
    <2>1. CASE pc'[r] \in {"located", "unverified"} => pc'[r] = pc[r] /\ found'[r] = found[r]
        BY <1>4, <2>1 DEF LocatedPasses, IllReported, HashFits, Included
    <2>2. CASE VerifyIncluded(r)
        BY <1>3, <2>2 DEF IllReported, HashFits, Included
    <2> QED BY <1>1, <1>2, <2>1, <2>2
<1>6. LocatedPasses' <=> \A r \in Runs :
            /\ pc'[r] = "located" => made'[r] # None /\ IsTx(found'[r].tx) /\ Locates(found'[r].tx, made'[r])
            /\ pc'[r] = "unverified" => IllReported(r)'
    BY DEF LocatedPasses, IsTx, IsIntentMap, Locates, CarriesAll, IntentCarries, CallCarries, IntentHash,
        Identifiers, IllReported, HashFits, Included
<1> QED BY <1>5, <1>6

\* A publication found by one of its identifiers is located, unless somebody's Zswap
\* offer hides it, and then verified, whatever strangers merged into it within the
\* reader's limits, unless the indexer reported a failure or another hash.
THEOREM FoundIsVerified == DraftsApart /\ Spec => []FoundIsLocated
<1>1. Init => Typed /\ FoundIsOwn /\ LocatedPasses
    BY PublicationAssumption DEF Init, Typed, Exists, Absent, FoundIsOwn, OnlyOffersHide, LocatedPasses
<1>2. IInv /\ IInv' /\ Typed /\ FoundIsOwn /\ LocatedPasses /\ [Next]_vars
            => Typed' /\ FoundIsOwn' /\ LocatedPasses'
    BY StaysTyped, FoundStays, LocatedStays
<1>3. Spec => [](FoundIsOwn /\ LocatedPasses)
    BY <1>1, <1>2, Invariance, PTL DEF Spec
<1>4. ASSUME DraftsApart PROVE [](FoundIsOwn /\ LocatedPasses) => []FoundIsLocated
    <2>1. FoundIsOwn /\ LocatedPasses => FoundIsLocated
        BY <1>4 DEF FoundIsOwn, LocatedPasses, FoundIsLocated
    <2> QED BY <2>1, PTL
<1> QED BY <1>3, <1>4

-----------------------------------------------------------------------------
(* What follows for readers: the promise *)

\* What readers get from a package's intent, once it is on the chain as it was made, is
\* what its message asked for, whichever fallible segments succeed.
LEMMA ContentKept ==
    ASSUME NEW d \in Drafts, CarriesAll(d.tx, d.packages), NEW i \in DOMAIN d.packages,
           NEW e, IntentHash(d.tx, d.packages[i].segment) \in Identifiers(e.tx)
    PROVE  /\ d.run \in Runs /\ DOMAIN d.packages = DOMAIN Asked[d.run]
           /\ Emitted(e, d.packages[i].segment) = Promised[d.run][i]
<1> DEFINE pkg == d.packages[i]
           s == pkg.segment
           actions == d.tx.intents[s].actions
<1>1. /\ d.run \in Runs /\ IsTx(d.tx) /\ d.packages \in Seq(Packages)
      /\ pkg.parts = Asked[d.run][i] /\ pkg.name = Target.name
      /\ Asked[d.run] \in Seq(Seq(Parts)) /\ Len(d.packages) = Len(Asked[d.run])
    BY PublicationAssumption
<1>2. DOMAIN d.packages = DOMAIN Asked[d.run]
    BY <1>1
<1>3. s \in DOMAIN e.tx.intents /\ e.tx.intents[s] = d.tx.intents[s]
    BY DEF Identifiers, IntentHash
<1>4. /\ s \in DOMAIN d.tx.intents /\ Len(actions) = Len(pkg.parts)
      /\ \A k \in DOMAIN pkg.parts : CallCarries(actions[k], pkg, k)
    BY DEF CarriesAll, IntentCarries
<1>5. DOMAIN actions = DOMAIN pkg.parts
    <2>1. d.tx.intents[s] \in Intents
        BY <1>1, <1>4 DEF IsTx, IsIntentMap
    <2>2. actions \in Seq(Actions)
        BY <2>1 DEF Intents
    <2>3. pkg.parts \in Seq(Parts)
        BY <1>1, <1>2
    <2> QED BY <1>4, <2>2, <2>3
<1> HIDE DEF actions, pkg, s
<1>6. \A k \in DOMAIN actions : /\ Logged(actions[k].guaranteed) = <<Misc(pkg.name, pkg.parts[k])>>
                                /\ Logged(actions[k].fallible) = <<>>
    BY <1>4, <1>5 DEF CallCarries, Logged
<1>7. FallibleAt(e.tx, s) = {}
    BY <1>3, <1>6 DEF FallibleAt, actions
<1>8. GuaranteedAt(e.tx, s) = {<<k, 1, Misc(pkg.name, pkg.parts[k])>> : k \in DOMAIN pkg.parts}
    <2>1. GuaranteedAt(e.tx, s) = UNION {{<<k, j, Logged(actions[k].guaranteed)[j]>> :
                    j \in DOMAIN Logged(actions[k].guaranteed)} : k \in DOMAIN actions}
        BY <1>3 DEF GuaranteedAt, actions
    <2>2. \A k \in DOMAIN actions :
            {<<k, j, Logged(actions[k].guaranteed)[j]>> : j \in DOMAIN Logged(actions[k].guaranteed)}
                = {<<k, 1, Misc(pkg.name, pkg.parts[k])>>}
        BY <1>6
    <2>3. GuaranteedAt(e.tx, s) = UNION {{<<k, 1, Misc(pkg.name, pkg.parts[k])>>} : k \in DOMAIN actions}
        BY <2>1, <2>2
    <2> QED BY <1>5, <2>3
<1>9. Emitted(e, s) = [guaranteed |-> {<<k, 1, Misc(Target.name, Asked[d.run][i][k])>> :
                                            k \in DOMAIN Asked[d.run][i]}, fallible |-> {}]
    BY <1>1, <1>7, <1>8 DEF Emitted, pkg
<1>10. Promised[d.run][i] = [guaranteed |-> {<<k, 1, Misc(Target.name, Asked[d.run][i][k])>> :
                                            k \in DOMAIN Asked[d.run][i]}, fallible |-> {}]
    BY <1>1, <1>2 DEF Promised
<1> QED BY <1>1, <1>2, <1>9, <1>10 DEF s, pkg

LandedRuns == {r \in Runs : Landed(r)}

\* The board shows, of every publication that landed, every package as asked for, and
\* nothing else.
LEMMA BoardIsLanded ==
    IInv /\ DraftsApart => Board = UNION {Promise!PackagesOf(r) : r \in LandedRuns}
<1> SUFFICES ASSUME IInv, DraftsApart
             PROVE  Board = UNION {Promise!PackagesOf(r) : r \in LandedRuns}
    OBVIOUS
<1>1. ASSUME NEW n \in InEffect, NEW r \in Runs, made[r] # None,
             NEW i \in DOMAIN made[r].packages, made[r].hashes[i] \in Identifiers(chain[n].tx)
      PROVE  /\ r \in LandedRuns /\ i \in DOMAIN Promised[r]
             /\ Emitted(chain[n], made[r].packages[i].segment) = Promised[r][i]
    <2>1. PICK d \in Drafts :
            /\ d.run = r /\ CarriesAll(d.tx, d.packages) /\ made[r] = RecordOf(d.tx, d.packages, d.state)
            /\ made[r].identifiers = Identifiers(d.tx) /\ made[r].packages = d.packages
        BY <1>1, MadeIsDraft DEF IInv
    <2>2. made[r].hashes[i] = IntentHash(d.tx, d.packages[i].segment)
        BY <1>1, <2>1 DEF RecordOf
    <2>3. d.packages[i].segment \in DOMAIN d.tx.intents
        BY <1>1, <2>1 DEF CarriesAll, IntentCarries
    <2>4. made[r].hashes[i] \in made[r].identifiers
        BY <2>1, <2>2, <2>3 DEF Identifiers
    <2>5. Landed(r)
        BY <1>1, <2>4 DEF Landed, Holds
    <2>6. /\ DOMAIN d.packages = DOMAIN Asked[r]
          /\ Emitted(chain[n], d.packages[i].segment) = Promised[r][i]
        BY <1>1, <2>1, <2>2, ContentKept
    <2>7. DOMAIN Promised[r] = DOMAIN Asked[r]
        BY DEF Promised
    <2> QED BY <1>1, <2>1, <2>5, <2>6, <2>7 DEF LandedRuns
<1>2. ASSUME NEW r \in LandedRuns, NEW i \in DOMAIN Promised[r]
      PROVE  /\ made[r] # None /\ i \in DOMAIN made[r].packages
             /\ \E n \in InEffect : made[r].hashes[i] \in Identifiers(chain[n].tx)
    <2>1. PICK n \in InEffect : Holds(chain[n].tx, r)
        BY DEF LandedRuns, Landed
    <2>2. PICK d \in Drafts :
            /\ d.run = r /\ CarriesAll(d.tx, d.packages) /\ made[r] = RecordOf(d.tx, d.packages, d.state)
            /\ made[r].tx = d.tx /\ made[r].identifiers = Identifiers(d.tx)
            /\ made[r].packages = d.packages
        BY <2>1, MadeIsDraft DEF IInv, Holds, LandedRuns
    <2>3. Identifiers(d.tx) \subseteq Identifiers(chain[n].tx)
        BY <2>1, <2>2 DEF IInv, ChainIsWhole, InEffect, Share, Holds
    <2>4. i \in DOMAIN d.packages
        <3>1. DOMAIN Promised[r] = DOMAIN Asked[r]
            BY DEF Promised, LandedRuns
        <3>2. DOMAIN d.packages = DOMAIN Asked[r]
            BY <2>2, PublicationAssumption
        <3> QED BY <3>1, <3>2
    <2>5. made[r].hashes[i] = IntentHash(d.tx, d.packages[i].segment)
        BY <2>2, <2>4 DEF RecordOf
    <2>6. d.packages[i].segment \in DOMAIN d.tx.intents
        BY <2>2, <2>4 DEF CarriesAll, IntentCarries
    <2>7. made[r].hashes[i] \in Identifiers(chain[n].tx)
        BY <2>3, <2>5, <2>6 DEF Identifiers
    <2> QED BY <2>1, <2>2, <2>4, <2>7 DEF Holds
<1>3. ASSUME NEW m \in Board
      PROVE  m \in UNION {Promise!PackagesOf(r) : r \in LandedRuns}
    <2>1. PICK n \in InEffect, r \in Runs : \E i \in DOMAIN made[r].packages :
            /\ made[r] # None /\ made[r].hashes[i] \in Identifiers(chain[n].tx)
            /\ m = [pub |-> r, index |-> i,
                    content |-> Emitted(chain[n], made[r].packages[i].segment)]
        BY DEF Board
    <2>2. PICK i \in DOMAIN made[r].packages :
            /\ made[r] # None /\ made[r].hashes[i] \in Identifiers(chain[n].tx)
            /\ m = [pub |-> r, index |-> i,
                    content |-> Emitted(chain[n], made[r].packages[i].segment)]
        BY <2>1
    <2>3. m \in Promise!PackagesOf(r) /\ r \in LandedRuns
        BY <1>1, <2>2 DEF Promise!PackagesOf
    <2> QED BY <2>3
<1>4. ASSUME NEW r \in LandedRuns, NEW m \in Promise!PackagesOf(r)
      PROVE  m \in Board
    <2>1. PICK i \in DOMAIN Promised[r] : m = [pub |-> r, index |-> i, content |-> Promised[r][i]]
        BY DEF Promise!PackagesOf
    <2>2. PICK n \in InEffect :
            /\ made[r] # None /\ i \in DOMAIN made[r].packages
            /\ made[r].hashes[i] \in Identifiers(chain[n].tx)
        BY <1>2
    <2>3. r \in Runs /\ m = [pub |-> r, index |-> i,
                             content |-> Emitted(chain[n], made[r].packages[i].segment)]
        BY <1>1, <2>1, <2>2 DEF LandedRuns
    <2> QED BY <2>2, <2>3 DEF Board
<1> QED BY <1>3, <1>4

\* A record that says "verified" is true of the chain: every package is there, as asked.
THEOREM VerifiedRecordsAreTrue == DraftsApart /\ Spec => []VerifiedIsPublished
<1>1. ASSUME DraftsApart, IInv PROVE VerifiedIsPublished
    <2> SUFFICES ASSUME NEW p \in Paths, disk[p].stage = "verified"
                 PROVE  Promise!PackagesOf(disk[p].run) \subseteq Board
        BY DEF VerifiedIsPublished
    <2>1. disk[p].run \in LandedRuns
        BY <1>1 DEF IInv, FoundIsLanded, LandedRuns
    <2> QED BY <1>1, <2>1, BoardIsLanded
<1>2. ASSUME DraftsApart PROVE []IInv => []VerifiedIsPublished
    <2>1. IInv => VerifiedIsPublished
        BY <1>1, <1>2
    <2> QED BY <2>1, PTL
<1> QED BY <1>2, Invariance

\* Which runs have landed only changes when a transaction lands, and then by runs whose
\* whole publication it holds.
LEMMA LandsTogether ==
    ASSUME IInv, IInv', DraftsApart, [Next]_vars
    PROVE  \E ps \in SUBSET Runs : LandedRuns' = LandedRuns \cup ps /\ ps \cap LandedRuns = {}
<1>1. CASE chain' = chain
    <2>1. ASSUME NEW r \in Runs PROVE Landed(r)' <=> Landed(r)
        <3>1. CASE made'[r] = made[r]
            BY <1>1, <3>1 DEF Landed, InEffect, Included, Holds, Identifiers, IntentHash
        <3>2. CASE made[r] = None
            <4>1. ~Landed(r)
                BY <3>2 DEF Landed, InEffect, Included, Holds
            <4>2. ASSUME Landed(r)' PROVE FALSE
                <5>1. PICK n \in DOMAIN chain : Holds(chain[n].tx, r)'
                    BY <1>1, <4>2 DEF Landed, InEffect, Included
                <5>2. made'[r] # None /\ made'[r].identifiers \cap Identifiers(chain[n].tx) # {}
                    BY <1>1, <5>1 DEF Holds, Identifiers, IntentHash
                <5>3. PICK d \in Drafts : d.run = r /\ made'[r] = RecordOf(d.tx, d.packages, d.state)
                    BY <5>2 DEF IInv, MadeOnce, RecordOfRun
                <5>4. Share(d.tx, chain[n].tx)
                    BY <5>2, <5>3 DEF RecordOf, Share
                <5> QED BY <3>2, <5>3, <5>4 DEF IInv, ChainIsWhole
            <4> QED BY <4>1, <4>2
        <3> QED BY <3>1, <3>2, MadeStays
    <2>2. LandedRuns' = LandedRuns \cup {} /\ {} \cap LandedRuns = {}
        BY <2>1 DEF LandedRuns
    <2> QED BY <2>2
<1>2. CASE Land \/ Fail
    <2>1. PICK e \in Circulating, n \in Nat :
            /\ DOMAIN chain' = DOMAIN chain \cup {n}
            /\ chain'[n].tx = e.tx /\ (chain'[n].status \in Included => Unspent(e.tx))
            /\ \A m \in DOMAIN chain : chain'[m] = chain[m]
            /\ n \notin DOMAIN chain
        BY <1>2, LandsOne DEF IInv
    <2> DEFINE ps == {r \in Runs : Holds(e.tx, r) /\ chain'[n].status \in Included}
    <2>2. made' = made
        BY <1>2 DEF Land, Fail
    <2>3. ASSUME NEW r \in Runs PROVE Landed(r)' <=> Landed(r) \/ r \in ps
        BY <2>1, <2>2 DEF Landed, InEffect, Included, Holds, Identifiers, IntentHash
    <2>4. ASSUME NEW r \in ps PROVE r \notin LandedRuns
        <3>1. made[r] # None /\ Share(made[r].tx, e.tx) /\ r \in Runs /\ Unspent(e.tx)
            BY <2>1, HoldsIsShare DEF IInv
        <3>2. PICK d \in Drafts :
                d.run = r /\ made[r].tx = d.tx /\ made[r].identifiers = Identifiers(d.tx)
            BY <3>1, MadeIsDraft DEF IInv
        <3>3. Identifiers(made[r].tx) \subseteq Identifiers(e.tx)
            BY <3>1, <3>2, CirculatesWhole DEF IInv
        <3>4. ASSUME NEW m \in InEffect PROVE ~Holds(chain[m].tx, r)
            BY <3>1, <3>2, <3>3 DEF Unspent, Holds
        <3> QED BY <3>4 DEF LandedRuns, Landed
    <2>5. LandedRuns' = LandedRuns \cup ps /\ ps \cap LandedRuns = {} /\ ps \in SUBSET Runs
        BY <2>3, <2>4 DEF LandedRuns
    <2> QED BY <2>5
<1> QED BY <1>1, <1>2, ChainStays

\* Every step publishes some runs as a whole that were not published before, or nothing.
LEMMA StepKeepsPromise ==
    ASSUME IInv, IInv', DraftsApart, [Next]_vars
    PROVE  [Promise!Next]_Board
<1>1. PICK ps \in SUBSET Runs : LandedRuns' = LandedRuns \cup ps /\ ps \cap LandedRuns = {}
    BY LandsTogether
<1>2. Board = UNION {Promise!PackagesOf(r) : r \in LandedRuns}
    BY BoardIsLanded
<1>3. Board' = UNION {Promise!PackagesOf(r) : r \in LandedRuns'}
    <2>1. (IInv /\ DraftsApart => Board = UNION {Promise!PackagesOf(r) : r \in LandedRuns})'
        BY BoardIsLanded, PTL
    <2> QED BY <2>1 DEF DraftsApart, Share, Identifiers, IntentHash, Promise!PackagesOf, Promised
<1>4. Board' = Board \cup UNION {Promise!PackagesOf(r) : r \in ps}
    BY <1>1, <1>2, <1>3
<1>5. \A p \in ps : ~Promise!OnBoard(p)
    <2> SUFFICES ASSUME NEW p \in ps, NEW m \in Board, m.pub = p PROVE FALSE
        BY DEF Promise!OnBoard
    <2>1. PICK r \in LandedRuns : m \in Promise!PackagesOf(r)
        BY <1>2
    <2>2. m.pub = r
        BY <2>1 DEF Promise!PackagesOf
    <2> QED BY <1>1, <2>1, <2>2
<1>6. CASE ps = {}
    BY <1>4, <1>6
<1>7. CASE ps # {}
    <2>1. ps \in (SUBSET Runs) \ {{}}
        BY <1>7
    <2>2. (\A p \in ps : ~Promise!OnBoard(p)) /\ Board' = Board \cup UNION {Promise!PackagesOf(p) : p \in ps}
        BY <1>4, <1>5
    <2> QED BY <2>1, <2>2 DEF Promise!Next, Promise!Publish
<1> QED BY <1>6, <1>7

\* Publishing keeps its promise for every instance: each publication's packages become
\* visible all together, whole, as asked for, and at most once, however transactions are
\* merged, delayed, dropped or fail in part, and wherever a run crashes.
THEOREM PublishingIsAtomic == DraftsApart /\ Spec => ImplementsPromise
<1>1. Init => Promise!Init
    BY DEF Init, Board, InEffect, Promise!Init
<1>2. ASSUME DraftsApart PROVE IInv /\ IInv' /\ [Next]_vars => [Promise!Next]_Board
    BY <1>2, StepKeepsPromise
<1>3. ASSUME DraftsApart PROVE Spec => ImplementsPromise
    <2>1. IInv /\ IInv' /\ [Next]_vars => [Promise!Next]_Board
        BY <1>2, <1>3
    <2> QED BY <1>1, <2>1, Invariance, PTL DEF Spec, ImplementsPromise, Promise!Spec
<1> QED BY <1>3
=============================================================================
