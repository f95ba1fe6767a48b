---------------------------- MODULE PublisherProofs ----------------------------
(***************************************************************************)
(* Theorems of Publisher for every instance: type correctness, and what    *)
(* reaches the network whatever the providers answer and whatever happens  *)
(* to the saved record.                                                    *)
(***************************************************************************)
EXTENDS Publisher, TLAPS

-----------------------------------------------------------------------------
(* The inductive invariant, in named parts *)

\* The pinned block exists once anything has been read at it, and every snapshot
\* is a contract's state there.
SnapshotsPinned ==
    /\ stage \notin {"idle", "pinning", "failed"} => block # 0
    /\ \A c \in DOMAIN snapshots : block # 0 /\ snapshots[c] = chain[block][c]

\* Nothing is read before the block is pinned, nothing assembled before the
\* states are read.
NothingEarly ==
    /\ stage \in {"idle", "pinning"} => DOMAIN snapshots = {}
    /\ stage \in {"idle", "pinning", "reading"} => packages = <<>>

\* Every contract of the requests has been read when assembly starts.
AllRead ==
    stage = "assembling" => \A i \in DOMAIN requests : requests[i].contract \in DOMAIN snapshots

\* The packages assembled so far are the first requests, at intents of the
\* transaction.
PackagesFollowRequests ==
    /\ Len(packages) <= Len(requests)
    /\ stage = "assembling" => Len(packages) < Len(requests)
    /\ \A i \in DOMAIN packages :
        /\ packages[i].contract = requests[i].contract
        /\ packages[i].name = requests[i].name
        /\ packages[i].parts = requests[i].parts
        /\ packages[i].segment \in DOMAIN tx.intents

Assembled == {"built", "proving", "balancing", "finalized", "submitted"}

\* From assembly on the checked transaction carries every package unchanged.
CheckedCarries ==
    stage \in Assembled => Len(packages) = Len(requests) /\ CarriesFrozen(tx, packages, frozen)

\* The finalized record is that of the last checked transaction; what lies on disk is
\* it, or it altered, and matched its own bytes when those were submitted.
RecordFollowsTx ==
    /\ stage \in {"finalized", "submitted"} =>
        /\ final = RecordOf(tx, packages, block)
        /\ tx.form = "bound"
        /\ Cost(tx) <= BlockLimit
        /\ record = final \/ Altered(record, final)
    /\ stage = "submitted" => MatchesRecord(record) /\ submitted = tx
    /\ stage # "submitted" => submitted = None

\* Every package call of the checked transaction was run at the pinned block.
TxPinned ==
    \A i \in DOMAIN packages : \A k \in DOMAIN tx.intents[packages[i].segment].actions :
        tx.intents[packages[i].segment].actions[k].guaranteed.reads
            = chain[block][packages[i].contract]

BlockBeforePackages == packages # <<>> => block # 0

IInv ==
    /\ TypeOK
    /\ SnapshotsPinned
    /\ NothingEarly
    /\ AllRead
    /\ PackagesFollowRequests
    /\ CheckedCarries
    /\ RecordFollowsTx
    /\ TxPinned
    /\ BlockBeforePackages

-----------------------------------------------------------------------------
(* Lemmas about the data *)

\* Putting a typed intent at a segment keeps the map typed (addCalls).
LEMMA PutIntentType ==
    ASSUME NEW f, IsIntentMap(f), NEW s \in Segments, NEW i \in Intents
    PROVE  IsIntentMap(PutIntent(f, s, i))
BY DEF IsIntentMap, PutIntent

\* Dropping an intent keeps the map typed (a provider that loses one).
LEMMA DropIntentType ==
    ASSUME NEW f, IsIntentMap(f), NEW s
    PROVE  IsIntentMap(DropIntent(f, s))
BY DEF IsIntentMap, DropIntent

\* Whatever a provider answers about a transaction is a transaction.
LEMMA AnswersType ==
    ASSUME NEW t, IsTx(t), NEW u \in Answers(t)
    PROVE  IsTx(u)
<1> DEFINE maps == {t.intents}
                \cup {DropIntent(t.intents, s) : s \in DOMAIN t.intents}
                \cup {PutIntent(t.intents, s, i) : s \in Segments, i \in StrayIntents}
                \cup {PutIntent(DropIntent(t.intents, s), v, t.intents[s]) :
                        s \in DOMAIN t.intents, v \in Segments}
<1>1. u \in [intents : maps,
             zswap : {t.zswap} \cup {t.zswap \cup {s} : s \in DOMAIN t.intents},
             form : Forms]
    BY DEF Answers
<1>2. ASSUME NEW f \in maps PROVE IsIntentMap(f)
    <2>1. IsIntentMap(t.intents) /\ StrayIntents \subseteq Intents
        BY PublisherAssumption DEF IsTx
    <2>2. CASE f = t.intents
        BY <2>1, <2>2
    <2>3. CASE \E s \in DOMAIN t.intents : f = DropIntent(t.intents, s)
        BY <2>1, <2>3, DropIntentType
    <2>4. CASE \E s \in Segments, i \in StrayIntents : f = PutIntent(t.intents, s, i)
        BY <2>1, <2>4, PutIntentType
    <2>5. ASSUME NEW s \in DOMAIN t.intents, NEW v \in Segments,
                 f = PutIntent(DropIntent(t.intents, s), v, t.intents[s])
          PROVE  IsIntentMap(f)
        <3>1. t.intents[s] \in Intents
            BY <2>1 DEF IsIntentMap
        <3>2. IsIntentMap(DropIntent(t.intents, s))
            BY <2>1, DropIntentType
        <3> QED BY <2>5, <3>1, <3>2, PutIntentType
    <2> QED BY <2>2, <2>3, <2>4, <2>5
<1>3. u.zswap \subseteq Segments
    BY <1>1 DEF IsTx, IsIntentMap
<1>4. u = [intents |-> u.intents, zswap |-> u.zswap, form |-> u.form] /\ u.form \in Forms
    BY <1>1
<1> QED BY <1>1, <1>2, <1>3, <1>4 DEF IsTx

\* The intent made of executions that pass checkExecution is a typed intent.
LEMMA IntentOfType ==
    ASSUME NEW r \in Requests, NEW st \in States, NEW runs,
           DOMAIN runs = DOMAIN r.parts,
           \A k \in DOMAIN r.parts : ExecutionOK(runs[k], r, r.parts[k])
    PROVE  IntentOf(runs, st) \in Intents
<1> DEFINE actions == [k \in DOMAIN runs |-> CallOf(runs[k], st)]
<1>1. r.parts \in Seq(Parts) /\ r.contract \in Contracts /\ r.entry \in EntryPoints /\ r.name \in Names
    BY DEF Requests
<1>2. ASSUME NEW k \in DOMAIN r.parts PROVE CallOf(runs[k], st) \in Actions
    <2>1. runs[k].contract = r.contract /\ runs[k].entry = r.entry
          /\ runs[k].events = <<Misc(r.name, r.parts[k])>>
        BY DEF ExecutionOK
    <2>2. r.parts[k] \in Parts
        BY <1>1
    <2>3. Misc(r.name, r.parts[k]) \in Logs
        BY <1>1, <2>2 DEF Misc, Logs, MiscLogs
    <2>4. runs[k].events \in Seq(Logs)
        BY <2>1, <2>3
    <2>5. [logs |-> runs[k].events, reads |-> st] \in Transcripts
        BY <2>4 DEF Transcripts
    <2> QED BY <1>1, <2>1, <2>5 DEF CallOf, Actions
<1>3. actions \in [1..Len(r.parts) -> Actions]
    BY <1>1, <1>2
<1>4. actions \in Seq(Actions)
    BY <1>1, <1>3
<1> QED BY <1>4 DEF IntentOf, Intents

\* Transactions t and u hold the same guaranteed transcripts in the packages' intents.
AgreeOn(t, u, pkgs) ==
    \A i \in DOMAIN pkgs : \A k \in DOMAIN t.intents[pkgs[i].segment].actions :
        /\ k \in DOMAIN u.intents[pkgs[i].segment].actions
        /\ t.intents[pkgs[i].segment].actions[k].guaranteed
             = u.intents[pkgs[i].segment].actions[k].guaranteed

\* Two transactions that pass the check against the same frozen transcripts hold
\* the same guaranteed transcripts in every package's intent.
LEMMA FrozenAgree ==
    ASSUME NEW t, IsTx(t), NEW u, IsTx(u), NEW pkgs \in Seq(Packages), NEW fz,
           CarriesFrozen(t, pkgs, fz), CarriesFrozen(u, pkgs, fz)
    PROVE  AgreeOn(t, u, pkgs)
<1> USE DEF AgreeOn
<1> TAKE i \in DOMAIN pkgs
<1> TAKE k \in DOMAIN t.intents[pkgs[i].segment].actions
<1>1. IntentCarries(t, pkgs[i]) /\ IntentCarries(u, pkgs[i])
    BY DEF CarriesFrozen, CarriesAll
<1>2. pkgs[i] \in Packages
    OBVIOUS
<1>3. t.intents[pkgs[i].segment] \in Intents /\ u.intents[pkgs[i].segment] \in Intents
    BY <1>1 DEF IntentCarries, IsTx, IsIntentMap
<1>4. DOMAIN t.intents[pkgs[i].segment].actions = DOMAIN pkgs[i].parts
    BY <1>1, <1>2, <1>3 DEF IntentCarries, Intents, Packages
<1>5. DOMAIN u.intents[pkgs[i].segment].actions = DOMAIN pkgs[i].parts
    BY <1>1, <1>2, <1>3 DEF IntentCarries, Intents, Packages
<1> QED BY <1>4, <1>5 DEF CarriesFrozen

\* A transaction that carries every package, the packages being the requests,
\* publishes every request: the guard is enough.
LEMMA CarriesPublishes ==
    ASSUME NEW t, IsTx(t), packages \in Seq(Packages), requests \in Seq(Requests),
           PackagesFollowRequests, Len(packages) = Len(requests), CarriesAll(t, packages)
    PROVE  PublishesRequests(t)
<1>1. \A i, j \in DOMAIN packages : i # j => packages[i].segment # packages[j].segment
    BY DEF CarriesAll
<1>2. ASSUME NEW i \in DOMAIN requests
      PROVE  LET s == packages[i].segment IN
             /\ s \in DOMAIN t.intents /\ s \notin t.zswap
             /\ GuaranteedAt(t, s) = {<<k, 1, Misc(requests[i].name, requests[i].parts[k])>> :
                                        k \in DOMAIN requests[i].parts}
             /\ FallibleAt(t, s) = {}
    <2> DEFINE s == packages[i].segment
               acts == t.intents[s].actions
    <2>1. i \in DOMAIN packages /\ packages[i] \in Packages
        OBVIOUS
    <2>2. IntentCarries(t, packages[i])
        BY <2>1 DEF CarriesAll
    <2>3. s \in DOMAIN t.intents /\ s \notin t.zswap /\ t.intents[s] \in Intents
        BY <2>2 DEF IntentCarries, IsTx, IsIntentMap
    <2>4. packages[i].parts = requests[i].parts /\ packages[i].name = requests[i].name
        BY <2>1 DEF PackagesFollowRequests
    <2>5. DOMAIN acts = DOMAIN requests[i].parts
        BY <2>1, <2>2, <2>3, <2>4 DEF IntentCarries, Intents, Packages
    <2>6. ASSUME NEW k \in DOMAIN acts
          PROVE  /\ Logged(acts[k].guaranteed) = <<Misc(requests[i].name, requests[i].parts[k])>>
                 /\ Logged(acts[k].fallible) = <<>>
        BY <2>2, <2>4, <2>5 DEF IntentCarries, CallCarries, Logged
    <2>7. FallibleAt(t, s) = {}
        BY <2>6 DEF FallibleAt
    <2>8. ASSUME NEW k \in DOMAIN acts
          PROVE  {<<k, j, Logged(acts[k].guaranteed)[j]>> : j \in DOMAIN Logged(acts[k].guaranteed)}
                   = {<<k, 1, Misc(requests[i].name, requests[i].parts[k])>>}
        <3> DEFINE v == Misc(requests[i].name, requests[i].parts[k])
        <3>1. Logged(acts[k].guaranteed) = <<v>>
            BY <2>6
        <3> HIDE DEF v
        <3>2. DOMAIN <<v>> = {1} /\ <<v>>[1] = v
            OBVIOUS
        <3> QED BY <3>1, <3>2 DEF v
    <2>9. GuaranteedAt(t, s) = {<<k, 1, Misc(requests[i].name, requests[i].parts[k])>> :
                                    k \in DOMAIN requests[i].parts}
        BY <2>5, <2>8 DEF GuaranteedAt
    <2> QED BY <2>3, <2>7, <2>9
<1> QED BY <1>1, <1>2 DEF PublishesRequests

\* An entry that fits an intent as a package of the transaction does is that package.
LEMMA EntryDetermined ==
    ASSUME NEW t, IsTx(t), NEW p \in Packages, NEW e \in Packages, e.segment = p.segment,
           IntentCarries(t, p), IntentCarries(t, e)
    PROVE  e = p
<1> DEFINE acts == t.intents[p.segment].actions
<1>1. /\ p.parts \in Seq(Parts) /\ e.parts \in Seq(Parts) /\ p.parts # <<>> /\ e.parts # <<>>
      /\ Len(acts) = Len(p.parts) /\ Len(acts) = Len(e.parts)
    BY DEF IntentCarries, Packages
<1>2. DOMAIN p.parts = DOMAIN e.parts /\ 1 \in DOMAIN p.parts
    <2>1. Len(p.parts) = Len(e.parts)
        BY <1>1
    <2> HIDE DEF acts
    <2>2. \A q \in Seq(Parts) : DOMAIN q = 1..Len(q) /\ Len(q) \in Nat /\ (q # <<>> => Len(q) > 0)
        OBVIOUS
    <2> QED BY <1>1, <2>1, <2>2
<1>3. ASSUME NEW k \in DOMAIN p.parts
      PROVE  CallCarries(acts[k], p, k) /\ CallCarries(acts[k], e, k)
    BY <1>2 DEF IntentCarries
<1> HIDE DEF acts
<1>4. ASSUME NEW k \in DOMAIN p.parts
      PROVE  e.name = p.name /\ e.parts[k] = p.parts[k]
    <2>1. <<Misc(p.name, p.parts[k])>> = <<Misc(e.name, e.parts[k])>>
        BY <1>3 DEF CallCarries
    <2>2. Misc(p.name, p.parts[k]) = Misc(e.name, e.parts[k])
        BY <2>1
    <2> QED BY <2>2 DEF Misc
<1>5. e.contract = p.contract /\ e.entry = p.entry
    BY <1>2, <1>3 DEF CallCarries
<1>6. e.parts = p.parts
    BY <1>1, <1>2, <1>4
<1>7. e.name = p.name
    BY <1>2, <1>4
<1> QED BY <1>5, <1>6, <1>7 DEF Packages

\* Record a holds entries of these packages only, with the hashes of their intents.
HoldsEntriesOf(a, t, pkgs) ==
    /\ a.packages # <<>>
    /\ \A i \in DOMAIN a.packages : \E j \in DOMAIN pkgs :
            a.packages[i] = pkgs[j] /\ a.hashes[i] = IntentHash(t, pkgs[j].segment)

\* submitRecord's re-check accepts an altered record only if what is altered is what it
\* does not compare.
LEMMA StillFinal ==
    ASSUME NEW t, IsTx(t), NEW pkgs \in Seq(Packages), CarriesAll(t, pkgs), NEW b, NEW a,
           a = RecordOf(t, pkgs, b) \/ Altered(a, RecordOf(t, pkgs, b)), MatchesRecord(a)
    PROVE  a.tx = t /\ a.hash = t /\ a.identifiers = Identifiers(t) /\ HoldsEntriesOf(a, t, pkgs)
<1> DEFINE r == RecordOf(t, pkgs, b)
           hs == [i \in DOMAIN pkgs |-> IntentHash(t, pkgs[i].segment)]
           Goal == a.tx = t /\ a.hash = t /\ a.identifiers = Identifiers(t) /\ HoldsEntriesOf(a, t, pkgs)
<1>r. r \in [tx : {t}, hash : {t}, identifiers : {Identifiers(t)}, packages : {pkgs}, hashes : {hs},
             context : {b}]
    BY DEF RecordOf
<1>a. (a = r \/ Altered(a, r)) /\ MatchesRecord(a)
    OBVIOUS
<1> HIDE DEF r
<1>p. r.packages = pkgs /\ r.hashes = hs /\ DOMAIN hs = DOMAIN pkgs /\ pkgs # <<>>
    BY <1>r DEF CarriesAll
<1>0. ASSUME a = r PROVE Goal
    <2>1. a.packages = pkgs /\ \A i \in DOMAIN pkgs : a.hashes[i] = IntentHash(t, pkgs[i].segment)
        BY <1>0, <1>p
    <2>2. HoldsEntriesOf(a, t, pkgs)
        BY <1>p, <2>1 DEF HoldsEntriesOf
    <2> QED BY <1>0, <1>r, <2>2
<1>1. ASSUME NEW u \in Answers(r.tx), a = [r EXCEPT !.tx = u]
      PROVE  a = r
    <2>1. a.tx = u /\ a.hash = t
        BY <1>r, <1>1
    <2>2. u = t
        BY <2>1, <1>a DEF MatchesRecord
    <2>3. [r EXCEPT !.tx = t] = r
        BY <1>r
    <2> QED BY <1>1, <2>2, <2>3, Zenon
<1>2. ASSUME a = [r EXCEPT !.hash = EmptyTx]
      PROVE  a = r
    <2>1. a.hash = EmptyTx /\ a.tx = t
        BY <1>2, <1>r
    <2>2. a.hash = a.tx /\ a.tx.form = "bound"
        BY <1>a DEF MatchesRecord
    <2> QED BY <2>1, <2>2 DEF EmptyTx
<1>3. ASSUME NEW id \in r.identifiers, a = [r EXCEPT !.identifiers = r.identifiers \ {id}]
      PROVE  a = r
    <2>1. a.identifiers = Identifiers(t) \ {id} /\ a.tx = t /\ id \in Identifiers(t)
        BY <1>r, <1>3
    <2> QED BY <2>1, <1>a DEF MatchesRecord
<1>4. ASSUME NEW k \in DOMAIN r.packages, NEW e \in Rewritten(r.packages[k]), a = [r EXCEPT !.packages[k] = e]
      PROVE  a = r
    <2>k. k \in DOMAIN pkgs /\ pkgs[k] \in Packages /\ e \in Rewritten(pkgs[k])
        BY <1>p
    <2>1. a.tx = t /\ a.hashes[k] = IntentHash(t, pkgs[k].segment) /\ a.packages = [pkgs EXCEPT ![k] = e]
        BY <2>k, <1>4, <1>r
    <2>2. k \in DOMAIN a.packages /\ a.packages[k] = e
        BY <2>k, <2>1
    <2>3. IntentHash(t, e.segment) = IntentHash(t, pkgs[k].segment)
        BY <2>1, <2>2, <1>a DEF MatchesRecord
    <2>4. e.segment = pkgs[k].segment
        BY <2>3 DEF IntentHash
    <2>5. IntentCarries(t, pkgs[k]) /\ IntentCarries(t, e)
        BY <2>k, <2>1, <2>2, <1>a DEF MatchesRecord, CarriesAll
    <2>6. pkgs[k].parts \in Seq(Parts) /\ pkgs[k].parts # <<>>
        BY <2>k, <2>5 DEF IntentCarries, Packages
    <2>7. e \in Packages
        <3>1. Tail(pkgs[k].parts) \in Seq(Parts)
            BY <2>6
        <3> QED BY <2>k, <3>1 DEF Rewritten, Packages
    <2>8. e = pkgs[k]
        BY <2>k, <2>4, <2>5, <2>7, EntryDetermined
    <2>9. [pkgs EXCEPT ![k] = pkgs[k]] = pkgs
        OBVIOUS
    <2> QED BY <1>4, <2>1, <2>8, <2>9, <1>r
<1>5. ASSUME NEW k \in DOMAIN r.packages, NEW j \in DOMAIN r.packages, a = [r EXCEPT !.hashes[k] = r.hashes[j]]
      PROVE  a = r
    <2>k. k \in DOMAIN pkgs
        BY <1>p
    <2>1. a.tx = t /\ a.packages = pkgs /\ a.hashes[k] = IntentHash(t, pkgs[j].segment)
        BY <2>k, <1>5, <1>p, <1>r
    <2>2. IntentHash(t, pkgs[k].segment) = IntentHash(t, pkgs[j].segment)
        BY <2>k, <2>1, <1>a DEF MatchesRecord
    <2>3. k = j
        BY <2>k, <1>p, <2>2 DEF IntentHash, CarriesAll
    <2> QED BY <2>k, <1>5, <1>p, <2>3, <1>r
<1>6. ASSUME NEW k \in DOMAIN r.packages,
             a = [r EXCEPT !.packages = Without(r.packages, k), !.hashes = Without(r.hashes, k)]
      PROVE  Goal
    <2>k. k \in DOMAIN pkgs /\ Len(pkgs) \in Nat /\ DOMAIN pkgs = 1..Len(pkgs)
        BY <1>p
    <2>h. Len(hs) = Len(pkgs)
        BY <2>k
    <2>1. /\ a.tx = t /\ a.hash = t /\ a.identifiers = Identifiers(t)
          /\ a.packages = Without(pkgs, k) /\ a.hashes = Without(hs, k)
        BY <1>6, <1>p, <1>r
    <2>2. a.packages # <<>>
        BY <1>a DEF MatchesRecord, CarriesAll
    <2>3. ASSUME NEW i \in DOMAIN a.packages
          PROVE  \E j \in DOMAIN pkgs : a.packages[i] = pkgs[j] /\ a.hashes[i] = IntentHash(t, pkgs[j].segment)
        <3>1. i \in 1..(Len(pkgs) - 1)
            BY <2>1 DEF Without
        <3>2. i \in DOMAIN pkgs /\ i + 1 \in DOMAIN pkgs
            BY <2>k, <3>1
        <3>3. CASE i < k
            BY <2>1, <2>h, <3>1, <3>2, <3>3 DEF Without
        <3>4. CASE ~(i < k)
            BY <2>1, <2>h, <3>1, <3>2, <3>4 DEF Without
        <3> QED BY <3>3, <3>4
    <2> QED BY <2>1, <2>2, <2>3 DEF HoldsEntriesOf
<1>7. ASSUME NEW c \in 0..MaxBlocks, a = [r EXCEPT !.context = c] PROVE Goal
    <2>1. /\ a.tx = t /\ a.hash = t /\ a.identifiers = Identifiers(t) /\ a.packages = pkgs
          /\ \A i \in DOMAIN pkgs : a.hashes[i] = IntentHash(t, pkgs[i].segment)
        BY <1>7, <1>p, <1>r
    <2> QED BY <1>p, <2>1 DEF HoldsEntriesOf
<1> QED
    <2>1. a = r \/ Goal
        <3> HIDE DEF Goal
        <3> QED BY <1>a, <1>1, <1>2, <1>3, <1>4, <1>5, <1>6, <1>7, Zenon DEF Altered
    <2> QED BY <1>0, <2>1

\* The bytes of an altered record still read back as a transaction.
LEMMA AlteredType ==
    ASSUME NEW t, IsTx(t), NEW pkgs, NEW b, NEW a, Altered(a, RecordOf(t, pkgs, b))
    PROVE  IsTx(a.tx)
<1> DEFINE r == RecordOf(t, pkgs, b)
<1>r. r \in [tx : {t}, hash : {t}, identifiers : {r.identifiers}, packages : {r.packages},
             hashes : {r.hashes}, context : {b}]
    BY DEF RecordOf
<1>a. Altered(a, r)
    OBVIOUS
<1> HIDE DEF r
<1>1. ASSUME NEW u \in Answers(r.tx), a = [r EXCEPT !.tx = u]
      PROVE  IsTx(a.tx)
    <2>1. a.tx = u /\ u \in Answers(t)
        BY <1>1, <1>r
    <2> QED BY <2>1, AnswersType
<1>2. ASSUME a.tx = t PROVE IsTx(a.tx)
    BY <1>2
<1>3. ASSUME a = [r EXCEPT !.hash = EmptyTx] PROVE a.tx = t
    BY <1>3, <1>r
<1>4. ASSUME NEW id \in r.identifiers, a = [r EXCEPT !.identifiers = r.identifiers \ {id}]
      PROVE  a.tx = t
    BY <1>4, <1>r
<1>5. ASSUME NEW k \in DOMAIN r.packages, NEW e \in Rewritten(r.packages[k]), a = [r EXCEPT !.packages[k] = e]
      PROVE  a.tx = t
    BY <1>5, <1>r
<1>6. ASSUME NEW k \in DOMAIN r.packages, NEW j \in DOMAIN r.packages,
             a = [r EXCEPT !.hashes[k] = r.hashes[j]]
      PROVE  a.tx = t
    BY <1>6, <1>r
<1>7. ASSUME NEW k \in DOMAIN r.packages,
             a = [r EXCEPT !.packages = Without(r.packages, k), !.hashes = Without(r.hashes, k)]
      PROVE  a.tx = t
    BY <1>7, <1>r
<1>8. ASSUME NEW c \in 0..MaxBlocks, a = [r EXCEPT !.context = c] PROVE a.tx = t
    BY <1>8, <1>r
<1> QED BY <1>a, <1>1, <1>2, <1>3, <1>4, <1>5, <1>6, <1>7, <1>8, Zenon DEF Altered

-----------------------------------------------------------------------------
(* The invariant is inductive *)

\* The named parts hold before anything is read.
LEMMA InitInv == Init => IInv
<1> SUFFICES ASSUME Init PROVE IInv
    OBVIOUS
<1>1. IsTx(EmptyTx)
    BY DEF EmptyTx, IsTx, IsIntentMap, Forms
<1>2. TypeOK
    <2>1. PICK f \in [Contracts -> States] : chain = <<f>>
        BY DEF Init
    <2>2. chain \in Seq([Contracts -> States]) /\ Len(chain) = 1
        BY <2>1
    <2> QED BY <1>1, <2>2, PublisherAssumption DEF Init, TypeOK, Stages
<1>3. packages = <<>> /\ requests = <<>> /\ stage = "idle" /\ submitted = None
      /\ DOMAIN snapshots = {} /\ snapshots = [c \in {} |-> None]
    BY DEF Init
<1> QED BY <1>2, <1>3 DEF IInv, SnapshotsPinned, NothingEarly, AllRead, PackagesFollowRequests,
           CheckedCarries, Assembled, RecordFollowsTx, TxPinned, BlockBeforePackages

\* Every step keeps every part of the invariant.
LEMMA NextInv == IInv /\ [Next]_vars => IInv'
<1> SUFFICES ASSUME IInv, [Next]_vars PROVE IInv'
    OBVIOUS
<1>inv. /\ TypeOK /\ SnapshotsPinned /\ NothingEarly /\ AllRead /\ PackagesFollowRequests
        /\ CheckedCarries /\ RecordFollowsTx /\ TxPinned /\ BlockBeforePackages
    BY DEF IInv
<1>stutter. CASE UNCHANGED vars
    BY <1>inv, <1>stutter DEF vars, IInv, TypeOK, SnapshotsPinned, NothingEarly, AllRead, PackagesFollowRequests,
        CheckedCarries, RecordFollowsTx, TxPinned, BlockBeforePackages
<1>fail. ASSUME Fail, stage # "submitted", stage \in Stages PROVE IInv'
    <2>1. /\ stage' = "failed" /\ failedAt' \in Stages
          /\ UNCHANGED <<chain, requests, block, snapshots, packages, frozen, tx, record, submitted>>
        BY <1>fail DEF Fail, built
    <2>2. TypeOK'
        BY <1>inv, <2>1 DEF TypeOK, Stages
    <2>3. SnapshotsPinned' /\ NothingEarly' /\ AllRead' /\ BlockBeforePackages'
        BY <1>inv, <2>1 DEF SnapshotsPinned, NothingEarly, AllRead, BlockBeforePackages
    <2>4. PackagesFollowRequests' /\ TxPinned'
        BY <1>inv, <2>1 DEF PackagesFollowRequests, TxPinned
    <2>5. CheckedCarries'
        BY <2>1 DEF CheckedCarries, Assembled
    <2>6. RecordFollowsTx'
        BY <1>inv, <1>fail, <2>1 DEF RecordFollowsTx
    <2> QED BY <2>2, <2>3, <2>4, <2>5, <2>6 DEF IInv
<1>1. CASE NewBlock
    <2>1. PICK c \in Contracts, st \in States :
            chain' = Append(chain, [chain[Len(chain)] EXCEPT ![c] = st])
        BY <1>1 DEF NewBlock
    <2>2. UNCHANGED <<stage, failedAt, requests, block, snapshots, packages, frozen, tx, record,
                      final, submitted>> /\ Len(chain) < MaxBlocks
        BY <1>1 DEF NewBlock, built
    <2>3. /\ chain' \in Seq([Contracts -> States]) /\ Len(chain') = Len(chain) + 1
          /\ \A n \in 1..Len(chain) : chain'[n] = chain[n]
        <3> DEFINE f == [chain[Len(chain)] EXCEPT ![c] = st]
        <3>1. chain \in Seq([Contracts -> States]) /\ Len(chain) \in 1..MaxBlocks
            BY <1>inv DEF TypeOK
        <3>2. f \in [Contracts -> States]
            BY <3>1
        <3>3. chain' = Append(chain, f)
            BY <2>1
        <3> HIDE DEF f
        <3> QED BY <3>1, <3>2, <3>3
    <2>4. TypeOK'
        BY <1>inv, <2>2, <2>3, PublisherAssumption DEF TypeOK
    <2>5. block # 0 => chain'[block] = chain[block]
        BY <1>inv, <2>3 DEF TypeOK
    <2>6. SnapshotsPinned' /\ NothingEarly' /\ AllRead' /\ BlockBeforePackages'
        BY <1>inv, <2>2, <2>5 DEF SnapshotsPinned, NothingEarly, AllRead, BlockBeforePackages
    <2>7. PackagesFollowRequests' /\ CheckedCarries' /\ RecordFollowsTx'
        BY <1>inv, <2>2 DEF PackagesFollowRequests, CheckedCarries, RecordFollowsTx
    <2>8. TxPinned'
        <3>1. ASSUME NEW i \in DOMAIN packages PROVE chain'[block] = chain[block]
            BY <1>inv, <2>5 DEF BlockBeforePackages, TypeOK
        <3> QED BY <1>inv, <2>2, <3>1 DEF TxPinned
    <2> QED BY <2>4, <2>6, <2>7, <2>8 DEF IInv
<1>2. CASE Begin
    <2>1. PICK reqs \in RequestLists :
            /\ requests' = reqs
            /\ \/ stage' = "pinning" /\ UNCHANGED failedAt
               \/ stage' = "failed" /\ failedAt' = stage
        BY <1>2 DEF Begin
    <2>2. stage = "idle" /\ UNCHANGED <<chain, block, snapshots, tx, packages, frozen, record,
                                        final, submitted>>
        BY <1>2 DEF Begin
    <2>3. requests' \in Seq(Requests)
        BY <2>1, PublisherAssumption
    <2>4. TypeOK'
        BY <1>inv, <2>1, <2>2, <2>3 DEF TypeOK, Stages
    <2>5. packages = <<>> /\ DOMAIN snapshots = {}
        BY <1>inv, <2>2 DEF NothingEarly
    <2>6. stage' \in {"pinning", "failed"}
        BY <2>1
    <2>7. SnapshotsPinned' /\ NothingEarly' /\ AllRead' /\ BlockBeforePackages'
        BY <2>2, <2>5, <2>6 DEF SnapshotsPinned, NothingEarly, AllRead, BlockBeforePackages
    <2>8. PackagesFollowRequests' /\ TxPinned'
        BY <2>2, <2>3, <2>5, <2>6 DEF PackagesFollowRequests, TxPinned
    <2>9. CheckedCarries' /\ RecordFollowsTx'
        BY <1>inv, <2>2, <2>6 DEF CheckedCarries, RecordFollowsTx, Assembled
    <2> QED BY <2>4, <2>7, <2>8, <2>9 DEF IInv
<1>3. CASE PinBlock
    <2>1. /\ stage = "pinning" /\ stage' = "reading" /\ block' = Len(chain)
          /\ UNCHANGED <<chain, failedAt, requests, snapshots, tx, packages, frozen, record,
                         final, submitted>>
        BY <1>3 DEF PinBlock
    <2>2. TypeOK' /\ block' # 0
        BY <1>inv, <2>1 DEF TypeOK, Stages
    <2>3. packages = <<>> /\ DOMAIN snapshots = {}
        BY <1>inv, <2>1 DEF NothingEarly
    <2>4. SnapshotsPinned' /\ NothingEarly' /\ AllRead' /\ BlockBeforePackages'
        BY <2>1, <2>2, <2>3 DEF SnapshotsPinned, NothingEarly, AllRead, BlockBeforePackages
    <2>5. PackagesFollowRequests' /\ TxPinned'
        BY <1>inv, <2>1, <2>3 DEF PackagesFollowRequests, TxPinned
    <2>6. CheckedCarries' /\ RecordFollowsTx'
        BY <1>inv, <2>1 DEF CheckedCarries, RecordFollowsTx, Assembled
    <2> QED BY <2>2, <2>4, <2>5, <2>6 DEF IInv
<1>4. CASE ReadState
    <2>1. PICK c \in Unread :
            /\ snapshots' = [x \in DOMAIN snapshots \cup {c} |->
                                IF x = c THEN StateReadFrom(c) ELSE snapshots[x]]
            /\ stage' = IF Unread = {c} THEN "assembling" ELSE "reading"
        BY <1>4 DEF ReadState
    <2>2. stage = "reading" /\ UNCHANGED <<chain, failedAt, requests, block, tx, packages, frozen,
                                           record, final, submitted>>
        BY <1>4 DEF ReadState
    <2>3. block # 0 /\ packages = <<>>
        BY <1>inv, <2>2 DEF SnapshotsPinned, NothingEarly
    <2>4. requests \in Seq(Requests) /\ chain \in Seq([Contracts -> States]) /\ block \in 1..Len(chain)
        BY <1>inv, <2>3 DEF TypeOK
    <2>5. c \in Contracts
        <3>1. PICK i \in DOMAIN requests : c = requests[i].contract
            BY DEF Unread
        <3>2. requests[i] \in Requests
            BY <2>4, <3>1
        <3> QED BY <3>1, <3>2 DEF Requests
    <2>6. chain[block] \in [Contracts -> States]
        BY <2>4
    <2>7. StateReadFrom(c) \in States
        BY <2>5, <2>6 DEF StateReadFrom
    <2>8. TypeOK'
        BY <1>inv, <2>1, <2>2, <2>5, <2>7 DEF TypeOK, Stages
    <2>9. SnapshotsPinned' /\ NothingEarly' /\ BlockBeforePackages'
        BY <1>inv, <2>1, <2>2, <2>3 DEF SnapshotsPinned, NothingEarly, BlockBeforePackages,
            StateReadFrom
    <2>10. AllRead'
        BY <2>1, <2>2 DEF AllRead, Unread
    <2>11. PackagesFollowRequests' /\ TxPinned'
        <3>1. Len(requests) > 0
            BY <2>1, <2>4 DEF Unread
        <3> QED BY <2>2, <2>3, <3>1 DEF PackagesFollowRequests, TxPinned
    <2>12. CheckedCarries' /\ RecordFollowsTx'
        BY <1>inv, <2>1, <2>2 DEF CheckedCarries, RecordFollowsTx, Assembled
    <2> QED BY <2>8, <2>9, <2>10, <2>11, <2>12 DEF IInv
<1>5. CASE Assemble
    <2> DEFINE r == requests[Len(packages) + 1]
               st == snapshots[r.contract]
       Step(runs, s) ==
            /\ \A k \in DOMAIN r.parts : /\ runs[k] \in MayEmit(r, r.parts[k], st)
                                         /\ ExecutionOK(runs[k], r, r.parts[k])
            /\ tx' = [tx EXCEPT !.intents = PutIntent(tx.intents, s, IntentOf(runs, st))]
            /\ packages' = Append(packages, [contract |-> r.contract, entry |-> r.entry,
                                   name |-> r.name, segment |-> s, parts |-> r.parts])
            /\ IF Len(packages') < Len(requests)
               THEN stage' = stage /\ UNCHANGED frozen
               ELSE /\ CarriesAll(tx', packages')
                    /\ stage' = "built"
                    /\ frozen' = FrozenTranscripts(tx', packages')
    <2>a. PICK runs \in [DOMAIN r.parts -> UNION {MayEmit(r, r.parts[k], st) : k \in DOMAIN r.parts}],
               draws \in [1..MaxAttempts -> 0..MaxSegment] : \E a \in Accepted(tx, draws) :
                    Step(runs, draws[a])
        BY <1>5, Zenon DEF Assemble
    <2>b. PICK a \in Accepted(tx, draws) : Step(runs, draws[a])
        BY <2>a
    <2> DEFINE s == draws[a]
    <2>c. DOMAIN runs = DOMAIN r.parts
        OBVIOUS
    <2>d. s \in 0..MaxSegment /\ Fresh(tx, s)
        BY DEF Accepted
    <2>1. Step(runs, s)
        BY <2>b
    <2>2. stage = "assembling" /\ UNCHANGED <<chain, failedAt, requests, block, snapshots, record,
                                              final, submitted>>
        BY <1>5 DEF Assemble
    <2> DEFINE new == IntentOf(runs, st)
               pkg == [contract |-> r.contract, entry |-> r.entry, name |-> r.name,
                       segment |-> s, parts |-> r.parts]
    <2>3. /\ packages \in Seq(Packages) /\ requests \in Seq(Requests) /\ IsTx(tx)
          /\ Len(packages) < Len(requests)
        BY <1>inv, <2>2 DEF TypeOK, PackagesFollowRequests
    <2>4. r \in Requests
        BY <2>3
    <2>5. s \in Segments /\ s \notin DOMAIN tx.intents
        BY <2>d, SegmentAssumption DEF Fresh, Segments
    <2>6. r.contract \in DOMAIN snapshots /\ block # 0 /\ st \in States
          /\ st = chain[block][r.contract]
        BY <1>inv, <2>2, <2>3 DEF AllRead, SnapshotsPinned, TypeOK
    <2>7. new \in Intents
        BY <2>1, <2>c, <2>4, <2>6, IntentOfType
    <2>8. tx'.intents = PutIntent(tx.intents, s, new) /\ IsTx(tx')
        <3>1. IsIntentMap(PutIntent(tx.intents, s, new))
            BY <2>3, <2>5, <2>7, PutIntentType DEF IsTx
        <3>2. tx' = [intents |-> PutIntent(tx.intents, s, new), zswap |-> tx.zswap, form |-> tx.form]
            BY <2>1, <2>3 DEF IsTx
        <3> HIDE DEF new
        <3> QED BY <2>3, <3>1, <3>2 DEF IsTx
    <2>9. pkg \in Packages
        BY <2>4, <2>5 DEF Requests, Packages
    <2>10. /\ packages' \in Seq(Packages) /\ Len(packages') = Len(packages) + 1
           /\ \A i \in DOMAIN packages : packages'[i] = packages[i]
           /\ packages'[Len(packages) + 1] = pkg
        <3>1. packages' = Append(packages, pkg)
            BY <2>1
        <3> HIDE DEF pkg
        <3> QED BY <2>3, <2>9, <3>1
    <2> HIDE DEF pkg, new, r, st
    <2>11. \A i \in DOMAIN packages : /\ packages[i].segment \in DOMAIN tx.intents
                                      /\ packages[i].segment # s
                                      /\ tx'.intents[packages[i].segment] = tx.intents[packages[i].segment]
        BY <1>inv, <2>5, <2>8 DEF PackagesFollowRequests, PutIntent
    <2>12. s \in DOMAIN tx'.intents /\ tx'.intents[s] = new
        BY <2>8 DEF PutIntent
    <2>13. stage' \in {"assembling", "built"}
           /\ (stage' = "built" =>
                 /\ Len(packages') = Len(requests)
                 /\ CarriesAll(tx', packages') /\ frozen' = FrozenTranscripts(tx', packages'))
           /\ (stage' = "assembling" => Len(packages') < Len(requests) /\ frozen' = frozen)
        BY <2>1, <2>2, <2>3, <2>10
    <2>14. frozen' \in Seq(Seq(Transcripts \cup {None}))
        <3>1. CASE stage' = "assembling"
            BY <1>inv, <2>13, <3>1 DEF TypeOK
        <3>2. CASE stage' = "built"
            <4>1. CarriesAll(tx', packages') /\ frozen' = FrozenTranscripts(tx', packages')
                BY <2>13, <3>2
            <4>2. ASSUME NEW i \in DOMAIN packages'
                  PROVE  frozen'[i] \in Seq(Transcripts \cup {None})
                <5> DEFINE acts == tx'.intents[packages'[i].segment].actions
                <5>1. acts \in Seq(Actions)
                    BY <2>8, <4>1 DEF CarriesAll, IntentCarries, IsTx, IsIntentMap, Intents
                <5>2. frozen'[i] = [k \in DOMAIN acts |-> acts[k].guaranteed]
                    BY <4>1 DEF FrozenTranscripts
                <5>3. \A k \in DOMAIN acts : acts[k].guaranteed \in Transcripts \cup {None}
                    <6>1. ASSUME NEW x \in Actions PROVE x.guaranteed \in Transcripts \cup {None}
                        BY DEF Actions
                    <6> HIDE DEF acts
                    <6> QED BY <5>1, <6>1
                <5> QED BY <5>1, <5>2, <5>3
            <4>3. frozen' = [i \in DOMAIN packages' |-> frozen'[i]]
                BY <4>1 DEF FrozenTranscripts
            <4> QED BY <2>10, <4>2, <4>3
        <3> QED BY <2>13, <3>1, <3>2
    <2>15. TypeOK'
        BY <1>inv, <2>2, <2>8, <2>10, <2>13, <2>14 DEF TypeOK, Stages
    <2>16. SnapshotsPinned' /\ NothingEarly' /\ AllRead' /\ BlockBeforePackages'
        BY <1>inv, <2>2, <2>6, <2>13 DEF SnapshotsPinned, NothingEarly, AllRead, BlockBeforePackages
    <2>17. PackagesFollowRequests'
        <3>1. Len(packages') <= Len(requests') /\ (stage' = "assembling" => Len(packages') < Len(requests'))
            BY <2>2, <2>3, <2>10, <2>13
        <3>2. ASSUME NEW i \in DOMAIN packages'
              PROVE  /\ packages'[i].contract = requests[i].contract
                     /\ packages'[i].name = requests[i].name
                     /\ packages'[i].parts = requests[i].parts
                     /\ packages'[i].segment \in DOMAIN tx'.intents
            <4>1. CASE i \in DOMAIN packages
                BY <1>inv, <2>8, <2>10, <2>11, <4>1 DEF PackagesFollowRequests, PutIntent
            <4>2. CASE i = Len(packages) + 1
                BY <2>10, <2>12, <4>2 DEF pkg, r
            <4> QED BY <2>3, <2>10, <4>1, <4>2
        <3> QED BY <2>2, <3>1, <3>2 DEF PackagesFollowRequests
    <2>18. CheckedCarries'
        <3>1. SUFFICES ASSUME stage' = "built" PROVE CarriesFrozen(tx', packages', frozen')
            BY <2>2, <2>13 DEF CheckedCarries, Assembled
        <3>2. CarriesAll(tx', packages') /\ frozen' = FrozenTranscripts(tx', packages')
            BY <2>13, <3>1
        <3>3. ASSUME NEW i \in DOMAIN packages', NEW k \in DOMAIN packages'[i].parts
              PROVE  tx'.intents[packages'[i].segment].actions[k].guaranteed = frozen'[i][k]
            <4>1. IntentCarries(tx', packages'[i]) /\ packages'[i] \in Packages
                BY <2>10, <3>2 DEF CarriesAll
            <4>2. tx'.intents[packages'[i].segment] \in Intents
                BY <2>8, <4>1 DEF IntentCarries, IsTx, IsIntentMap
            <4>3. k \in DOMAIN tx'.intents[packages'[i].segment].actions
                BY <4>1, <4>2 DEF IntentCarries, Intents, Packages
            <4> QED BY <3>2, <4>3 DEF FrozenTranscripts
        <3> QED BY <3>2, <3>3 DEF CarriesFrozen
    <2>19. RecordFollowsTx'
        BY <1>inv, <2>2, <2>13 DEF RecordFollowsTx
    <2>20. TxPinned'
        <3>1. ASSUME NEW i \in DOMAIN packages',
                     NEW k \in DOMAIN tx'.intents[packages'[i].segment].actions
              PROVE  tx'.intents[packages'[i].segment].actions[k].guaranteed.reads
                       = chain[block][packages'[i].contract]
            <4>1. CASE i \in DOMAIN packages
                BY <1>inv, <2>10, <2>11, <4>1 DEF TxPinned
            <4>2. CASE i = Len(packages) + 1
                <5>1. packages'[i].segment = s /\ packages'[i].contract = r.contract
                    BY <2>10, <4>2 DEF pkg
                <5>2. k \in DOMAIN new.actions /\ tx'.intents[s].actions[k] = new.actions[k]
                    BY <2>12, <5>1
                <5>3. new.actions[k].guaranteed.reads = st
                    BY <5>2 DEF new, IntentOf, CallOf
                <5> QED BY <2>6, <5>1, <5>2, <5>3
            <4> QED BY <2>3, <2>10, <4>1, <4>2
        <3> QED BY <2>2, <3>1 DEF TxPinned
    <2> QED BY <2>15, <2>16, <2>17, <2>18, <2>19, <2>20 DEF IInv
<1>6. CASE AssemblyFails
    <2>1. Fail /\ stage = "assembling"
        BY <1>6 DEF AssemblyFails
    <2> QED BY <2>1, <1>fail DEF Stages
<1>7. CASE StartProving
    <2>1. /\ stage = "built" /\ stage' = "proving"
          /\ UNCHANGED <<chain, failedAt, requests, block, snapshots, packages, frozen, tx, record,
                         final, submitted>>
        BY <1>7 DEF StartProving, built
    <2>2. TypeOK'
        BY <1>inv, <2>1 DEF TypeOK, Stages
    <2>3. SnapshotsPinned' /\ NothingEarly' /\ AllRead' /\ BlockBeforePackages'
        BY <1>inv, <2>1 DEF SnapshotsPinned, NothingEarly, AllRead, BlockBeforePackages
    <2>4. PackagesFollowRequests' /\ TxPinned'
        BY <1>inv, <2>1 DEF PackagesFollowRequests, TxPinned
    <2>5. CheckedCarries' /\ RecordFollowsTx'
        BY <1>inv, <2>1 DEF CheckedCarries, RecordFollowsTx, Assembled
    <2> QED BY <2>2, <2>3, <2>4, <2>5 DEF IInv
<1>checked. ASSUME stage \in Assembled, NEW t \in Answers(tx), CarriesFrozen(t, packages, frozen),
                   tx' = t, UNCHANGED <<chain, requests, block, snapshots, packages, frozen>>,
                   stage' \in {"balancing", "finalized"}
            PROVE  /\ IsTx(tx') /\ SnapshotsPinned' /\ NothingEarly' /\ AllRead' /\ BlockBeforePackages'
                   /\ PackagesFollowRequests' /\ CheckedCarries' /\ TxPinned'
    <2>1. IsTx(tx) /\ IsTx(tx')
        BY <1>inv, <1>checked, AnswersType DEF TypeOK
    <2>2. SnapshotsPinned' /\ NothingEarly' /\ AllRead' /\ BlockBeforePackages'
        BY <1>inv, <1>checked DEF SnapshotsPinned, NothingEarly, AllRead, BlockBeforePackages, Assembled
    <2>3. CheckedCarries'
        BY <1>inv, <1>checked DEF CheckedCarries
    <2>4. packages \in Seq(Packages) /\ CarriesFrozen(tx, packages, frozen)
        BY <1>inv, <1>checked DEF TypeOK, CheckedCarries
    <2>5. \A i \in DOMAIN packages : packages[i].segment \in DOMAIN tx'.intents
        BY <1>checked DEF CarriesFrozen, CarriesAll, IntentCarries
    <2>6. PackagesFollowRequests'
        BY <1>inv, <1>checked, <2>5 DEF PackagesFollowRequests
    <2>agree. AgreeOn(t, tx, packages)
        <3>1. IsTx(t) /\ CarriesFrozen(t, packages, frozen)
            BY <1>checked, <2>1
        <3> QED BY <2>1, <2>4, <3>1, FrozenAgree
    <2>7. TxPinned'
        <3>1. ASSUME NEW i \in DOMAIN packages,
                     NEW k \in DOMAIN tx'.intents[packages[i].segment].actions
              PROVE  tx'.intents[packages[i].segment].actions[k].guaranteed.reads
                       = chain[block][packages[i].contract]
            <4>1. /\ k \in DOMAIN tx.intents[packages[i].segment].actions
                  /\ t.intents[packages[i].segment].actions[k].guaranteed
                        = tx.intents[packages[i].segment].actions[k].guaranteed
                BY <2>agree, <1>checked DEF AgreeOn
            <4> QED BY <1>inv, <1>checked, <4>1 DEF TxPinned
        <3> QED BY <1>checked, <3>1 DEF TxPinned
    <2> QED BY <2>1, <2>2, <2>3, <2>6, <2>7
<1>8. CASE Proven
    <2>1. PICK t \in Answers(tx) : CarriesFrozen(t, packages, frozen) /\ tx' = t
        BY <1>8 DEF Proven
    <2>2. /\ stage = "proving" /\ stage' = "balancing"
          /\ UNCHANGED <<chain, failedAt, requests, block, snapshots, packages, frozen, record,
                         final, submitted>>
        BY <1>8 DEF Proven, built
    <2>3. /\ IsTx(tx') /\ SnapshotsPinned' /\ NothingEarly' /\ AllRead' /\ BlockBeforePackages'
          /\ PackagesFollowRequests' /\ CheckedCarries' /\ TxPinned'
        BY <2>1, <2>2, <1>checked DEF Assembled
    <2>4. TypeOK'
        BY <1>inv, <2>2, <2>3 DEF TypeOK, Stages
    <2>5. RecordFollowsTx'
        BY <1>inv, <2>2 DEF RecordFollowsTx
    <2> QED BY <2>3, <2>4, <2>5 DEF IInv
<1>9. CASE Balanced
    <2>1. PICK t \in Answers(tx) :
            /\ CarriesFrozen(t, packages, frozen) /\ tx' = t
            /\ Cost(t) <= BlockLimit /\ t.form = "bound"
            /\ record' = RecordOf(t, packages, block) /\ final' = record'
        BY <1>9 DEF Balanced
    <2>2. /\ stage = "balancing" /\ stage' = "finalized"
          /\ UNCHANGED <<chain, failedAt, requests, block, snapshots, packages, frozen, submitted>>
        BY <1>9 DEF Balanced, built
    <2>3. /\ IsTx(tx') /\ SnapshotsPinned' /\ NothingEarly' /\ AllRead' /\ BlockBeforePackages'
          /\ PackagesFollowRequests' /\ CheckedCarries' /\ TxPinned'
        BY <2>1, <2>2, <1>checked DEF Assembled
    <2>4. record'.tx = tx'
        BY <2>1 DEF RecordOf
    <2>5. TypeOK'
        BY <1>inv, <2>2, <2>3, <2>4 DEF TypeOK, Stages
    <2>6. RecordFollowsTx'
        BY <1>inv, <2>1, <2>2 DEF RecordFollowsTx
    <2> QED BY <2>3, <2>5, <2>6 DEF IInv
<1>10. CASE Refused
    <2>1. Fail /\ stage \in {"pinning", "reading", "proving", "balancing"}
        BY <1>10 DEF Refused
    <2> QED BY <2>1, <1>fail DEF Stages
<1>11. CASE AlterRecord
    <2>1. /\ stage = "finalized" /\ record = final /\ Altered(record', record)
          /\ UNCHANGED <<chain, stage, failedAt, requests, block, snapshots, packages, frozen, tx,
                         final, submitted>>
        BY <1>11 DEF AlterRecord, built
    <2>2. final = RecordOf(tx, packages, block)
        BY <1>inv, <2>1 DEF RecordFollowsTx
    <2>3. IsTx(record'.tx)
        BY <1>inv, <2>1, <2>2, AlteredType DEF TypeOK
    <2>4. TypeOK'
        BY <1>inv, <2>1, <2>3 DEF TypeOK
    <2>5. RecordFollowsTx'
        BY <1>inv, <2>1 DEF RecordFollowsTx
    <2>6. SnapshotsPinned' /\ NothingEarly' /\ AllRead' /\ BlockBeforePackages'
        BY <1>inv, <2>1 DEF SnapshotsPinned, NothingEarly, AllRead, BlockBeforePackages
    <2>7. PackagesFollowRequests' /\ TxPinned' /\ CheckedCarries'
        BY <1>inv, <2>1 DEF PackagesFollowRequests, TxPinned, CheckedCarries
    <2> QED BY <2>4, <2>5, <2>6, <2>7 DEF IInv
<1>12. CASE Submit
    <2>1. /\ stage = "finalized" /\ stage' = "submitted" /\ MatchesRecord(record)
          /\ submitted' = record.tx
          /\ UNCHANGED <<chain, failedAt, requests, block, snapshots, packages, frozen, tx, record, final>>
        BY <1>12 DEF Submit, built
    <2>2. /\ final = RecordOf(tx, packages, block) /\ (record = final \/ Altered(record, final))
          /\ IsTx(tx) /\ packages \in Seq(Packages) /\ CarriesAll(tx, packages)
        BY <1>inv, <2>1 DEF RecordFollowsTx, TypeOK, CheckedCarries, Assembled, CarriesFrozen
    <2>3. record.tx = tx
        BY <2>1, <2>2, StillFinal
    <2>4. submitted' = tx
        BY <2>1, <2>3
    <2>5. TypeOK'
        BY <1>inv, <2>1, <2>2, <2>4 DEF TypeOK, Stages
    <2>6. RecordFollowsTx'
        BY <1>inv, <2>1, <2>3, <2>4 DEF RecordFollowsTx
    <2>7. SnapshotsPinned' /\ NothingEarly' /\ AllRead' /\ BlockBeforePackages'
        BY <1>inv, <2>1 DEF SnapshotsPinned, NothingEarly, AllRead, BlockBeforePackages
    <2>8. PackagesFollowRequests' /\ TxPinned' /\ CheckedCarries'
        BY <1>inv, <2>1 DEF PackagesFollowRequests, TxPinned, CheckedCarries, Assembled
    <2> QED BY <2>5, <2>6, <2>7, <2>8 DEF IInv
<1>13. CASE SubmitRefused
    <2>1. Fail /\ stage = "finalized"
        BY <1>13 DEF SubmitRefused
    <2> QED BY <2>1, <1>fail DEF Stages
<1> QED
    BY <1>stutter, <1>1, <1>2, <1>3, <1>4, <1>5, <1>6, <1>7, <1>8, <1>9, <1>10, <1>11, <1>12,
        <1>13 DEF Next

-----------------------------------------------------------------------------
(* The theorems *)

\* The inductive invariant holds in every behaviour of the publisher.
THEOREM Invariance == Spec => []IInv
<1>1. Init => IInv
    BY InitInv
<1>2. IInv /\ [Next]_vars => IInv'
    BY NextInv
<1> QED BY <1>1, <1>2, PTL DEF Spec

\* Type correctness (compose.ts and finalize.ts: whatever the providers answer,
\* what the publisher keeps has the shapes the guard reads).
THEOREM TypeCorrect == Spec => []TypeOK
<1>1. IInv => TypeOK
    BY DEF IInv
<1> QED BY <1>1, Invariance, PTL

\* For any number of packages, parts and segments and whatever the prover and
\* the balancer answer, the transaction that reaches the network publishes every
\* request whole (the checks between the stages of finalize.ts).
THEOREM SubmissionPublishes == Spec => []SubmissionPublishesRequests
<1>1. IInv => SubmissionPublishesRequests
    <2> SUFFICES ASSUME IInv, submitted # None PROVE PublishesRequests(submitted)
        BY DEF SubmissionPublishesRequests
    <2>1. stage = "submitted" /\ submitted = tx
        BY DEF IInv, RecordFollowsTx
    <2>2. /\ IsTx(tx) /\ packages \in Seq(Packages) /\ requests \in Seq(Requests)
          /\ PackagesFollowRequests /\ Len(packages) = Len(requests) /\ CarriesAll(tx, packages)
        BY <2>1 DEF IInv, TypeOK, CheckedCarries, Assembled, CarriesFrozen
    <2> QED BY <2>1, <2>2, CarriesPublishes
<1> QED BY <1>1, Invariance, PTL

\* Every package call handed on was computed at the one pinned block.
THEOREM ReadsPinned == Spec => []PinnedReads
<1>1. IInv => PinnedReads
    <2>1. IInv => submitted \in {None, tx}
        BY DEF IInv, RecordFollowsTx
    <2> QED BY <2>1 DEF IInv, TxPinned, PinnedReads
<1> QED BY <1>1, Invariance, PTL

\* Whatever was altered in the saved record, what is submitted is what finalization
\* checked, and every package entry left in the record is one of finalization's.
THEOREM SubmittedIsFinalized == Spec => []SubmittedAsFinalized
<1>1. IInv => SubmittedAsFinalized
    <2> SUFFICES ASSUME IInv, submitted # None PROVE SubmittedAsFinalized
        BY DEF SubmittedAsFinalized
    <2>1. /\ stage = "submitted" /\ submitted = tx /\ MatchesRecord(record)
          /\ final = RecordOf(tx, packages, block) /\ (record = final \/ Altered(record, final))
        BY DEF IInv, RecordFollowsTx
    <2>2. IsTx(tx) /\ packages \in Seq(Packages) /\ CarriesAll(tx, packages)
        BY <2>1 DEF IInv, TypeOK, CheckedCarries, Assembled, CarriesFrozen
    <2>3. /\ record.hash = tx /\ record.identifiers = Identifiers(tx)
          /\ HoldsEntriesOf(record, tx, packages)
        <3>1. record = RecordOf(tx, packages, block) \/ Altered(record, RecordOf(tx, packages, block))
            BY <2>1, Zenon
        <3>2. MatchesRecord(record)
            BY <2>1
        <3> QED BY <2>2, <3>1, <3>2, StillFinal
    <2>4. /\ final.tx = tx /\ final.hash = tx /\ final.identifiers = Identifiers(tx)
          /\ final.packages = packages
          /\ \A j \in DOMAIN packages : final.hashes[j] = IntentHash(tx, packages[j].segment)
        BY <2>1 DEF RecordOf
    <2> QED BY <2>1, <2>3, <2>4 DEF SubmittedAsFinalized, HoldsEntriesOf, EntryOf
<1> QED BY <1>1, Invariance, PTL

\* What is submitted fits the block limits, what the balancer added included.
THEOREM SubmittedFits == Spec => []SubmissionFits
<1>1. IInv => SubmissionFits
    BY DEF IInv, RecordFollowsTx, SubmissionFits
<1> QED BY <1>1, Invariance, PTL
=============================================================================
