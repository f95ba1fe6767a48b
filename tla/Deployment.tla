------------------------------- MODULE Deployment -------------------------------
(***************************************************************************)
(* The deploy and pin commands (runDeploy and runPin in                    *)
(* src/deploy-tools/commands.ts) next to each other on one chain: the      *)
(* protected files they create and share, the records they write, the      *)
(* contracts they deploy and call, and an indexer that lags, and whose     *)
(* contract states may lag behind the transactions it has shown.           *)
(*                                                                         *)
(* A run may stop at any moment.  What one run may wait for is left to     *)
(* module Publication, which has the clock: here a wait may end unanswered *)
(* at any moment.  Runs given one record path follow one another (what     *)
(* overlapping does is shown there too); their secret files may be shared  *)
(* at any moment.                                                          *)
(***************************************************************************)
EXTENDS Transactions

CONSTANTS
    Runs,           \* runs of deploy and pin
    Deploys,        \* those of deploy
    Teams,          \* which runs somebody starts, in each behaviour
    Paths,          \* record paths (--out)
    Files,          \* protected files
    Out,            \* the record path of each run
    SecretFile,     \* the emitter secret file of each run
    KeyFile,        \* the maintenance key file of each run
    Reuses,         \* what a deploy reads instead of creating: "secret", "key"
    Address,        \* the contract a run deploys, or pins to
    Digest,         \* the digest a pin is asked for
    Digests,        \* what a call of the pin circuit may set
    Pin,            \* the name of that circuit
    Draws,          \* segments a pin's intent may be given
    Answers(_),     \* what prover and balancer may make of a transaction
    Others,         \* transactions of strangers
    Genesis,        \* the contracts before any run
    Kept,           \* the protected files before any run
    MaxMaintained,  \* bound on maintenance updates
    MaxChain        \* bound on the chain's length

\* A secret or a signing key is the run that drew it (None: somebody before); a file cut
\* short by a crash or a short write holds neither.
Contents == [kind : {"secret", "key", "torn"}, by : Runs \cup {None}]

\* The state of a contract.  A commitment stands for the secret committed to, and keys
\* for the circuits whose verifier key is the one built from the source.
ContractStates == [authority : Contents, committee : Contents, keys : SUBSET EntryPoints,
                   count : Nat, digest : Digests \cup {None}]

ASSUME DeploymentAssumption ==
    /\ Deploys \subseteq Runs /\ Teams \subseteq SUBSET Runs
    /\ Out \in [Runs -> Paths] /\ Address \in [Runs -> Contracts]
    /\ SecretFile \in [Runs -> Files] /\ KeyFile \in [Runs -> Files]
    /\ \A r, q \in Deploys : Address[r] = Address[q] => r = q
    /\ Genesis \in [Contracts -> ContractStates \cup {None}] /\ None \notin ContractStates
    /\ \A r \in Deploys : Genesis[Address[r]] = None
    /\ Reuses \in [Runs -> SUBSET {"secret", "key"}]
    /\ Digest \in [Runs -> Digests] /\ None \notin Digests /\ Pin \in EntryPoints
    /\ Kept \in [Files -> Contents \cup {None}]
    /\ None \notin Contents /\ Draws \subseteq Segments /\ MaxChain \in Nat /\ MaxMaintained \in Nat

VARIABLES
    pool,       \* transactions that circulate
    chain,      \* [tx, status, after]: what landed, and the contracts after it
    indexed,    \* how much of the chain the indexer shows
    files,      \* the content of each protected file, or None
    disk,       \* the record at each path, Absent at first
    pc,         \* where each run is
    held        \* what each run knows

vars == <<pool, chain, indexed, files, disk, pc, held>>

Drawn(kind, r) == [kind |-> kind, by |-> r]

ContractsAt(n) == IF n = 0 THEN Genesis ELSE chain[n].after

-----------------------------------------------------------------------------
(* Transactions: deployments, and calls whose transcript is the digest it sets *)

DeployOf(a, st) == [kind |-> "deploy", contract |-> a, state |-> st]
CallOf(a, e, g) == [kind |-> "call", contract |-> a, entry |-> e, guaranteed |-> g, fallible |-> None]

\* An intent of one action.  No two intents have the same randomness; maker stands for it.
Alone(action, r) == [actions |-> <<action>>, offer |-> FALSE, dust |-> FALSE, maker |-> r]

\* A transaction of one intent, as it leaves assembly.
Single(s, intent) == [EmptyTx EXCEPT !.intents = [x \in {s} |-> intent]]

\* Where the actions of a transaction are.
Places(t) == UNION {{<<s, k>> : k \in DOMAIN t.intents[s].actions} : s \in DOMAIN t.intents}
At(t, x) == t.intents[x[1]].actions[x[2]]

DeploysIn(t) == {x \in Places(t) : At(t, x).kind = "deploy"}
CallsOf(t, a, e) ==
    {x \in Places(t) : At(t, x).kind = "call" /\ At(t, x).contract = a /\ At(t, x).entry = e}
PinsOn(t, a) == {x \in CallsOf(t, a, Pin) : At(t, x).guaranteed # None}

\* deployIntentCheck: one intent holds a single deployment of the address with the built
\* state, and nothing else deploys anything or calls the contract.
DeployIntentCheck(t, a, st) ==
    /\ \A x \in DeploysIn(t) : At(t, x) = DeployOf(a, st) /\ Len(t.intents[x[1]].actions) = 1
    /\ \A x \in Places(t) : At(t, x).kind = "call" => At(t, x).contract # a
    /\ Cardinality(DeploysIn(t)) = 1

\* callIntentCheck: at the segment one guaranteed-only call of the circuit and nothing
\* else, and no call of that circuit in another intent.
CallIntentCheck(t, a, e, s) ==
    /\ s \in DOMAIN t.intents
    /\ LET intent == t.intents[s] IN
        /\ Len(intent.actions) = 1
        /\ intent.actions[1].kind = "call"
        /\ intent.actions[1].contract = a /\ intent.actions[1].entry = e
        /\ intent.actions[1].fallible = None /\ intent.actions[1].guaranteed # None
        /\ ~intent.offer /\ ~intent.dust
    /\ \A x \in CallsOf(t, a, e) : x[1] = s

\* What is deployed: the constructor's state, the committed keys, one maintenance key.
DeployedState(secret, key) ==
    [authority |-> secret, committee |-> key, keys |-> EntryPoints, count |-> 0, digest |-> None]

\* The transactions a run may build.
Drafts(r) ==
    IF r \in Deploys
    THEN {Single(1, Alone(DeployOf(Address[r], DeployedState(x[1], x[2])), r)) : x \in Contents \X Contents}
    ELSE {Single(s, Alone(CallOf(Address[r], Pin, Digest[r]), r)) : s \in Draws}

\* What circulates here: deployments, and calls with transcripts for a board.
Acts == [kind : {"call"}, contract : Contracts, entry : EntryPoints,
         guaranteed : Digests \cup {None}, fallible : Digests \cup {None}]
        \cup [kind : {"deploy"}, contract : Contracts, state : ContractStates]
Sealed == [actions : Seq(Acts), offer : BOOLEAN, dust : BOOLEAN, maker : Runs \cup {None}]

IsSealed(t) ==
    /\ t = [intents |-> t.intents, zswap |-> t.zswap, form |-> t.form]
    /\ DOMAIN t.intents \subseteq Segments /\ t.intents \in [DOMAIN t.intents -> Sealed]
    /\ t.zswap \subseteq Segments /\ t.form \in Forms

\* All of t is made by r: nobody but a run itself makes an intent with its randomness, and
\* an address, being a hash of the deployment, is deployed by its own run only.
MadeBy(t, r) ==
    /\ \A s \in DOMAIN t.intents : t.intents[s].maker = r
    /\ \A x \in DeploysIn(t), q \in Deploys : At(t, x).contract = Address[q] => q = r

ASSUME MakersAssumption ==
    /\ None \notin Runs
    /\ \A r \in Runs : \A d \in Drafts(r) : \A t \in Answers(d) : IsSealed(t) /\ MadeBy(t, r)
    /\ \A u \in Others : IsSealed(u) /\ MadeBy(u, None)

-----------------------------------------------------------------------------
(* The ledger and the indexer *)

\* The segments whose fallible phase may fail: calls that have one, and deployments.
MayFail(t) == FallibleSegments(t) \cup {x[1] : x \in DeploysIn(t)}

Later(x, y) == x[1] > y[1] \/ (x[1] = y[1] /\ x[2] > y[2])

\* The digest the last pin of t on a sets.
LastPinned(t, a) ==
    At(t, CHOOSE x \in PinsOn(t, a) : \A y \in PinsOn(t, a) : x = y \/ Later(x, y)).guaranteed

\* The contract at a after t, whose segments in succeeded did not fail.
After(t, succeeded, a, st) ==
    IF st = None
    THEN LET made == {x \in DeploysIn(t) : x[1] \in succeeded /\ At(t, x).contract = a} IN
         IF made = {} THEN None ELSE At(t, CHOOSE x \in made : TRUE).state
    ELSE IF PinsOn(t, a) = {} THEN st
    ELSE [st EXCEPT !.count = @ + Cardinality(PinsOn(t, a)), !.digest = LastPinned(t, a)]

\* The guaranteed calls of t can be replayed: the contract is there and has the key they
\* were proven for.  They read nothing that changes.
Replays(t, contracts) ==
    \A a \in Contracts : PinsOn(t, a) # {} => contracts[a] # None /\ Pin \in contracts[a].keys

Unspent(t) == \A n \in DOMAIN chain : Identifiers(t) \cap Identifiers(chain[n].tx) = {}

\* What a block may include: what circulates, merged with each other or with a stranger's.
Circulating ==
    LET both == pool \cup {Merge(x[1], x[2]) : x \in {y \in pool \X pool : Mergeable(y[1], y[2])}}
    IN both \cup {Merge(x[1], x[2]) : x \in {y \in both \X Others : Mergeable(y[1], y[2])}}

Entry(t, status, contracts) == Append(chain, [tx |-> t, status |-> status, after |-> contracts])

\* A transaction lands: whole, in part, or as a failure that changes nothing.
Land ==
    /\ Len(chain) < MaxChain
    /\ \E t \in Circulating :
        /\ Unspent(t)
        /\ LET contracts == ContractsAt(Len(chain)) IN
            \/ /\ Replays(t, contracts)
               /\ \E succeeded \in SUBSET MayFail(t) :
                    chain' = Entry(t, IF succeeded = MayFail(t) THEN "SUCCESS" ELSE "PARTIAL_SUCCESS",
                                   [a \in Contracts |-> After(t, succeeded, a, contracts[a])])
            \/ chain' = Entry(t, "FAILURE", contracts)
    /\ UNCHANGED <<pool, indexed, files, disk, pc, held>>

\* Whoever holds the maintenance authority changes it, or removes or replaces keys.
Maintain ==
    /\ Len(chain) < MaxChain
    /\ Cardinality({n \in DOMAIN chain : chain[n].tx = EmptyTx}) < MaxMaintained
    /\ LET contracts == ContractsAt(Len(chain)) IN
        \E a \in {x \in Contracts : contracts[x] # None} :
            \E st \in {[contracts[a] EXCEPT !.keys = @ \ {Pin}],
                       [contracts[a] EXCEPT !.committee = Drawn("key", None)]} :
                chain' = Entry(EmptyTx, "SUCCESS", [contracts EXCEPT ![a] = st])
    /\ UNCHANGED <<pool, indexed, files, disk, pc, held>>

\* Mutant of Index: the indexer shows what is not there yet.
MutantIndex ==
    /\ indexed < MaxChain
    /\ indexed' = indexed + 1
    /\ UNCHANGED <<pool, chain, files, disk, pc, held>>

\* The indexer catches up with one more transaction.
Index ==
    /\ indexed < Len(chain)
    /\ indexed' = indexed + 1
    /\ UNCHANGED <<pool, chain, files, disk, pc, held>>

-----------------------------------------------------------------------------
(* What both commands do *)

Busy == {"openingSecret", "writingSecret", "readingSecret", "openingKey", "writingKey",
         "readingKey", "looking", "building", "built", "finalized", "sent", "waiting",
         "included"}
Ended == {"refused", "failed", "unseen", "unsuccessful", "unshown", "verified"}

Goto(r, stage) == pc' = [pc EXCEPT ![r] = stage]

\* No record: existsSync says no.
Absent == [run |-> None, stage |-> "absent", tx |-> None, count |-> None]

Exists(p) == disk[p].stage # "absent"

\* writeRecord: the public record, as of what the run knows now.
Save(r, stage) ==
    disk' = [disk EXCEPT ![Out[r]] = [run |-> r, stage |-> stage, tx |-> held'[r].tx,
                                      count |-> held'[r].count]]

\* The first thing either command does: assertNewRecord.
Start(r) ==
    /\ pc[r] = "idle"
    /\ \A q \in Runs : Out[q] = Out[r] => pc[q] \notin Busy
    /\ Goto(r, IF Exists(Out[r]) THEN "refused"
               ELSE IF r \in Deploys /\ "secret" \notin Reuses[r] THEN "openingSecret"
               ELSE "readingSecret")
    /\ UNCHANGED <<pool, chain, indexed, files, disk, held>>

\* Mutant of Creatable: the file is opened without O_EXCL.
MutantCreatable(f) == TRUE

\* O_CREAT | O_EXCL: only a file that is not there is created.
Creatable(f) == files[f] = None

Opening(kind) == IF kind = "secret" THEN "openingSecret" ELSE "openingKey"
Writing(kind) == IF kind = "secret" THEN "writingSecret" ELSE "writingKey"
Reading(kind) == IF kind = "secret" THEN "readingSecret" ELSE "readingKey"

\* writeSecretFile opens a new file for the secret, or for the maintenance key.
Open(r, kind, f) ==
    /\ pc[r] = Opening(kind)
    /\ IF Creatable(f)
       THEN files' = [files EXCEPT ![f] = Drawn("torn", r)] /\ Goto(r, Writing(kind))
       ELSE UNCHANGED files /\ Goto(r, "failed")
    /\ UNCHANGED <<pool, chain, indexed, disk, held>>

\* It writes, and reads back what it wrote; a short write makes it throw.
Write(r, kind, f) ==
    /\ pc[r] = Writing(kind)
    /\ \/ files' = [files EXCEPT ![f] = Drawn(kind, r)] /\ Goto(r, Reading(kind))
       \/ UNCHANGED files /\ Goto(r, "failed")
    /\ UNCHANGED <<pool, chain, indexed, disk, held>>

\* readWitnessSecret, readSigningKeyFile: the file holds one of its kind, or they throw.
Holding(f, kind) == files[f] # None /\ files[f].kind = kind

ReadSecret(r) ==
    /\ pc[r] = "readingSecret"
    /\ IF Holding(SecretFile[r], "secret")
       THEN /\ held' = [held EXCEPT ![r].secret = files[SecretFile[r]]]
            /\ Goto(r, IF r \notin Deploys THEN "looking"
                       ELSE IF "key" \in Reuses[r] THEN "readingKey" ELSE "openingKey")
       ELSE UNCHANGED held /\ Goto(r, "failed")
    /\ UNCHANGED <<pool, chain, indexed, files, disk>>

ReadKey(r) ==
    /\ pc[r] = "readingKey"
    /\ IF Holding(KeyFile[r], "key")
       THEN held' = [held EXCEPT ![r].key = files[KeyFile[r]]] /\ Goto(r, "building")
       ELSE UNCHANGED held /\ Goto(r, "failed")
    /\ UNCHANGED <<pool, chain, indexed, files, disk>>

\* What a deploy builds of what it has read.
BuiltState(r) == DeployedState(held[r].secret, held[r].key)

IntentCheck(r, t) ==
    IF r \in Deploys THEN DeployIntentCheck(t, Address[r], BuiltState(r))
    ELSE CallIntentCheck(t, Address[r], Pin, held[r].segment)

\* finalizeTransaction: proven, balanced and checked; the record is saved.
Finalize(r) ==
    /\ pc[r] = "built"
    /\ \E t \in Answers(held[r].tx) :
        /\ IntentCheck(r, t)
        /\ held' = [held EXCEPT ![r].tx = t]
    /\ Save(r, "finalized")
    /\ Goto(r, "finalized")
    /\ UNCHANGED <<pool, chain, indexed, files>>

\* submitSavedTransaction checks the saved bytes once more and hands them over; the
\* network may or may not take them.
Send(r) ==
    /\ pc[r] = "finalized"
    /\ IntentCheck(r, held[r].tx)
    /\ pool' \in {pool, pool \cup {held[r].tx}}
    /\ Goto(r, "sent")
    /\ UNCHANGED <<chain, indexed, files, disk, held>>

\* The submitter answers with an identifier; the wait begins.
SendReturns(r) ==
    /\ pc[r] = "sent" /\ held[r].tx \in pool
    /\ held' = held /\ Save(r, "submitted")
    /\ Goto(r, "waiting")
    /\ UNCHANGED <<pool, chain, indexed, files>>

\* Building, proving, balancing, submitting, waiting or a query throws, or the process
\* dies: what is on disk and in the network stays.
Stops(r) ==
    /\ pc[r] \in Busy
    /\ Goto(r, "failed")
    /\ UNCHANGED <<pool, chain, indexed, files, disk, held>>

\* Entry n of the chain carries an identifier of run r's transaction.
Own(r, n) == held[r].tx # None /\ Identifiers(held[r].tx) \cap Identifiers(chain[n].tx) # {}

\* The wait finds a transaction; the inclusion is saved, and only SUCCESS is good enough.
Poll(r) ==
    /\ pc[r] = "waiting"
    /\ \E n \in 1..indexed :
        /\ Own(r, n)
        /\ Goto(r, IF chain[n].status = "SUCCESS" THEN "included" ELSE "unsuccessful")
    /\ held' = held /\ Save(r, "included")
    /\ UNCHANGED <<pool, chain, indexed, files>>

\* Or ends without: "not seen before its TTL".
GiveUp(r) ==
    /\ pc[r] = "waiting"
    /\ \A n \in 1..indexed : ~Own(r, n)
    /\ Goto(r, "unseen")
    /\ UNCHANGED <<pool, chain, indexed, files, disk, held>>

-----------------------------------------------------------------------------
(* runDeploy *)

\* The parameters are fetched, the deployment built, its address saved before anything
\* is proven or sent.
BuildDeploy(r) ==
    /\ pc[r] = "building" /\ r \in Deploys
    /\ held' = [held EXCEPT ![r].tx = Single(1, Alone(DeployOf(Address[r], BuiltState(r)), r))]
    /\ Save(r, "built")
    /\ Goto(r, "built")
    /\ UNCHANGED <<pool, chain, indexed, files>>

\* The deployed state has the recorded keys, maintenance authority and authority.
DeployShown(r, st) ==
    /\ st # None
    /\ st.keys = EntryPoints
    /\ st.committee = held[r].key
    /\ st.authority = held[r].secret

-----------------------------------------------------------------------------
(* runPin *)

\* pinnedCount of a board, or undefined.
CountOf(st) == IF st = None THEN None ELSE st.count

\* The board is read before the call is built.  A query for a contract's state is one of
\* its own: it may be answered as of any moment of the chain that was indexed.
Look(r) ==
    /\ pc[r] = "looking"
    /\ \E n \in 0..indexed :
        held' = [held EXCEPT ![r].before = CountOf(ContractsAt(n)[Address[r]]), ![r].seen = n]
    /\ Goto(r, "building")
    /\ UNCHANGED <<pool, chain, indexed, files, disk>>

\* buildCircuitCallTransaction: the circuit runs against the state of the latest block,
\* where the board must have its key and the secret must be the authority's.
BuildPin(r) ==
    /\ pc[r] = "building" /\ r \notin Deploys
    /\ \E n \in 0..indexed :
        LET st == ContractsAt(n)[Address[r]] IN
        st # None /\ Pin \in st.keys /\ st.authority = held[r].secret
    /\ \E s \in Draws :
        held' = [held EXCEPT ![r].segment = s,
                             ![r].tx = Single(s, Alone(CallOf(Address[r], Pin, Digest[r]), r))]
    /\ Goto(r, "built")
    /\ UNCHANGED <<pool, chain, indexed, files, disk>>

\* Mutant of PinShown: the counters are not compared.
MutantPinShown(r, st) == st # None /\ st.digest = Digest[r]

\* The board has the digest, and its counter has moved by one.
PinShown(r, st) ==
    /\ st # None
    /\ st.digest = Digest[r]
    /\ held[r].before # None => st.count = held[r].before + 1

\* Mutant of Current: what was read before the call is looked at again.
MutantCurrent(r, n) == ContractsAt(held[r].seen)[Address[r]]

\* contractState, once the inclusion is known: answered as of entry n.
Current(r, n) == ContractsAt(n)[Address[r]]

\* The contract is read back, possibly as it was before the inclusion, and the run ends.
ReadBack(r) ==
    /\ pc[r] = "included"
    /\ \E n \in 0..indexed :
        LET st == Current(r, n) IN
        IF IF r \in Deploys THEN DeployShown(r, st) ELSE PinShown(r, st)
        THEN /\ held' = [held EXCEPT ![r].read = n,
                                     ![r].count = IF r \in Deploys THEN None ELSE st.count]
             /\ Save(r, "verified")
             /\ Goto(r, "verified")
        ELSE held' = [held EXCEPT ![r].read = n] /\ UNCHANGED disk /\ Goto(r, "unshown")
    /\ UNCHANGED <<pool, chain, indexed, files>>

-----------------------------------------------------------------------------
Nothing == [secret |-> None, key |-> None, segment |-> 0, tx |-> None,
            before |-> None, seen |-> 0, count |-> None, read |-> 0]

Init ==
    /\ pool = {} /\ chain = <<>> /\ indexed = 0
    /\ files = Kept
    /\ disk = [p \in Paths |-> Absent]
    /\ \E team \in Teams : pc = [r \in Runs |-> IF r \in team THEN "idle" ELSE "refused"]
    /\ held = [r \in Runs |-> Nothing]

Step(r) ==
    \/ Start(r)
    \/ Open(r, "secret", SecretFile[r]) \/ Write(r, "secret", SecretFile[r]) \/ ReadSecret(r)
    \/ Open(r, "key", KeyFile[r]) \/ Write(r, "key", KeyFile[r]) \/ ReadKey(r)
    \/ BuildDeploy(r) \/ Look(r) \/ BuildPin(r)
    \/ Finalize(r) \/ Send(r) \/ SendReturns(r) \/ Stops(r)
    \/ Poll(r) \/ GiveUp(r) \/ ReadBack(r)

Next == Land \/ Maintain \/ Index \/ \E r \in Runs : Step(r)

Spec == Init /\ [][Next]_vars

-----------------------------------------------------------------------------
(* Properties *)

Stages == {"built", "finalized", "submitted", "included", "verified"}

\* Type correctness, and how far each variable may be ahead of another.
TypeOK ==
    /\ indexed \in 0..Len(chain)
    /\ \A n \in DOMAIN chain :
        /\ chain[n].status \in {"SUCCESS", "PARTIAL_SUCCESS", "FAILURE"}
        /\ chain[n].after \in [Contracts -> ContractStates \cup {None}]
    /\ files \in [Files -> Contents \cup {None}]
    /\ pc \in [Runs -> {"idle"} \cup Busy \cup Ended]
    /\ \A p \in Paths : Exists(p) => disk[p].run \in Runs /\ disk[p].stage \in Stages
    /\ \A r \in Runs : held[r].secret \in Contents \cup {None} /\ held[r].seen \in 0..indexed /\ held[r].read \in 0..indexed

\* Some of run r's transaction t is on its way, or has landed.
Sent(r) ==
    held[r].tx # None /\ \E t \in pool : Identifiers(held[r].tx) \cap Identifiers(t) # {}

\* Whatever a deploy has sent can be found and administered, wherever it crashed and
\* whichever runs are given the same files: its address is on record at its path, and
\* the secret and the maintenance key the contract commits to are in their files ("a
\* lost address cannot be recovered afterwards", deploy.ts; writeSecretFile).
KeysKept ==
    \A r \in Deploys : Sent(r) =>
        /\ Exists(Out[r]) /\ disk[Out[r]].run = r
        /\ \A x \in DeploysIn(held[r].tx) :
            LET st == At(held[r].tx, x).state IN
            /\ At(held[r].tx, x).contract = Address[r]
            /\ st.authority = files[SecretFile[r]] /\ st.authority.kind = "secret"
            /\ st.committee = files[KeyFile[r]] /\ st.committee.kind = "key"

\* Somebody else changed what the run reads back.
Maintained(a) == \E n \in DOMAIN chain : chain[n].tx = EmptyTx /\ chain[n].after[a] # None
OtherPin(r) ==
    \E n \in DOMAIN chain :
        n > held[r].seen /\ Cardinality(PinsOn(chain[n].tx, Address[r])) > (IF Own(r, n) THEN 1 ELSE 0)

\* What a verified record says of the run's own entry n.
DeployTold(r, n) == chain[n].after[Address[r]] = BuiltState(r)
PinTold(r, n) ==
    held[r].before # None =>
        /\ held[r].count = held[r].before + 1
        /\ IF held[r].read < n THEN OtherPin(r)
           ELSE /\ chain[n].after[Address[r]].digest = Digest[r]
                /\ chain[n].after[Address[r]].count = held[r].before + 1

\* A record that says "verified" is true of the run's own transaction: it landed with
\* success, and made the contract as recorded, or set the digest and moved the counter
\* by one - not somebody else's pin, and not a transaction that sets another digest.
\* Only a contract state answered as of before the inclusion can show a pin its digest
\* and count by somebody else's pin.  A pin that found no board before it has its digest
\* shown by some other state.
VerifiedIsTrue ==
    \A p \in Paths : disk[p].stage = "verified" =>
        LET r == disk[p].run IN
        \E n \in DOMAIN chain :
            /\ Own(r, n) /\ chain[n].status = "SUCCESS"
            /\ IF r \in Deploys THEN DeployTold(r, n) ELSE PinTold(r, n)

\* The contract state was answered as of before the run's own entry ("the deployed
\* contract is not visible yet").
Behind(r) == \E n \in DOMAIN chain : Own(r, n) /\ held[r].read < n

\* A run whose transaction landed with success only reports that the contract does not
\* show it when the state it was given is older than the inclusion it had waited for, or
\* somebody else changed the contract, or prover or balancer returned a call that sets
\* another digest.
QuietVerifies ==
    \A r \in Runs : pc[r] = "unshown" =>
        \/ Behind(r)
        \/ IF r \in Deploys THEN Maintained(Address[r])
           ELSE OtherPin(r) \/ LastPinned(held[r].tx, Address[r]) # Digest[r]
=============================================================================
