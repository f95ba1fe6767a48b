---------------------------- MODULE DeploymentProofs ----------------------------
(***************************************************************************)
(* Theorems of Deployment for every instance: any number of deploys and    *)
(* pins, whichever files, record paths and contracts they are given, and   *)
(* whatever prover and balancer answer.  First what the machine keeps: no  *)
(* contract that was sent loses its address, its secret or its maintenance *)
(* key.  Then what the runs report: whatever is merged, fails in part, is  *)
(* maintained or pinned by others, and however old the state they read.    *)
(***************************************************************************)
EXTENDS Deployment, FiniteSetTheorems, SequenceTheorems, WellFoundedInduction, TLAPS

-----------------------------------------------------------------------------
(* What the machine keeps: the inductive invariant, in named parts *)

\* The stages a deploy reaches with its secret, and with its maintenance key too.
AfterBuild == {"built", "finalized", "sent", "waiting", "included"}
AfterKey == AfterBuild \cup {"building"}
AfterSecret == AfterKey \cup {"openingKey", "writingKey", "readingKey"}

\* What the run's variables look like.
Shape ==
    /\ pc \in [Runs -> {"idle"} \cup Busy \cup Ended]
    /\ files \in [Files -> Contents \cup {None}]
    /\ DOMAIN disk = Paths /\ DOMAIN held = Runs
    /\ \A r \in Runs :
        held[r] = [secret |-> held[r].secret, key |-> held[r].key, segment |-> held[r].segment,
                   tx |-> held[r].tx, before |-> held[r].before, seen |-> held[r].seen,
                   count |-> held[r].count, read |-> held[r].read]

\* A file being written is the one this run has created.
FilesOwned ==
    \A r \in Runs :
        /\ pc[r] = "writingSecret" => files[SecretFile[r]] = Drawn("torn", r)
        /\ pc[r] = "writingKey" => files[KeyFile[r]] = Drawn("torn", r)

\* What a run has read is still in its file.
KeysInFiles ==
    \A r \in Runs :
        /\ held[r].secret # None => held[r].secret = files[SecretFile[r]] /\ held[r].secret.kind = "secret"
        /\ held[r].key # None => held[r].key = files[KeyFile[r]] /\ held[r].key.kind = "key"

\* A deploy has read both before it builds.
KeysRead ==
    \A r \in Deploys :
        /\ pc[r] # "looking"
        /\ pc[r] \in AfterSecret => held[r].secret # None
        /\ pc[r] \in AfterKey => held[r].key # None

\* One busy run per record path, and the record there is its own.
PathOwned ==
    \A r \in Runs : pc[r] \in Busy =>
        /\ Exists(Out[r]) => disk[Out[r]].run = r
        /\ \A q \in Runs : Out[q] = Out[r] /\ pc[q] \in Busy => q = r

\* Every deployment in t is of r's address, with the state secret and key make.
Makes(t, r, secret, key) ==
    \A x \in DeploysIn(t) :
        At(t, x) = DeployOf(Address[r], [authority |-> secret, committee |-> key, keys |-> EntryPoints,
                                         count |-> 0, digest |-> None])

\* A built deployment is on record, and is that of what the run has read.
BuiltIsKept ==
    \A r \in Deploys : held[r].tx # None \/ pc[r] \in AfterBuild =>
        /\ held[r].secret # None /\ held[r].key # None
        /\ Exists(Out[r]) /\ disk[Out[r]].run = r
        /\ Makes(held[r].tx, r, held[r].secret, held[r].key)

IInv ==
    /\ Shape
    /\ FilesOwned
    /\ KeysInFiles
    /\ KeysRead
    /\ PathOwned
    /\ BuiltIsKept

-----------------------------------------------------------------------------
(* Lemmas *)

\* What run r draws is a content of a file, and a torn file tells who was writing it.
LEMMA Kinds ==
    ASSUME NEW r \in Runs
    PROVE  /\ Drawn("torn", r) \in Contents /\ Drawn("torn", r).kind = "torn"
           /\ Drawn("secret", r) \in Contents /\ Drawn("key", r) \in Contents
           /\ Drawn("torn", r) # None
           /\ SecretFile[r] \in Files /\ KeyFile[r] \in Files /\ Out[r] \in Paths
           /\ \A q \in Runs : Drawn("torn", q) = Drawn("torn", r) => q = r
BY DeploymentAssumption DEF Drawn, Contents

\* A deployment as it is built makes what was read (buildDeployTransaction).
LEMMA BuiltMakes ==
    ASSUME NEW r \in Runs
    PROVE  Makes(Single(1, Alone(DeployOf(Address[r], BuiltState(r)), r)), r, held[r].secret, held[r].key)
<1> DEFINE act == DeployOf(Address[r], BuiltState(r))
           t == Single(1, Alone(act, r))
<1>1. /\ t.intents = [x \in {1} |-> Alone(act, r)]
      /\ t.intents[1].actions = <<act>>
    BY DEF Single, EmptyTx, Alone
<1>2. ASSUME NEW x \in Places(t) PROVE At(t, x) = act
    <2>1. x = <<1, 1>>
        BY <1>1 DEF Places
    <2> QED BY <1>1, <2>1 DEF At
<1> QED BY <1>2 DEF DeploysIn, Makes, BuiltState, DeployedState

\* The check between the stages of finalizeTransaction keeps it so.
LEMMA CheckedMakes ==
    ASSUME NEW r \in Deploys, NEW t, IntentCheck(r, t)
    PROVE  Makes(t, r, held[r].secret, held[r].key)
BY DEF IntentCheck, DeployIntentCheck, Makes, BuiltState, DeployedState

\* What is built and on record stays so while records and knowledge are left alone.
LEMMA StaysBuilt ==
    ASSUME BuiltIsKept, UNCHANGED <<disk, held>>,
           \A q \in Deploys : pc'[q] \in AfterBuild => pc[q] \in AfterBuild
    PROVE  BuiltIsKept'
BY DEF BuiltIsKept, Exists, Makes, DeploysIn, Places, At

\* A step of one run that touches nothing but where it is: it ends, or goes on with
\* what it had.
LEMMA GoesOn ==
    ASSUME IInv, NEW r \in Runs, NEW x \in Ended \cup AfterKey,
           x \in AfterKey => pc[r] \in AfterBuild /\ x \in AfterBuild,
           pc' = [pc EXCEPT ![r] = x], UNCHANGED <<files, disk, held>>
    PROVE  IInv'
<1>0. x \in {"idle"} \cup Busy \cup Ended
    BY DEF Busy, AfterKey, AfterBuild
<1>1. Shape'
    <2>1. pc' \in [Runs -> {"idle"} \cup Busy \cup Ended]
        BY <1>0 DEF IInv, Shape
    <2> QED BY <2>1 DEF IInv, Shape
<1>2. \A q \in Runs : pc'[q] = IF q = r THEN x ELSE pc[q]
    BY DEF IInv, Shape
<1>3. FilesOwned' /\ KeysInFiles'
    BY <1>2 DEF IInv, FilesOwned, KeysInFiles, Ended, AfterKey, AfterBuild
<1>4. KeysRead'
    BY <1>2, DeploymentAssumption DEF IInv, KeysRead, Ended, AfterKey, AfterBuild, AfterSecret
<1>5. PathOwned'
    BY <1>2 DEF IInv, PathOwned, Exists, Busy, Ended, AfterKey, AfterBuild
<1>6. BuiltIsKept'
    <2>1. \A q \in Deploys : pc'[q] \in AfterBuild => pc[q] \in AfterBuild
        BY <1>2, DeploymentAssumption DEF AfterKey
    <2> QED BY <2>1, StaysBuilt DEF IInv
<1> QED BY <1>1, <1>3, <1>4, <1>5, <1>6 DEF IInv

\* A step of one run that saves its record: nobody else's record is at its path.
LEMMA SavesRecord ==
    ASSUME IInv, NEW r \in Runs, NEW x \in Ended \cup AfterKey, NEW stage \in Stages,
           pc[r] \in AfterKey, pc' = [pc EXCEPT ![r] = x], UNCHANGED files,
           Save(r, stage), DOMAIN held' = Runs, \A q \in Runs : q # r => held'[q] = held[q],
           held'[r] = [secret |-> held[r].secret, key |-> held[r].key, segment |-> held'[r].segment,
                       tx |-> held'[r].tx, before |-> held'[r].before, seen |-> held'[r].seen,
                       count |-> held'[r].count, read |-> held'[r].read],
           r \in Deploys => Makes(held'[r].tx, r, held[r].secret, held[r].key)
    PROVE  IInv'
<1>0. pc[r] \in Busy /\ Out[r] \in Paths
    BY DeploymentAssumption DEF Busy, AfterKey, AfterBuild
<1>1. /\ \A q \in Runs : pc'[q] = IF q = r THEN x ELSE pc[q]
      /\ \A q \in Runs : held'[q].secret = held[q].secret /\ held'[q].key = held[q].key
    BY DEF IInv, Shape
<1>2. /\ DOMAIN disk' = Paths /\ disk'[Out[r]].run = r /\ disk'[Out[r]].stage = stage
      /\ \A p \in Paths : p # Out[r] => disk'[p] = disk[p]
    BY <1>0 DEF IInv, Shape, Save
<1>3. Exists(Out[r])'
    BY <1>2 DEF Exists, Stages
<1>4. Shape'
    BY <1>2 DEF IInv, Shape, Busy, AfterKey, AfterBuild
<1>5. FilesOwned' /\ KeysInFiles'
    BY <1>1 DEF IInv, FilesOwned, KeysInFiles, Ended, AfterKey, AfterBuild
<1>6. KeysRead'
    BY <1>1, DeploymentAssumption DEF IInv, KeysRead, Ended, AfterKey, AfterBuild, AfterSecret
<1>7. ASSUME NEW q \in Runs, pc'[q] \in Busy
      PROVE  /\ Exists(Out[q])' => disk'[Out[q]].run = q
             /\ \A s \in Runs : Out[s] = Out[q] /\ pc'[s] \in Busy => s = q
    <2>1. pc[q] \in Busy /\ \A s \in Runs : pc'[s] \in Busy => pc[s] \in Busy
        BY <1>0, <1>1, <1>7
    <2>2. \A s \in Runs : Out[s] = Out[q] /\ pc[s] \in Busy => s = q
        BY <2>1 DEF IInv, PathOwned
    <2>3. CASE q = r
        BY <1>2, <2>1, <2>2, <2>3
    <2>4. CASE q # r
        <3>1. Out[q] # Out[r]
            BY <1>0, <2>2, <2>4
        <3>2. disk'[Out[q]] = disk[Out[q]]
            BY <1>2, <3>1, DeploymentAssumption
        <3> QED BY <2>1, <2>2, <3>2 DEF IInv, PathOwned, Exists
    <2> QED BY <2>3, <2>4
<1>8. PathOwned'
    BY <1>7 DEF PathOwned
<1>9. ASSUME NEW q \in Deploys, held'[q].tx # None \/ pc'[q] \in AfterBuild
      PROVE  /\ held'[q].secret # None /\ held'[q].key # None
             /\ Exists(Out[q])' /\ disk'[Out[q]].run = q
             /\ Makes(held'[q].tx, q, held'[q].secret, held'[q].key)
    <2>0. q \in Runs
        BY DeploymentAssumption
    <2>1. CASE q = r
        BY <1>1, <1>2, <1>3, <2>0, <2>1 DEF IInv, KeysRead, AfterSecret, AfterKey, AfterBuild
    <2>2. CASE q # r
        <3>1. /\ held[q].secret # None /\ held[q].key # None
              /\ Exists(Out[q]) /\ disk[Out[q]].run = q
              /\ Makes(held[q].tx, q, held[q].secret, held[q].key)
            BY <1>9, <2>0, <2>2 DEF IInv, BuiltIsKept
        <3>2. Out[q] # Out[r]
            BY <1>0, <2>2, <3>1 DEF IInv, PathOwned
        <3>3. disk'[Out[q]] = disk[Out[q]] /\ held'[q] = held[q]
            BY <1>2, <2>0, <2>2, <3>2, DeploymentAssumption
        <3> QED BY <3>1, <3>3 DEF Exists
    <2> QED BY <2>1, <2>2
<1>10. BuiltIsKept'
    BY <1>9 DEF BuiltIsKept, Makes, DeploysIn, Places, At
<1> QED BY <1>4, <1>5, <1>6, <1>8, <1>10 DEF IInv

\* A protected file changes hands only while it is absent or torn.
LEMMA FileChanges ==
    ASSUME IInv, NEW r \in Runs, NEW f \in Files, NEW content \in Contents, NEW x \in Busy,
           files[f] = None \/ files[f].kind = "torn",
           files[f] = None \/ files[f] = Drawn("torn", r),
           files' = [files EXCEPT ![f] = content], UNCHANGED <<disk, held>>,
           pc' = [pc EXCEPT ![r] = x], pc[r] \in Busy,
           x = "writingSecret" => f = SecretFile[r] /\ content = Drawn("torn", r),
           x = "writingKey" => f = KeyFile[r] /\ content = Drawn("torn", r),
           x \notin AfterKey, x # "looking",
           x \in AfterSecret => pc[r] \in AfterSecret
    PROVE  IInv'
<1>1. /\ \A q \in Runs : pc'[q] = IF q = r THEN x ELSE pc[q]
      /\ files' \in [Files -> Contents \cup {None}] /\ files'[f] = content
      /\ \A g \in Files : g # f => files'[g] = files[g]
    BY DEF IInv, Shape
<1>2. Shape'
    BY <1>1 DEF IInv, Shape
<1>3. ASSUME NEW q \in Runs
      PROVE  /\ pc'[q] = "writingSecret" => files'[SecretFile[q]] = Drawn("torn", q)
             /\ pc'[q] = "writingKey" => files'[KeyFile[q]] = Drawn("torn", q)
    <2>1. CASE q = r
        BY <1>1, <2>1
    <2>2. CASE q # r
        <3>1. Drawn("torn", q) # Drawn("torn", r) /\ Drawn("torn", q) # None
            BY <2>2, Kinds
        <3> QED BY <1>1, <2>2, <3>1, Kinds DEF IInv, FilesOwned
    <2> QED BY <2>1, <2>2
<1>4. FilesOwned'
    BY <1>3 DEF FilesOwned
<1>5. KeysInFiles'
    BY <1>1, Kinds DEF IInv, KeysInFiles
<1>6. KeysRead'
    BY <1>1, DeploymentAssumption DEF IInv, KeysRead
<1>7. PathOwned'
    BY <1>1 DEF IInv, PathOwned, Exists
<1>8. BuiltIsKept'
    <2>1. \A q \in Deploys : pc'[q] \in AfterBuild => pc[q] \in AfterBuild
        BY <1>1, DeploymentAssumption DEF AfterKey
    <2> QED BY <2>1, StaysBuilt DEF IInv
<1> QED BY <1>2, <1>4, <1>5, <1>6, <1>7, <1>8 DEF IInv

\* A step of one run that only learns: what it reads, or a pin's transaction; it may end.
LEMMA Learns ==
    ASSUME IInv, NEW r \in Runs, NEW x \in Busy \cup Ended, pc[r] \in Busy,
           pc' = [pc EXCEPT ![r] = x], UNCHANGED <<files, disk>>,
           x \notin {"writingSecret", "writingKey"},
           DOMAIN held' = Runs, \A q \in Runs : q # r => held'[q] = held[q],
           held'[r] = [secret |-> held'[r].secret, key |-> held'[r].key, segment |-> held'[r].segment,
                       tx |-> held'[r].tx, before |-> held'[r].before, seen |-> held'[r].seen,
                       count |-> held'[r].count, read |-> held'[r].read],
           held'[r].secret # None => held'[r].secret = files[SecretFile[r]] /\ held'[r].secret.kind = "secret",
           held'[r].key # None => held'[r].key = files[KeyFile[r]] /\ held'[r].key.kind = "key",
           held[r].secret # None => held'[r].secret = held[r].secret,
           held[r].key # None => held'[r].key = held[r].key,
           r \in Deploys => /\ held'[r].tx = held[r].tx /\ x # "looking" /\ x \notin AfterBuild
                            /\ x \in AfterSecret => held'[r].secret # None
                            /\ x \in AfterKey => held'[r].key # None
    PROVE  IInv'
<1>1. /\ \A q \in Runs : pc'[q] = IF q = r THEN x ELSE pc[q]
    BY DEF IInv, Shape
<1>2. Shape'
    BY <1>1 DEF IInv, Shape
<1>3. FilesOwned'
    BY <1>1 DEF IInv, FilesOwned
<1>4. KeysInFiles'
    BY DEF IInv, KeysInFiles
<1>5. KeysRead'
    BY <1>1, DeploymentAssumption DEF IInv, KeysRead
<1>6. PathOwned'
    BY <1>1 DEF IInv, PathOwned, Exists
<1>7. ASSUME NEW q \in Deploys, held'[q].tx # None \/ pc'[q] \in AfterBuild
      PROVE  /\ held'[q].secret # None /\ held'[q].key # None
             /\ Exists(Out[q])' /\ disk'[Out[q]].run = q
             /\ Makes(held'[q].tx, q, held'[q].secret, held'[q].key)
    <2>1. q \in Runs /\ held'[q].tx = held[q].tx
        BY DeploymentAssumption
    <2>2. /\ held[q].secret # None /\ held[q].key # None
          /\ Exists(Out[q]) /\ disk[Out[q]].run = q
          /\ Makes(held[q].tx, q, held[q].secret, held[q].key)
        BY <1>7, <2>1 DEF IInv, BuiltIsKept
    <2>3. held'[q].secret = held[q].secret /\ held'[q].key = held[q].key
        BY <2>1, <2>2
    <2> QED BY <2>1, <2>2, <2>3 DEF Exists
<1>8. BuiltIsKept'
    BY <1>7 DEF BuiltIsKept, Makes, DeploysIn, Places, At
<1> QED BY <1>2, <1>3, <1>4, <1>5, <1>6, <1>8 DEF IInv

-----------------------------------------------------------------------------
(* The invariant is inductive *)

\* The named parts hold before anything starts.
LEMMA InitInv == Init => IInv
<1> SUFFICES ASSUME Init PROVE IInv
    OBVIOUS
<1>1. \A r \in Runs : pc[r] \in {"idle", "refused"} /\ held[r] = Nothing
    BY DEF Init
<1>2. Shape
    <2>1. pc \in [Runs -> {"idle"} \cup Busy \cup Ended]
        BY DEF Init, Ended
    <2> QED BY <2>1, DeploymentAssumption DEF Init, Shape, Nothing
<1>3. FilesOwned /\ KeysInFiles /\ BuiltIsKept
    BY <1>1, DeploymentAssumption DEF FilesOwned, KeysInFiles, BuiltIsKept, AfterBuild, Nothing
<1>4. KeysRead /\ PathOwned
    BY <1>1, DeploymentAssumption DEF KeysRead, PathOwned, AfterSecret, AfterKey, AfterBuild, Busy
<1> QED BY <1>2, <1>3, <1>4 DEF IInv

\* A run that starts finds its path free of records and of other runs.
LEMMA StartKeeps ==
    ASSUME IInv, NEW r \in Runs, Start(r)
    PROVE  IInv'
<1>1. /\ pc[r] = "idle" /\ UNCHANGED <<files, disk, held>>
      /\ \A q \in Runs : Out[q] = Out[r] => pc[q] \notin Busy
    BY DEF Start
<1>2. CASE Exists(Out[r])
    BY <1>1, <1>2, GoesOn DEF Start, Goto, Ended, AfterKey, AfterBuild
<1>3. CASE ~Exists(Out[r])
    <2>1. PICK x \in {"openingSecret", "readingSecret"} : pc' = [pc EXCEPT ![r] = x]
        BY <1>3 DEF Start, Goto
    <2>2. \A q \in Runs : pc'[q] = IF q = r THEN x ELSE pc[q]
        BY <2>1 DEF IInv, Shape
    <2>3. Shape'
        BY <1>1, <2>1 DEF IInv, Shape, Busy
    <2>4. FilesOwned' /\ KeysInFiles'
        BY <1>1, <2>2 DEF IInv, FilesOwned, KeysInFiles
    <2>5. KeysRead'
        BY <1>1, <2>2, DeploymentAssumption DEF IInv, KeysRead, AfterSecret, AfterKey, AfterBuild
    <2>6. PathOwned'
        BY <1>1, <1>3, <2>2 DEF IInv, PathOwned, Exists
    <2>7. BuiltIsKept'
        <3>1. \A q \in Deploys : pc'[q] \in AfterBuild => pc[q] \in AfterBuild
            BY <2>2, DeploymentAssumption DEF AfterBuild
        <3> QED BY <1>1, <3>1, StaysBuilt DEF IInv
    <2> QED BY <2>3, <2>4, <2>5, <2>6, <2>7 DEF IInv
<1> QED BY <1>2, <1>3

\* A file is created only where there is none, and filled only by its creator.
LEMMA FilesKeep ==
    ASSUME IInv, NEW r \in Runs, NEW kind \in {"secret", "key"}, NEW f \in Files,
           kind = "secret" => f = SecretFile[r], kind = "key" => f = KeyFile[r],
           Open(r, kind, f) \/ Write(r, kind, f)
    PROVE  IInv'
<1>1. pc[r] \in Busy /\ UNCHANGED <<disk, held>>
    BY DEF Open, Write, Opening, Writing, Busy
<1>2. CASE UNCHANGED files /\ Goto(r, "failed")
    BY <1>1, <1>2, GoesOn DEF Goto, Ended, AfterKey, AfterBuild
<1>3. CASE Open(r, kind, f) /\ ~(UNCHANGED files /\ Goto(r, "failed"))
    <2>1. /\ files[f] = None /\ files' = [files EXCEPT ![f] = Drawn("torn", r)]
          /\ pc' = [pc EXCEPT ![r] = Writing(kind)] /\ pc[r] = Opening(kind)
        BY <1>3 DEF Open, Creatable, Goto
    <2>2. CASE kind = "secret"
        <3>1. pc' = [pc EXCEPT ![r] = "writingSecret"] /\ f = SecretFile[r]
            BY <2>1, <2>2 DEF Writing
        <3> QED BY <1>1, <2>1, <3>1, FileChanges, Kinds DEF Busy, AfterSecret, AfterKey, AfterBuild
    <2>3. CASE kind = "key"
        <3>1. pc' = [pc EXCEPT ![r] = "writingKey"] /\ f = KeyFile[r] /\ pc[r] = "openingKey"
            BY <2>1, <2>3 DEF Writing, Opening
        <3> QED BY <1>1, <2>1, <3>1, FileChanges, Kinds DEF Busy, AfterSecret, AfterKey, AfterBuild
    <2> QED BY <2>2, <2>3
<1>4. CASE Write(r, kind, f) /\ ~(UNCHANGED files /\ Goto(r, "failed"))
    <2>1. /\ files' = [files EXCEPT ![f] = Drawn(kind, r)]
          /\ pc' = [pc EXCEPT ![r] = Reading(kind)] /\ pc[r] = Writing(kind)
        BY <1>4 DEF Write, Goto
    <2>2. CASE kind = "secret"
        <3>1. /\ pc' = [pc EXCEPT ![r] = "readingSecret"] /\ pc[r] = "writingSecret"
              /\ files' = [files EXCEPT ![f] = Drawn("secret", r)]
            BY <2>1, <2>2 DEF Writing, Reading
        <3>2. files[f] = Drawn("torn", r) /\ files[f].kind = "torn"
            BY <2>2, <3>1, Kinds DEF IInv, FilesOwned
        <3> QED BY <1>1, <3>1, <3>2, FileChanges, Kinds DEF Busy, AfterSecret, AfterKey, AfterBuild
    <2>3. CASE kind = "key"
        <3>1. /\ pc' = [pc EXCEPT ![r] = "readingKey"] /\ pc[r] = "writingKey"
              /\ files' = [files EXCEPT ![f] = Drawn("key", r)]
            BY <2>1, <2>3 DEF Writing, Reading
        <3>2. files[f] = Drawn("torn", r) /\ files[f].kind = "torn"
            BY <2>3, <3>1, Kinds DEF IInv, FilesOwned
        <3> QED BY <1>1, <3>1, <3>2, FileChanges, Kinds DEF Busy, AfterSecret, AfterKey, AfterBuild
    <2> QED BY <2>2, <2>3
<1> QED BY <1>2, <1>3, <1>4

\* What a run reads is what its file holds.
LEMMA ReadsKeep ==
    ASSUME IInv, NEW r \in Runs, ReadSecret(r) \/ ReadKey(r)
    PROVE  IInv'
<1>1. pc[r] \in {"readingSecret", "readingKey"} /\ pc[r] \in Busy /\ UNCHANGED <<files, disk>>
    BY DEF ReadSecret, ReadKey, Busy
<1>2. CASE UNCHANGED held /\ Goto(r, "failed")
    BY <1>1, <1>2, GoesOn DEF Goto, Ended, AfterKey, AfterBuild
<1>3. CASE ReadSecret(r) /\ Holding(SecretFile[r], "secret")
    <2>1. PICK x \in {"looking", "readingKey", "openingKey"} :
            pc' = [pc EXCEPT ![r] = x] /\ (r \in Deploys => x # "looking")
        BY <1>3 DEF ReadSecret, Goto
    <2>2. /\ pc[r] = "readingSecret" /\ held' = [held EXCEPT ![r].secret = files[SecretFile[r]]]
          /\ files[SecretFile[r]] # None /\ files[SecretFile[r]].kind = "secret"
        BY <1>3 DEF ReadSecret, Holding
    <2>3. /\ DOMAIN held' = Runs /\ \A q \in Runs : q # r => held'[q] = held[q]
          /\ held'[r] = [secret |-> files[SecretFile[r]], key |-> held[r].key,
                         segment |-> held[r].segment, tx |-> held[r].tx, before |-> held[r].before,
                         seen |-> held[r].seen, count |-> held[r].count, read |-> held[r].read]
        BY <2>2 DEF IInv, Shape
    <2>4. /\ held[r].secret # None => held[r].secret = files[SecretFile[r]]
          /\ held[r].key # None => held[r].key = files[KeyFile[r]] /\ held[r].key.kind = "key"
        BY DEF IInv, KeysInFiles
    <2>5. x \in Busy /\ x \notin {"writingSecret", "writingKey"} /\ x \notin AfterKey
          /\ x \notin AfterBuild
        BY DEF Busy, AfterKey, AfterBuild
    <2>6. /\ held'[r] = [secret |-> held'[r].secret, key |-> held'[r].key,
                          segment |-> held'[r].segment, tx |-> held'[r].tx,
                          before |-> held'[r].before, seen |-> held'[r].seen,
                          count |-> held'[r].count, read |-> held'[r].read]
          /\ held'[r].secret = files[SecretFile[r]] /\ held'[r].secret.kind = "secret"
          /\ held'[r].secret # None
          /\ held'[r].key = held[r].key /\ held'[r].tx = held[r].tx
        BY <2>2, <2>3
    <2> QED BY <1>1, <2>1, <2>3, <2>4, <2>5, <2>6, Learns
<1>4. CASE ReadKey(r) /\ Holding(KeyFile[r], "key")
    <2>1. /\ pc[r] = "readingKey" /\ held' = [held EXCEPT ![r].key = files[KeyFile[r]]]
          /\ files[KeyFile[r]] # None /\ files[KeyFile[r]].kind = "key"
          /\ pc' = [pc EXCEPT ![r] = "building"]
        BY <1>4 DEF ReadKey, Holding, Goto
    <2>2. /\ DOMAIN held' = Runs /\ \A q \in Runs : q # r => held'[q] = held[q]
          /\ held'[r] = [secret |-> held[r].secret, key |-> files[KeyFile[r]],
                         segment |-> held[r].segment, tx |-> held[r].tx, before |-> held[r].before,
                         seen |-> held[r].seen, count |-> held[r].count, read |-> held[r].read]
        BY <2>1 DEF IInv, Shape
    <2>3. /\ held[r].secret # None => held[r].secret = files[SecretFile[r]] /\ held[r].secret.kind = "secret"
          /\ held[r].key # None => held[r].key = files[KeyFile[r]]
          /\ r \in Deploys => held[r].secret # None
        BY <2>1 DEF IInv, KeysInFiles, KeysRead, AfterSecret, AfterKey, AfterBuild
    <2>4. /\ "building" \in Busy /\ "building" \notin {"writingSecret", "writingKey"}
          /\ "building" \notin AfterBuild
        BY DEF Busy, AfterBuild
    <2>5. /\ held'[r] = [secret |-> held'[r].secret, key |-> held'[r].key,
                          segment |-> held'[r].segment, tx |-> held'[r].tx,
                          before |-> held'[r].before, seen |-> held'[r].seen,
                          count |-> held'[r].count, read |-> held'[r].read]
          /\ held'[r].key = files[KeyFile[r]] /\ held'[r].key.kind = "key" /\ held'[r].key # None
          /\ held'[r].secret = held[r].secret /\ held'[r].tx = held[r].tx
        BY <2>1, <2>2
    <2>6. /\ held[r].secret # None => held'[r].secret = held[r].secret
          /\ held[r].key # None => held'[r].key = held[r].key
          /\ held'[r].secret # None => held'[r].secret = files[SecretFile[r]] /\ held'[r].secret.kind = "secret"
          /\ held'[r].key # None => held'[r].key = files[KeyFile[r]] /\ held'[r].key.kind = "key"
          /\ r \in Deploys => held'[r].secret # None
        BY <2>3, <2>5
    <2>7. /\ DOMAIN held' = Runs /\ \A q \in Runs : q # r => held'[q] = held[q]
          /\ pc' = [pc EXCEPT ![r] = "building"]
        BY <2>1, <2>2
    <2>8. PICK x \in Busy : x = "building"
        BY <2>4
    <2> QED BY <1>1, <2>4, <2>5, <2>6, <2>7, <2>8, Learns
<1> QED BY <1>2, <1>3, <1>4 DEF ReadSecret, ReadKey

\* A pin looks at the board, and builds its call: nothing of a deploy.
LEMMA PinsKeep ==
    ASSUME IInv, NEW r \in Runs, Look(r) \/ BuildPin(r)
    PROVE  IInv'
<1>1. r \notin Deploys /\ pc[r] \in Busy /\ UNCHANGED <<files, disk>>
    BY DEF Look, BuildPin, IInv, KeysRead, Busy
<1>2. PICK x \in {"building", "built"} : pc' = [pc EXCEPT ![r] = x]
    BY DEF Look, BuildPin, Goto
<1>3. /\ DOMAIN held' = Runs /\ \A q \in Runs : q # r => held'[q] = held[q]
      /\ held'[r] = [secret |-> held[r].secret, key |-> held[r].key,
                     segment |-> held'[r].segment, tx |-> held'[r].tx, before |-> held'[r].before,
                     seen |-> held'[r].seen, count |-> held'[r].count, read |-> held'[r].read]
    <2>0. /\ DOMAIN held = Runs
          /\ held[r] = [secret |-> held[r].secret, key |-> held[r].key, segment |-> held[r].segment,
                        tx |-> held[r].tx, before |-> held[r].before, seen |-> held[r].seen,
                        count |-> held[r].count, read |-> held[r].read]
        BY DEF IInv, Shape
    <2>1. CASE Look(r)
        <3>1. PICK b, n : held' = [held EXCEPT ![r].before = b, ![r].seen = n]
            BY <2>1 DEF Look
        <3>2. held'[r] = [held[r] EXCEPT !.before = b, !.seen = n]
            BY <2>0, <3>1
        <3> QED BY <2>0, <3>1, <3>2
    <2>2. CASE BuildPin(r)
        <3>1. PICK s, t : held' = [held EXCEPT ![r].segment = s, ![r].tx = t]
            BY <2>2 DEF BuildPin
        <3>2. held'[r] = [held[r] EXCEPT !.segment = s, !.tx = t]
            BY <2>0, <3>1
        <3> QED BY <2>0, <3>1, <3>2
    <2> QED BY <2>1, <2>2
<1>4. /\ held[r].secret # None => held[r].secret = files[SecretFile[r]] /\ held[r].secret.kind = "secret"
      /\ held[r].key # None => held[r].key = files[KeyFile[r]] /\ held[r].key.kind = "key"
    BY DEF IInv, KeysInFiles
<1>5. x \in Busy /\ x \notin {"writingSecret", "writingKey"}
    BY DEF Busy
<1>6. /\ held'[r].secret = held[r].secret /\ held'[r].key = held[r].key
      /\ held'[r] = [secret |-> held'[r].secret, key |-> held'[r].key,
                     segment |-> held'[r].segment, tx |-> held'[r].tx, before |-> held'[r].before,
                     seen |-> held'[r].seen, count |-> held'[r].count, read |-> held'[r].read]
    BY <1>3
<1> QED BY <1>1, <1>2, <1>3, <1>4, <1>5, <1>6, Learns

\* Every save is of the run's own deployment, as it was built.
LEMMA SavesKeep ==
    ASSUME IInv, NEW r \in Runs,
           BuildDeploy(r) \/ Finalize(r) \/ SendReturns(r) \/ Poll(r) \/ ReadBack(r)
    PROVE  IInv'
<1>1. UNCHANGED files /\ pc[r] \in AfterKey
    BY DEF BuildDeploy, Finalize, SendReturns, Poll, ReadBack, AfterKey, AfterBuild
<1>2. /\ DOMAIN held = Runs
      /\ held[r] = [secret |-> held[r].secret, key |-> held[r].key, segment |-> held[r].segment,
                    tx |-> held[r].tx, before |-> held[r].before, seen |-> held[r].seen,
                    count |-> held[r].count, read |-> held[r].read]
    BY DEF IInv, Shape
<1>3. CASE BuildDeploy(r)
    <2>1. /\ held' = [held EXCEPT ![r].tx = Single(1, Alone(DeployOf(Address[r], BuiltState(r)), r))]
          /\ Save(r, "built") /\ pc' = [pc EXCEPT ![r] = "built"]
        BY <1>3 DEF BuildDeploy, Goto
    <2>2. /\ DOMAIN held' = Runs /\ \A q \in Runs : q # r => held'[q] = held[q]
          /\ held'[r] = [secret |-> held[r].secret, key |-> held[r].key,
                         segment |-> held'[r].segment, tx |-> held'[r].tx, before |-> held'[r].before,
                         seen |-> held'[r].seen, count |-> held'[r].count, read |-> held'[r].read]
          /\ held'[r].tx = Single(1, Alone(DeployOf(Address[r], BuiltState(r)), r))
        BY <1>2, <2>1
    <2>3. Makes(held'[r].tx, r, held[r].secret, held[r].key)
        BY <2>2, BuiltMakes
    <2>4. "built" \in AfterKey /\ "built" \in Stages
        BY DEF AfterKey, AfterBuild, Stages
    <2> QED BY <1>1, <2>1, <2>2, <2>3, <2>4, SavesRecord
<1>4. CASE Finalize(r)
    <2>1. PICK t : IntentCheck(r, t) /\ held' = [held EXCEPT ![r].tx = t]
        BY <1>4 DEF Finalize
    <2>2. Save(r, "finalized") /\ pc' = [pc EXCEPT ![r] = "finalized"]
        BY <1>4 DEF Finalize, Goto
    <2>3. /\ DOMAIN held' = Runs /\ \A q \in Runs : q # r => held'[q] = held[q]
          /\ held'[r] = [secret |-> held[r].secret, key |-> held[r].key,
                         segment |-> held'[r].segment, tx |-> held'[r].tx, before |-> held'[r].before,
                         seen |-> held'[r].seen, count |-> held'[r].count, read |-> held'[r].read]
          /\ held'[r].tx = t
        BY <1>2, <2>1
    <2>4. r \in Deploys => Makes(held'[r].tx, r, held[r].secret, held[r].key)
        BY <2>1, <2>3, CheckedMakes
    <2>5. "finalized" \in AfterKey /\ "finalized" \in Stages
        BY DEF AfterKey, AfterBuild, Stages
    <2> QED BY <1>1, <2>2, <2>3, <2>4, <2>5, SavesRecord
<1>5. ASSUME SendReturns(r) \/ Poll(r) \/ ReadBack(r)
      PROVE  r \in Deploys => Makes(held[r].tx, r, held[r].secret, held[r].key)
    BY <1>5 DEF IInv, BuiltIsKept, SendReturns, Poll, ReadBack, AfterBuild
<1>6. CASE SendReturns(r) \/ Poll(r)
    <2>1. PICK x \in {"waiting", "included", "unsuccessful"}, stage \in {"submitted", "included"} :
            held' = held /\ Save(r, stage) /\ pc' = [pc EXCEPT ![r] = x]
        BY <1>6 DEF SendReturns, Poll, Goto
    <2>2. x \in Ended \cup AfterKey /\ stage \in Stages
        BY DEF Ended, AfterKey, AfterBuild, Stages
    <2> QED BY <1>1, <1>2, <1>5, <1>6, <2>1, <2>2, SavesRecord
<1>7. CASE ReadBack(r)
    <2>0. PICK k \in 0..indexed : \E c :
            \/ /\ held' = [held EXCEPT ![r].read = k, ![r].count = c]
               /\ Save(r, "verified") /\ pc' = [pc EXCEPT ![r] = "verified"]
            \/ /\ held' = [held EXCEPT ![r].read = k]
               /\ UNCHANGED disk /\ pc' = [pc EXCEPT ![r] = "unshown"]
        BY <1>7 DEF ReadBack, Goto
    <2>1. PICK c :
            \/ /\ held' = [held EXCEPT ![r].read = k, ![r].count = c]
               /\ Save(r, "verified") /\ pc' = [pc EXCEPT ![r] = "verified"]
            \/ /\ held' = [held EXCEPT ![r].read = k]
               /\ UNCHANGED disk /\ pc' = [pc EXCEPT ![r] = "unshown"]
        BY <2>0
    <2>2. ASSUME held' = [held EXCEPT ![r].read = k], UNCHANGED disk, pc' = [pc EXCEPT ![r] = "unshown"]
          PROVE  IInv'
        <3>1. /\ DOMAIN held' = Runs /\ \A q \in Runs : q # r => held'[q] = held[q]
              /\ held'[r] = [held[r] EXCEPT !.read = k]
            BY <1>2, <2>2
        <3>2. /\ held'[r] = [secret |-> held'[r].secret, key |-> held'[r].key, segment |-> held'[r].segment,
                             tx |-> held'[r].tx, before |-> held'[r].before, seen |-> held'[r].seen,
                             count |-> held'[r].count, read |-> held'[r].read]
              /\ held'[r].secret = held[r].secret /\ held'[r].key = held[r].key /\ held'[r].tx = held[r].tx
            BY <1>2, <3>1
        <3>3. /\ held[r].secret # None => held[r].secret = files[SecretFile[r]] /\ held[r].secret.kind = "secret"
              /\ held[r].key # None => held[r].key = files[KeyFile[r]] /\ held[r].key.kind = "key"
            BY DEF IInv, KeysInFiles
        <3>4. PICK x \in Busy \cup Ended :
                /\ x = "unshown" /\ x \notin {"writingSecret", "writingKey"} /\ x # "looking"
                /\ x \notin AfterBuild /\ x \notin AfterKey /\ x \notin AfterSecret
            BY DEF Ended, AfterBuild, AfterKey, AfterSecret
        <3>5. pc[r] \in Busy /\ pc' = [pc EXCEPT ![r] = x] /\ UNCHANGED <<files, disk>> /\ DOMAIN held' = Runs
            BY <1>1, <1>7, <2>2, <3>1, <3>4 DEF ReadBack, Busy
        <3>6. /\ held'[r].secret # None => held'[r].secret = files[SecretFile[r]] /\ held'[r].secret.kind = "secret"
              /\ held'[r].key # None => held'[r].key = files[KeyFile[r]] /\ held'[r].key.kind = "key"
            BY <3>2, <3>3
        <3> QED BY <3>1, <3>2, <3>4, <3>5, <3>6, Learns
    <2>3. ASSUME held' = [held EXCEPT ![r].read = k, ![r].count = c], Save(r, "verified"),
                 pc' = [pc EXCEPT ![r] = "verified"]
          PROVE  IInv'
        <3>1. /\ DOMAIN held' = Runs /\ \A q \in Runs : q # r => held'[q] = held[q]
              /\ held'[r] = [secret |-> held[r].secret, key |-> held[r].key,
                             segment |-> held'[r].segment, tx |-> held'[r].tx,
                             before |-> held'[r].before, seen |-> held'[r].seen,
                             count |-> held'[r].count, read |-> held'[r].read]
              /\ held'[r].tx = held[r].tx
            BY <1>2, <2>3
        <3>2. "verified" \in Ended \cup AfterKey /\ "verified" \in Stages
            BY DEF Ended, Stages
        <3> QED BY <1>1, <1>5, <1>7, <2>3, <3>1, <3>2, SavesRecord
    <2> QED BY <2>1, <2>2, <2>3
<1> QED BY <1>3, <1>4, <1>6, <1>7

\* Every step keeps the invariant.
LEMMA NextInv == IInv /\ [Next]_vars => IInv'
<1> SUFFICES ASSUME IInv, [Next]_vars PROVE IInv'
    OBVIOUS
<1>1. CASE UNCHANGED <<files, disk, pc, held>>
    <2>1. Shape' /\ FilesOwned' /\ KeysInFiles' /\ KeysRead'
        BY <1>1 DEF IInv, Shape, FilesOwned, KeysInFiles, KeysRead
    <2>2. PathOwned'
        BY <1>1 DEF IInv, PathOwned, Exists
    <2>3. ASSUME NEW r \in Deploys
          PROVE  Makes(held[r].tx, r, held[r].secret, held[r].key)'
                    <=> Makes(held[r].tx, r, held[r].secret, held[r].key)
        BY <1>1 DEF Makes, DeploysIn, Places, At
    <2>4. BuiltIsKept'
        BY <1>1, <2>3 DEF IInv, BuiltIsKept, Exists
    <2> QED BY <2>1, <2>2, <2>4 DEF IInv
<1>2. CASE Land \/ Maintain \/ Index \/ UNCHANGED vars
    BY <1>1, <1>2 DEF Land, Maintain, Index, vars
<1>3. ASSUME NEW r \in Runs, Step(r) PROVE IInv'
    <2>1. CASE Start(r)
        BY <2>1, StartKeeps
    <2>2. CASE Open(r, "secret", SecretFile[r]) \/ Write(r, "secret", SecretFile[r])
        BY <2>2, FilesKeep, Kinds
    <2>3. CASE Open(r, "key", KeyFile[r]) \/ Write(r, "key", KeyFile[r])
        BY <2>3, FilesKeep, Kinds
    <2>4. CASE ReadSecret(r) \/ ReadKey(r)
        BY <2>4, ReadsKeep
    <2>5. CASE Look(r) \/ BuildPin(r)
        BY <2>5, PinsKeep
    <2>6. CASE BuildDeploy(r) \/ Finalize(r) \/ SendReturns(r) \/ Poll(r) \/ ReadBack(r)
        BY <2>6, SavesKeep
    <2>7. CASE Send(r)
        BY <2>7, GoesOn DEF Send, Goto, AfterKey, AfterBuild
    <2>8. CASE Stops(r) \/ GiveUp(r)
        BY <2>8, GoesOn DEF Stops, GiveUp, Goto, Ended, AfterKey, AfterBuild
    <2> QED BY <1>3, <2>1, <2>2, <2>3, <2>4, <2>5, <2>6, <2>7, <2>8 DEF Step
<1> QED BY <1>2, <1>3 DEF Next

\* The named parts above hold at all times.
THEOREM Invariance == Spec => []IInv
BY InitInv, NextInv, PTL DEF Spec

-----------------------------------------------------------------------------
(* What follows *)

\* Whatever a deploy has sent can be found and administered: its address is on record,
\* and the secret and the key it commits to are in their files, at every crash and
\* whichever runs share a file or a path.
THEOREM KeysAreKept == Spec => []KeysKept
<1>1. IInv => KeysKept
    <2> SUFFICES ASSUME IInv, NEW r \in Deploys, Sent(r)
                 PROVE  /\ Exists(Out[r]) /\ disk[Out[r]].run = r
                        /\ \A x \in DeploysIn(held[r].tx) :
                            LET st == At(held[r].tx, x).state IN
                            /\ At(held[r].tx, x).contract = Address[r]
                            /\ st.authority = files[SecretFile[r]] /\ st.authority.kind = "secret"
                            /\ st.committee = files[KeyFile[r]] /\ st.committee.kind = "key"
        BY DEF KeysKept
    <2>1. /\ held[r].secret # None /\ held[r].key # None
          /\ Exists(Out[r]) /\ disk[Out[r]].run = r
          /\ Makes(held[r].tx, r, held[r].secret, held[r].key)
        BY DEF IInv, BuiltIsKept, Sent
    <2>2. /\ held[r].secret = files[SecretFile[r]] /\ held[r].secret.kind = "secret"
          /\ held[r].key = files[KeyFile[r]] /\ held[r].key.kind = "key"
        BY <2>1, DeploymentAssumption DEF IInv, KeysInFiles
    <2>3. ASSUME NEW x \in DeploysIn(held[r].tx)
          PROVE  /\ At(held[r].tx, x).contract = Address[r]
                 /\ At(held[r].tx, x).state.authority = held[r].secret
                 /\ At(held[r].tx, x).state.committee = held[r].key
        BY <2>1 DEF Makes, DeployOf
    <2> QED BY <2>1, <2>2, <2>3
<1> QED BY Invariance, <1>1, PTL

-----------------------------------------------------------------------------
(* What the runs report: the inductive invariant, in named parts *)

\* What may circulate, and what the chain is made of.
Txs == [intents : UNION {[S -> Sealed] : S \in SUBSET Segments}, zswap : SUBSET Segments, form : Forms]

Boards == ContractStates \cup {None}
Entries == [tx : Txs, status : {"SUCCESS", "PARTIAL_SUCCESS", "FAILURE"}, after : [Contracts -> Boards]]

\* What the other variables look like.
Form ==
    /\ chain \in Seq(Entries) /\ indexed \in 0..Len(chain)
    /\ \A r \in Runs : /\ held[r].secret \in Contents \cup {None} /\ held[r].key \in Contents \cup {None}
                       /\ held[r].seen \in 0..indexed /\ held[r].read \in 0..indexed
    /\ \A p \in Paths : Exists(p) => disk[p].run \in Runs /\ disk[p].stage \in Stages

\* Where a run is before it has built anything, and where it may be once it has sent it.
Early == {"idle", "openingSecret", "writingSecret", "readingSecret", "openingKey", "writingKey",
          "readingKey", "looking", "building"}
Launched == {"sent", "waiting", "included"} \cup Ended

\* Run r has a transaction of its own that passes its check.
HasOwn(r) == IsSealed(held[r].tx) /\ MadeBy(held[r].tx, r) /\ IntentCheck(r, held[r].tx)

\* What a run has is built by it, and checked after prover and balancer have seen it.
OwnTx(r) ==
    /\ pc[r] \in Early => held[r].tx = None
    /\ pc[r] = "built" => held[r].tx \in Drafts(r)
    /\ pc[r] \in {"finalized", "sent", "waiting", "included"} => HasOwn(r)

TxsAreOwn == \A r \in Runs : OwnTx(r)

\* What circulates was checked by its run.
PoolIsOwn ==
    \A t \in pool : \E r \in Runs : t = held[r].tx /\ pc[r] \in Launched /\ HasOwn(r)

\* t carries what the makers of its intents have sent, whole, and nobody else's deployment.
Carried(t) ==
    /\ \A s \in DOMAIN t.intents : \A r \in Runs : t.intents[s].maker = r =>
        /\ pc[r] \in Launched /\ HasOwn(r) /\ s \in DOMAIN held[r].tx.intents
        /\ \A z \in DOMAIN held[r].tx.intents :
            z \in DOMAIN t.intents /\ t.intents[z] = held[r].tx.intents[z]
    /\ \A x \in DeploysIn(t), q \in Deploys :
        At(t, x).contract = Address[q] => t.intents[x[1]].maker = q

ChainIsCarried == \A n \in DOMAIN chain : Carried(chain[n].tx)

\* Entry n has an intent of run r; a run has one entry.
Has(t, r) == \E s \in DOMAIN t.intents : t.intents[s].maker = r
Mine(r, n) == Has(chain[n].tx, r)
Once == \A r \in Runs : \A m, n \in DOMAIN chain : Mine(r, m) /\ Mine(r, n) => m = n

\* A contract once made is never unmade.  Its counter never steps back, its digest changes
\* with the counter only, the counter with pins only, and its keys by maintenance only.
Follows(a, m, n) ==
    LET x == ContractsAt(m)[a] y == ContractsAt(n)[a] IN
    x # None =>
        /\ y # None /\ y.authority = x.authority /\ x.count <= y.count
        /\ x.count = y.count => x.digest = y.digest
        /\ (\A k \in (m + 1)..n : PinsOn(chain[k].tx, a) = {}) => x.count = y.count
        /\ ~Maintained(a) => y.committee = x.committee /\ y.keys = x.keys

ContractsGrow == \A a \in Contracts, n \in 0..Len(chain) : \A m \in 0..n : Follows(a, m, n)

\* A contract that is deployed is so by its run.
ByItsRun ==
    \A r \in Deploys, n \in 0..Len(chain) :
        ContractsAt(n)[Address[r]] # None => \E m \in 1..n : Mine(r, m)

\* What a run's own entry does when it lands with success.
DoesAsBuilt ==
    \A r \in Runs, n \in DOMAIN chain : Mine(r, n) /\ chain[n].status = "SUCCESS" =>
        LET a == Address[r] x == ContractsAt(n - 1)[a] y == ContractsAt(n)[a] IN
        IF r \in Deploys THEN y = BuiltState(r)
        ELSE /\ x # None /\ y # None
             /\ y.count = x.count + Cardinality(PinsOn(chain[n].tx, a))
             /\ y.digest = LastPinned(chain[n].tx, a)

\* A pin has looked before it landed, and remembers what it saw.
Remembers(r) ==
    held[r].before # None =>
        LET x == ContractsAt(held[r].seen)[Address[r]] IN x # None /\ x.count = held[r].before

LooksFirst(r) == \A n \in DOMAIN chain : Mine(r, n) => held[r].seen < n

LookedBefore == \A r \in Runs : Remembers(r) /\ LooksFirst(r)

\* What the wait has found.
Found(r) == \E n \in 1..indexed : Own(r, n) /\ chain[n].status = "SUCCESS"

WaitIsOver == \A r \in Runs : pc[r] = "included" => Found(r)

VerifiedHasEnded ==
    \A p \in Paths : disk[p].stage = "verified" =>
        disk[p].run \in Runs /\ pc[disk[p].run] = "verified"

\* VerifiedIsTrue and QuietVerifies, for one run.
Told(r) ==
    \E n \in DOMAIN chain :
        /\ Own(r, n) /\ chain[n].status = "SUCCESS"
        /\ IF r \in Deploys THEN DeployTold(r, n) ELSE PinTold(r, n)

Quiet(r) ==
    \/ Behind(r)
    \/ IF r \in Deploys THEN Maintained(Address[r])
       ELSE OtherPin(r) \/ LastPinned(held[r].tx, Address[r]) # Digest[r]

RInv ==
    /\ Form
    /\ TxsAreOwn
    /\ PoolIsOwn
    /\ ChainIsCarried
    /\ Once
    /\ ContractsGrow
    /\ ByItsRun
    /\ DoesAsBuilt
    /\ LookedBefore
    /\ WaitIsOver
    /\ VerifiedHasEnded
    /\ VerifiedIsTrue
    /\ QuietVerifies

-----------------------------------------------------------------------------
(* Pins in a transaction *)

\* A bounded set of numbers has a highest one.
LEMMA Highest ==
    ASSUME NEW S \in SUBSET Nat, S # {}, NEW n \in Nat, \A x \in S : x <= n
    PROVE  \E m \in S : \A x \in S : x <= m
<1> DEFINE R == {y \in Nat \X Nat : y[1] < y[2]}
           T == {n - x : x \in S}
<1>1. IsWellFoundedOn(R, Nat)
    <2>1. OpToRel(<, Nat) = R
        BY DEF OpToRel
    <2> QED BY <2>1, NatLessThanWellFounded
<1>2. T \subseteq Nat /\ T # {}
    <2>1. \A x \in S : n - x \in Nat
        OBVIOUS
    <2> QED BY <2>1
<1>3. PICK y \in T : \A z \in T : <<z, y>> \notin R
    <2> HIDE DEF R, T
    <2> QED BY <1>1, <1>2, WFMin
<1>4. PICK m \in S : y = n - m
    OBVIOUS
<1>5. ASSUME NEW x \in S PROVE x <= m
    <2>1. n - x \in T /\ n - x \in Nat /\ n - m \in Nat
        BY <1>2, <1>4
    <2>2. ~(n - x < n - m)
        BY <1>3, <1>4, <2>1
    <2> QED BY <2>2
<1> QED BY <1>5

\* The places of a transaction are a segment and a number each.
LEMMA PlacesForm ==
    ASSUME NEW t, IsSealed(t), NEW x \in Places(t)
    PROVE  /\ x = <<x[1], x[2]>>
           /\ x[1] \in DOMAIN t.intents /\ x[1] \in Segments
           /\ x[2] \in DOMAIN t.intents[x[1]].actions
           /\ t.intents[x[1]] \in Sealed /\ x[2] \in Nat
           /\ x[2] <= Len(t.intents[x[1]].actions) /\ Len(t.intents[x[1]].actions) \in Nat
           /\ At(t, x) \in Acts
<1>1. PICK s \in DOMAIN t.intents : \E k \in DOMAIN t.intents[s].actions : x = <<s, k>>
    BY DEF Places
<1>2. t.intents[s] \in Sealed /\ s \in Segments
    BY DEF IsSealed
<1>3. t.intents[s].actions \in Seq(Acts)
    BY <1>2 DEF Sealed
<1> HIDE DEF Acts
<1>4. PICK k \in DOMAIN t.intents[s].actions : x = <<s, k>>
    BY <1>1
<1>5. k \in Nat /\ k <= Len(t.intents[s].actions) /\ Len(t.intents[s].actions) \in Nat
      /\ t.intents[s].actions[k] \in Acts
    BY <1>3, <1>4
<1> QED BY <1>1, <1>2, <1>4, <1>5 DEF At

\* There are finitely many pins.
LEMMA PinsCount ==
    ASSUME NEW t, IsSealed(t), NEW a
    PROVE  /\ IsFiniteSet(PinsOn(t, a)) /\ Cardinality(PinsOn(t, a)) \in Nat
           /\ PinsOn(t, a) # {} => Cardinality(PinsOn(t, a)) >= 1
           /\ Cardinality(PinsOn(t, a)) = 0 => PinsOn(t, a) = {}
           /\ PinsOn(t, a) = {} => Cardinality(PinsOn(t, a)) = 0
           /\ \A x, y \in PinsOn(t, a) : Cardinality(PinsOn(t, a)) = 1 => x = y
<1> DEFINE At1(s) == {<<s, k>> : k \in DOMAIN t.intents[s].actions}
           f == [s \in DOMAIN t.intents |-> At1(s)]
           All == {f[s] : s \in DOMAIN t.intents}
<1>1. IsFiniteSet(DOMAIN t.intents)
    <2>1. DOMAIN t.intents \subseteq Segments
        BY DEF IsSealed
    <2>2. IsFiniteSet(Segments)
        BY FS_Interval, SegmentAssumption DEF Segments
    <2> QED BY <2>1, <2>2, FS_Subset
<1>2. IsFiniteSet(All)
    <2>1. f \in Surjection(DOMAIN t.intents, All)
        BY DEF Surjection
    <2> QED BY <1>1, <2>1, FS_Surjection
<1>3. ASSUME NEW s \in DOMAIN t.intents PROVE IsFiniteSet(At1(s))
    <2>1. t.intents[s].actions \in Seq(Acts)
        BY DEF IsSealed, Sealed
    <2>2. DOMAIN t.intents[s].actions = 1..Len(t.intents[s].actions) /\ Len(t.intents[s].actions) \in Nat
        BY <2>1
    <2>3. IsFiniteSet(DOMAIN t.intents[s].actions)
        BY <2>2, FS_Interval
    <2>4. At1(s) = {s} \X DOMAIN t.intents[s].actions
        OBVIOUS
    <2>5. IsFiniteSet({s})
        BY FS_Singleton
    <2>6. IsFiniteSet({s} \X DOMAIN t.intents[s].actions)
        BY <2>3, <2>5, FS_Product
    <2> HIDE DEF At1
    <2> QED BY <2>4, <2>6
<1>4. IsFiniteSet(UNION All)
    BY <1>2, <1>3, FS_UNION
<1>5. PinsOn(t, a) \subseteq UNION All
    BY DEF PinsOn, CallsOf, Places
<1>6. IsFiniteSet(PinsOn(t, a)) /\ Cardinality(PinsOn(t, a)) \in Nat
    BY <1>4, <1>5, FS_Subset, FS_CardinalityType
<1> HIDE DEF At1, All
<1>7. Cardinality(PinsOn(t, a)) = 0 <=> PinsOn(t, a) = {}
    BY <1>6, FS_EmptySet
<1>8. ASSUME Cardinality(PinsOn(t, a)) = 1, NEW x \in PinsOn(t, a), NEW y \in PinsOn(t, a)
      PROVE  x = y
    BY <1>6, <1>8, FS_Singleton
<1> QED BY <1>6, <1>7, <1>8

\* The digest a transaction leaves is that of one of its pins.
LEMMA LastPinnedIs ==
    ASSUME NEW t, IsSealed(t), NEW a, PinsOn(t, a) # {}
    PROVE  \E x \in PinsOn(t, a) : LastPinned(t, a) = At(t, x).guaranteed
<1> DEFINE P == PinsOn(t, a)
           S == {x[1] : x \in P}
<1>0. P \subseteq Places(t)
    BY DEF PinsOn, CallsOf
<1>1. \A x \in P : x = <<x[1], x[2]>> /\ x[1] \in Segments /\ x[2] \in Nat
                   /\ x[2] <= Len(t.intents[x[1]].actions) /\ Len(t.intents[x[1]].actions) \in Nat
    BY <1>0, PlacesForm
<1> HIDE DEF P
<1>2. PICK s \in S : \A z \in S : z <= s
    <2>1. S \in SUBSET Nat /\ S # {} /\ MaxSegment \in Nat /\ \A x \in S : x <= MaxSegment
        BY <1>1, SegmentAssumption DEF Segments, P
    <2> HIDE DEF S
    <2> QED BY <2>1, Highest
<1> DEFINE K == {x[2] : x \in {y \in P : y[1] = s}}
<1>3. PICK k \in K : \A z \in K : z <= k
    <2>1. K \in SUBSET Nat /\ K # {}
        BY <1>1, <1>2
    <2>2. Len(t.intents[s].actions) \in Nat /\ \A z \in K : z <= Len(t.intents[s].actions)
        BY <1>1, <1>2
    <2> HIDE DEF K
    <2> QED BY <2>1, <2>2, Highest
<1>4. PICK x \in P : x[1] = s /\ x[2] = k
    OBVIOUS
<1>5. ASSUME NEW y \in P PROVE x = y \/ Later(x, y)
    <2>1. y[1] <= s /\ (y[1] = s => y[2] <= k)
        BY <1>2, <1>3
    <2>2. s \in Nat /\ k \in Nat /\ y[1] \in Nat /\ y[2] \in Nat
        BY <1>1, <1>4 DEF Segments
    <2>3. x = <<s, k>> /\ y = <<y[1], y[2]>>
        BY <1>1, <1>4
    <2> QED BY <1>4, <2>1, <2>2, <2>3 DEF Later
<1> DEFINE last == CHOOSE z \in P : \A y \in P : z = y \/ Later(z, y)
<1>6. last \in P
    BY <1>4, <1>5
<1> QED BY <1>6 DEF LastPinned, P

-----------------------------------------------------------------------------
(* Transactions *)

\* A sealed transaction is a member of a set, as the chain's entries are.
LEMMA SealedTxs ==
    ASSUME NEW t
    PROVE  IsSealed(t) <=> t \in Txs
<1>1. ASSUME IsSealed(t) PROVE t \in Txs
    <2>1. t.intents \in UNION {[S -> Sealed] : S \in SUBSET Segments}
        BY <1>1 DEF IsSealed
    <2> QED BY <1>1, <2>1 DEF IsSealed, Txs
<1>2. ASSUME t \in Txs PROVE IsSealed(t)
    <2>1. PICK S \in SUBSET Segments : t.intents \in [S -> Sealed]
        BY <1>2 DEF Txs
    <2>2. DOMAIN t.intents = S
        BY <2>1
    <2> QED BY <1>2, <2>1, <2>2 DEF IsSealed, Txs
<1> QED BY <1>1, <1>2

\* A merge is a transaction, and carries the intents of both.
LEMMA MergeHas ==
    ASSUME NEW t, NEW u, IsSealed(t), IsSealed(u), Mergeable(t, u)
    PROVE  /\ IsSealed(Merge(t, u))
           /\ DOMAIN Merge(t, u).intents = DOMAIN t.intents \cup DOMAIN u.intents
           /\ \A s \in DOMAIN t.intents : Merge(t, u).intents[s] = t.intents[s]
           /\ \A s \in DOMAIN u.intents : Merge(t, u).intents[s] = u.intents[s]
<1>1. /\ DOMAIN Merge(t, u).intents = DOMAIN t.intents \cup DOMAIN u.intents
      /\ \A s \in DOMAIN t.intents : Merge(t, u).intents[s] = t.intents[s]
      /\ \A s \in DOMAIN u.intents : Merge(t, u).intents[s] = u.intents[s]
    BY DEF Merge, Mergeable
<1>2. /\ \A s \in DOMAIN t.intents : t.intents[s] \in Sealed
      /\ \A s \in DOMAIN u.intents : u.intents[s] \in Sealed
      /\ DOMAIN t.intents \subseteq Segments /\ DOMAIN u.intents \subseteq Segments
    BY DEF IsSealed
<1>3. Merge(t, u).intents \in [DOMAIN Merge(t, u).intents -> Sealed]
    BY <1>1, <1>2 DEF Merge
<1>4. Merge(t, u).zswap \subseteq Segments /\ Merge(t, u).form \in Forms
    BY DEF Merge, IsSealed
<1>5. Merge(t, u) = [intents |-> Merge(t, u).intents, zswap |-> Merge(t, u).zswap, form |-> Merge(t, u).form]
    BY DEF Merge
<1> QED BY <1>1, <1>2, <1>3, <1>4, <1>5 DEF IsSealed

\* Its places are those of both, with the same actions.
LEMMA MergedPlaces ==
    ASSUME NEW t, NEW u, IsSealed(t), IsSealed(u), Mergeable(t, u), NEW x \in Places(Merge(t, u))
    PROVE  \/ x \in Places(t) /\ At(Merge(t, u), x) = At(t, x) /\ Merge(t, u).intents[x[1]] = t.intents[x[1]]
           \/ x \in Places(u) /\ At(Merge(t, u), x) = At(u, x) /\ Merge(t, u).intents[x[1]] = u.intents[x[1]]
<1> DEFINE w == Merge(t, u)
<1>1. PICK s \in DOMAIN w.intents : \E k \in DOMAIN w.intents[s].actions : x = <<s, k>>
    BY DEF Places
<1>2. PICK k \in DOMAIN w.intents[s].actions : x = <<s, k>>
    BY <1>1
<1>3. CASE s \in DOMAIN t.intents
    <2>1. w.intents[s] = t.intents[s]
        BY <1>3, MergeHas
    <2>2. x \in Places(t)
        BY <1>2, <1>3, <2>1 DEF Places
    <2> QED BY <1>2, <2>1, <2>2 DEF At
<1>4. CASE s \in DOMAIN u.intents
    <2>1. w.intents[s] = u.intents[s]
        BY <1>4, MergeHas
    <2>2. x \in Places(u)
        BY <1>2, <1>4, <2>1 DEF Places
    <2> QED BY <1>2, <2>1, <2>2 DEF At
<1> QED BY <1>1, <1>3, <1>4, MergeHas

\* A merge carries what both carry (Merge leaves the bound intents untouched).
LEMMA MergeCarries ==
    ASSUME NEW t, NEW u, IsSealed(t), IsSealed(u), Mergeable(t, u), Carried(t), Carried(u)
    PROVE  IsSealed(Merge(t, u)) /\ Carried(Merge(t, u))
<1> DEFINE w == Merge(t, u)
<1>1. ASSUME NEW s \in DOMAIN w.intents, NEW r \in Runs, w.intents[s].maker = r
      PROVE  /\ pc[r] \in Launched /\ HasOwn(r) /\ s \in DOMAIN held[r].tx.intents
             /\ \A z \in DOMAIN held[r].tx.intents :
                    z \in DOMAIN w.intents /\ w.intents[z] = held[r].tx.intents[z]
    <2>1. CASE s \in DOMAIN t.intents
        <3>1. t.intents[s].maker = r
            BY <1>1, <2>1, MergeHas
        <3> QED BY <2>1, <3>1, MergeHas DEF Carried
    <2>2. CASE s \in DOMAIN u.intents
        <3>1. u.intents[s].maker = r
            BY <1>1, <2>2, MergeHas
        <3> QED BY <2>2, <3>1, MergeHas DEF Carried
    <2> QED BY <2>1, <2>2, MergeHas
<1>2. ASSUME NEW x \in DeploysIn(w), NEW q \in Deploys, At(w, x).contract = Address[q]
      PROVE  w.intents[x[1]].maker = q
    <2>1. x \in Places(w) /\ At(w, x).kind = "deploy"
        BY DEF DeploysIn
    <2>2. CASE x \in Places(t) /\ At(w, x) = At(t, x) /\ w.intents[x[1]] = t.intents[x[1]]
        BY <1>2, <2>1, <2>2 DEF Carried, DeploysIn
    <2>3. CASE x \in Places(u) /\ At(w, x) = At(u, x) /\ w.intents[x[1]] = u.intents[x[1]]
        BY <1>2, <2>1, <2>3 DEF Carried, DeploysIn
    <2> QED BY <2>1, <2>2, <2>3, MergedPlaces
<1> QED BY <1>1, <1>2, MergeHas DEF Carried

\* What circulates carries what runs have sent.
LEMMA CirculatingCarries ==
    ASSUME PoolIsOwn, NEW e \in Circulating
    PROVE  IsSealed(e) /\ Carried(e)
<1>1. ASSUME NEW t \in pool PROVE IsSealed(t) /\ Carried(t)
    <2>1. PICK r \in Runs : t = held[r].tx /\ pc[r] \in Launched /\ HasOwn(r)
        BY DEF PoolIsOwn
    <2>2. IsSealed(t) /\ MadeBy(t, r)
        BY <2>1 DEF HasOwn
    <2>3. \A x \in DeploysIn(t) : x[1] \in DOMAIN t.intents
        BY <2>2, PlacesForm DEF DeploysIn
    <2> QED BY <2>1, <2>2, <2>3 DEF Carried, MadeBy
<1>2. ASSUME NEW u \in Others PROVE IsSealed(u) /\ Carried(u)
    <2>1. IsSealed(u) /\ MadeBy(u, None) /\ None \notin Runs
        BY MakersAssumption
    <2>2. None \notin Deploys
        BY <2>1, DeploymentAssumption
    <2> QED BY <2>1, <2>2 DEF Carried, MadeBy
<1> DEFINE Both == pool \cup {Merge(x[1], x[2]) : x \in {y \in pool \X pool : Mergeable(y[1], y[2])}}
<1>3. ASSUME NEW b \in Both PROVE IsSealed(b) /\ Carried(b)
    <2>1. CASE b \in pool
        BY <1>1, <2>1
    <2>2. CASE b \notin pool
        <3>1. PICK x \in pool \X pool : Mergeable(x[1], x[2]) /\ b = Merge(x[1], x[2])
            BY <2>2
        <3> QED BY <1>1, <3>1, MergeCarries
    <2> QED BY <2>1, <2>2
<1>4. Circulating = Both \cup {Merge(x[1], x[2]) : x \in {y \in Both \X Others : Mergeable(y[1], y[2])}}
    BY DEF Circulating
<1> HIDE DEF Both
<1>5. CASE e \in Both
    BY <1>3, <1>5
<1>6. CASE e \notin Both
    <2>1. PICK x \in Both \X Others : Mergeable(x[1], x[2]) /\ e = Merge(x[1], x[2])
        BY <1>4, <1>6
    <2> QED BY <1>2, <1>3, <2>1, MergeCarries
<1> QED BY <1>5, <1>6

-----------------------------------------------------------------------------
(* What a transaction makes of a contract *)

\* Pins add to the counter and the last one's digest stays; nothing else of a contract that
\* exists is changed by a transaction.
LEMMA AfterIs ==
    ASSUME NEW t, IsSealed(t), NEW a \in Contracts, NEW st \in Boards, NEW succeeded
    PROVE  LET y == After(t, succeeded, a, st) IN
           /\ y \in Boards
           /\ st # None =>
                /\ y # None /\ y.authority = st.authority /\ y.committee = st.committee
                /\ y.keys = st.keys /\ st.count \in Nat
                /\ y.count = st.count + Cardinality(PinsOn(t, a))
                /\ PinsOn(t, a) = {} => y = st
                /\ PinsOn(t, a) # {} => y.digest = LastPinned(t, a)
<1> DEFINE y == After(t, succeeded, a, st)
           Deployed == {x \in DeploysIn(t) : x[1] \in succeeded /\ At(t, x).contract = a}
<1>1. CASE st = None
    <2>1. CASE Deployed = {}
        BY <1>1, <2>1 DEF After, Boards
    <2>2. CASE Deployed # {}
        <3>1. PICK x \in Deployed : y = At(t, x).state
            BY <1>1, <2>2 DEF After
        <3>2. x \in Places(t) /\ At(t, x).kind = "deploy"
            BY DEF DeploysIn
        <3>3. At(t, x) \in Acts
            BY <3>2, PlacesForm
        <3>4. At(t, x).state \in ContractStates
            BY <3>2, <3>3 DEF Acts
        <3> QED BY <1>1, <3>1, <3>4 DEF Boards
    <2> QED BY <2>1, <2>2
<1>2. CASE st # None
    <2>1. st \in ContractStates
        BY <1>2 DEF Boards
    <2>2. CASE PinsOn(t, a) = {}
        <3>1. y = st /\ Cardinality(PinsOn(t, a)) = 0
            BY <1>2, <2>2, PinsCount DEF After
        <3> QED BY <1>2, <2>1, <2>2, <3>1 DEF ContractStates, Boards
    <2>3. CASE PinsOn(t, a) # {}
        <3>1. y = [st EXCEPT !.count = @ + Cardinality(PinsOn(t, a)), !.digest = LastPinned(t, a)]
            BY <1>2, <2>3 DEF After
        <3>2. LastPinned(t, a) \in Digests
            <4>1. PICK x \in PinsOn(t, a) : LastPinned(t, a) = At(t, x).guaranteed
                BY <2>3, LastPinnedIs
            <4>2. x \in Places(t) /\ At(t, x).kind = "call" /\ At(t, x).guaranteed # None
                BY DEF PinsOn, CallsOf
            <4>3. At(t, x) \in Acts
                BY <4>2, PlacesForm
            <4> QED BY <4>1, <4>2, <4>3 DEF Acts
        <3>3. y \in ContractStates
            <4> DEFINE c == st.count + Cardinality(PinsOn(t, a))
                       d == LastPinned(t, a)
            <4>1. /\ st.count \in Nat /\ Cardinality(PinsOn(t, a)) \in Nat
                  /\ y = [authority |-> st.authority, committee |-> st.committee, keys |-> st.keys,
                          count |-> c, digest |-> d]
                BY <2>1, <3>1, PinsCount DEF ContractStates
            <4>2. c \in Nat /\ d \in Digests \cup {None}
                BY <3>2, <4>1
            <4> HIDE DEF y, c, d
            <4> QED BY <2>1, <4>1, <4>2 DEF ContractStates
        <3>4. y # None
            BY <3>3, DeploymentAssumption
        <3> QED BY <1>2, <2>1, <2>3, <3>1, <3>3, <3>4 DEF ContractStates, Boards
    <2> QED BY <2>2, <2>3
<1> QED BY <1>1, <1>2

-----------------------------------------------------------------------------
(* The chain grows *)

\* Contract a, from x before a transaction t to y after it.
Becomes(t, a, x, y) ==
    x # None =>
        /\ y # None /\ y.authority = x.authority /\ x.count <= y.count
        /\ x.count = y.count => x.digest = y.digest
        /\ PinsOn(t, a) = {} => x.count = y.count
        /\ t # EmptyTx => y.committee = x.committee /\ y.keys = x.keys

\* Entries stay, and so do the contracts after each.
LEMMA Appended ==
    ASSUME chain \in Seq(Entries), NEW N, N = Len(chain), NEW e \in Entries, chain' = Append(chain, e)
    PROVE  /\ chain' \in Seq(Entries) /\ N \in Nat /\ Len(chain') = N + 1
           /\ DOMAIN chain = 1..N /\ DOMAIN chain' = 1..(N + 1)
           /\ \A n \in 1..N : chain'[n] = chain[n] /\ chain[n] \in Entries
           /\ chain'[N + 1] = e
           /\ \A n \in 0..N : ContractsAt(n)' = ContractsAt(n)
           /\ ContractsAt(N + 1)' = e.after
<1>1. N \in Nat /\ DOMAIN chain = 1..N /\ \A n \in 1..N : chain[n] \in Entries
    BY LenProperties, ElementOfSeq
<1>2. /\ chain' \in Seq(Entries) /\ Len(chain') = N + 1
      /\ \A n \in 1..N : chain'[n] = chain[n]
      /\ chain'[N + 1] = e
    BY AppendProperties, <1>1
<1>3. DOMAIN chain' = 1..(N + 1)
    BY <1>2, LenProperties
<1>4. ASSUME NEW n \in 0..N PROVE ContractsAt(n)' = ContractsAt(n)
    <2>1. n = 0 \/ n \in 1..N
        BY <1>1
    <2> QED BY <1>2, <2>1 DEF ContractsAt
<1>5. ContractsAt(N + 1)' = e.after
    <2>1. N + 1 # 0
        BY <1>1
    <2> QED BY <1>2, <2>1 DEF ContractsAt
<1> QED BY <1>1, <1>2, <1>3, <1>4, <1>5

\* The contracts after any entry are boards or nothing.
LEMMA ContractsAre ==
    ASSUME chain \in Seq(Entries), NEW n \in 0..Len(chain)
    PROVE  ContractsAt(n) \in [Contracts -> Boards]
<1>1. CASE n = 0
    BY <1>1, DeploymentAssumption DEF ContractsAt, Boards
<1>2. CASE n # 0
    <2>1. n \in 1..Len(chain)
        BY <1>2, LenProperties
    <2>2. chain[n] \in Entries
        BY <2>1, ElementOfSeq
    <2> QED BY <1>2, <2>2 DEF ContractsAt, Entries
<1> QED BY <1>1, <1>2

\* One entry that leaves each contract or lets it grow keeps every contract growing.
LEMMA GrowsOn ==
    ASSUME chain \in Seq(Entries), ContractsGrow, NEW e \in Entries, chain' = Append(chain, e),
           \A a \in Contracts : Becomes(e.tx, a, ContractsAt(Len(chain))[a], e.after[a])
    PROVE  ContractsGrow'
<1>0. PICK N : N = Len(chain)
    OBVIOUS
<1>1. /\ N \in Nat /\ Len(chain') = N + 1 /\ DOMAIN chain = 1..N /\ DOMAIN chain' = 1..(N + 1)
      /\ chain'[N + 1] = e /\ ContractsAt(N + 1)' = e.after
      /\ \A n \in 0..N : ContractsAt(n)' = ContractsAt(n)
      /\ \A n \in 1..N : chain'[n] = chain[n]
    BY <1>0, Appended
<1>2. \A a \in Contracts : Maintained(a) => Maintained(a)'
    BY <1>1 DEF Maintained
<1>3. ASSUME NEW a \in Contracts, NEW n \in 0..N, NEW m \in 0..n PROVE Follows(a, m, n)'
    <2>1. Follows(a, m, n)
        BY <1>0, <1>3 DEF ContractsGrow
    <2>2. m \in 0..N /\ ContractsAt(m)' = ContractsAt(m) /\ ContractsAt(n)' = ContractsAt(n)
        BY <1>1
    <2>3. \A k \in (m + 1)..n : chain'[k] = chain[k]
        BY <1>1
    <2> QED BY <1>2, <2>1, <2>2, <2>3 DEF Follows
<1>4. ASSUME NEW a \in Contracts, NEW m \in 0..(N + 1) PROVE Follows(a, m, N + 1)'
    <2>1. CASE m = N + 1
        <3>1. ContractsAt(N + 1)'[a] \in Boards
            BY <1>1 DEF Entries
        <3> QED BY <2>1, <3>1, <1>1 DEF Follows, Boards, ContractStates
    <2>2. CASE m # N + 1
        <3> DEFINE x == ContractsAt(m)[a]
                   y == ContractsAt(N)[a]
                   z == e.after[a]
        <3>1. m \in 0..N /\ N \in 0..N
            BY <1>1, <2>2
        <3>2. Follows(a, m, N) /\ Becomes(e.tx, a, y, z)
            BY <1>0, <3>1 DEF ContractsGrow
        <3>3. ContractsAt(m)' = ContractsAt(m) /\ ContractsAt(N + 1)' = e.after
            BY <1>1, <3>1
        <3>4. x \in Boards /\ y \in Boards /\ z \in Boards
            <4>1. ContractsAt(m) \in [Contracts -> Boards] /\ ContractsAt(N) \in [Contracts -> Boards]
                BY <1>0, <3>1, ContractsAre
            <4> QED BY <4>1 DEF Entries
        <3>5. CASE x = None
            BY <3>3, <3>5 DEF Follows
        <3>6. CASE x # None
            <4>1. /\ y # None /\ y.authority = x.authority /\ x.count <= y.count
                  /\ x.count = y.count => x.digest = y.digest
                  /\ (\A k \in (m + 1)..N : PinsOn(chain[k].tx, a) = {}) => x.count = y.count
                  /\ ~Maintained(a) => y.committee = x.committee /\ y.keys = x.keys
                BY <3>2, <3>6 DEF Follows
            <4>2. /\ z # None /\ z.authority = y.authority /\ y.count <= z.count
                  /\ y.count = z.count => y.digest = z.digest
                  /\ PinsOn(e.tx, a) = {} => y.count = z.count
                  /\ e.tx # EmptyTx => z.committee = y.committee /\ z.keys = y.keys
                BY <3>2, <4>1 DEF Becomes
            <4>3. x.count \in Nat /\ y.count \in Nat /\ z.count \in Nat
                BY <3>4, <3>6, <4>1, <4>2 DEF Boards, ContractStates
            <4>4. ASSUME \A k \in (m + 1)..(N + 1) : PinsOn(chain'[k].tx, a) = {}
                  PROVE  x.count = z.count
                <5>1. \A k \in (m + 1)..N : k \in (m + 1)..(N + 1) /\ chain'[k] = chain[k]
                    BY <1>1, <3>1
                <5>2. N + 1 \in (m + 1)..(N + 1)
                    BY <1>1, <3>1
                <5>3. x.count = y.count
                    BY <4>1, <4>4, <5>1
                <5>4. PinsOn(e.tx, a) = {}
                    BY <1>1, <4>4, <5>2
                <5> QED BY <4>2, <5>3, <5>4
            <4>5. ASSUME ~Maintained(a)' PROVE z.committee = x.committee /\ z.keys = x.keys
                <5>1. e.tx # EmptyTx
                    BY <1>1, <3>3, <4>2, <4>5 DEF Maintained
                <5> QED BY <1>2, <4>1, <4>2, <4>5, <5>1
            <4>6. x.count <= z.count /\ (x.count = z.count => x.digest = z.digest)
                BY <4>1, <4>2, <4>3
            <4> QED BY <3>3, <4>1, <4>2, <4>4, <4>5, <4>6 DEF Follows
        <3> QED BY <3>5, <3>6
    <2> QED BY <2>1, <2>2
<1>5. ASSUME NEW a \in Contracts, NEW n \in 0..(N + 1), NEW m \in 0..n PROVE Follows(a, m, n)'
    <2>1. CASE n = N + 1
        BY <1>4, <2>1
    <2>2. CASE n # N + 1
        <3>1. n \in 0..N
            BY <1>1, <2>2
        <3> QED BY <1>3, <3>1
    <2> QED BY <2>1, <2>2
<1> QED BY <1>1, <1>5 DEF ContractsGrow

\* One entry more: what the others say stays, and this one says what its makers built.
LEMMA GrownKeeps ==
    ASSUME RInv, NEW e \in Entries, chain' = Append(chain, e), UNCHANGED <<pool, indexed, disk, pc, held>>,
           Carried(e.tx),
           \A r \in Runs : Has(e.tx, r) => \A n \in DOMAIN chain : ~Mine(r, n),
           \A a \in Contracts : Becomes(e.tx, a, ContractsAt(Len(chain))[a], e.after[a]),
           \A r \in Deploys : e.after[Address[r]] # None =>
                ContractsAt(Len(chain))[Address[r]] # None \/ Has(e.tx, r),
           \A r \in Runs : Has(e.tx, r) /\ e.status = "SUCCESS" =>
                LET a == Address[r] x == ContractsAt(Len(chain))[a] y == e.after[a] IN
                IF r \in Deploys THEN y = BuiltState(r)
                ELSE /\ x # None /\ y # None
                     /\ y.count = x.count + Cardinality(PinsOn(e.tx, a))
                     /\ y.digest = LastPinned(e.tx, a)
    PROVE  RInv'
<1>0. PICK N : N = Len(chain)
    OBVIOUS
<1>1. /\ N \in Nat /\ Len(chain') = N + 1 /\ DOMAIN chain = 1..N /\ chain' \in Seq(Entries)
      /\ DOMAIN chain' = 1..(N + 1)
      /\ chain'[N + 1] = e /\ ContractsAt(N + 1)' = e.after
      /\ \A n \in 0..N : ContractsAt(n)' = ContractsAt(n)
      /\ \A n \in DOMAIN chain : n \in DOMAIN chain' /\ chain'[n] = chain[n]
      /\ \A n \in DOMAIN chain' : n \in DOMAIN chain \/ n = N + 1
    <2>1. chain \in Seq(Entries)
        BY DEF RInv, Form
    <2>2. /\ N \in Nat /\ Len(chain') = N + 1 /\ DOMAIN chain = 1..N /\ chain' \in Seq(Entries)
          /\ DOMAIN chain' = 1..(N + 1)
          /\ chain'[N + 1] = e /\ ContractsAt(N + 1)' = e.after
          /\ \A n \in 0..N : ContractsAt(n)' = ContractsAt(n)
          /\ \A n \in 1..N : chain'[n] = chain[n]
        BY <1>0, <2>1, Appended
    <2> QED BY <2>2
<1>2. \A r \in Runs, n \in DOMAIN chain : (Mine(r, n)' <=> Mine(r, n)) /\ (Own(r, n)' <=> Own(r, n))
    BY <1>1 DEF Mine, Own, Has, Identifiers, IntentHash
<1>3. \A r \in Runs : Mine(r, N + 1)' <=> Has(e.tx, r)
    BY <1>1 DEF Mine, Has
<1>4. Form'
    BY <1>1 DEF RInv, Form, Exists
<1>5. TxsAreOwn' /\ PoolIsOwn'
    <2>1. \A r \in Runs : HasOwn(r)' <=> HasOwn(r)
        BY DEF HasOwn, IntentCheck, BuiltState
    <2> QED BY <2>1 DEF RInv, TxsAreOwn, OwnTx, PoolIsOwn
<1>6. ChainIsCarried'
    <2>1. \A r \in Runs : HasOwn(r)' <=> HasOwn(r)
        BY DEF HasOwn, IntentCheck, BuiltState
    <2>2. ASSUME NEW n \in DOMAIN chain' PROVE Carried(chain[n].tx)'
        <3>1. CASE n \in DOMAIN chain
            <4>1. PICK t : t = chain[n].tx
                OBVIOUS
            <4>2. chain'[n].tx = t
                BY <1>1, <3>1, <4>1
            <4>3. Carried(t)
                BY <3>1, <4>1 DEF RInv, ChainIsCarried
            <4> QED BY <2>1, <4>2, <4>3 DEF Carried, DeploysIn, Places, At
        <3>2. CASE n = N + 1
            <4>1. chain'[n] = e
                BY <1>1, <3>2
            <4> QED BY <2>1, <4>1 DEF Carried, DeploysIn, Places, At
        <3> QED BY <1>1, <3>1, <3>2
    <2> QED BY <2>2 DEF ChainIsCarried
<1>7. Once'
    BY <1>1, <1>2, <1>3 DEF RInv, Once
<1>8. ContractsGrow'
    BY GrowsOn DEF RInv, Form
<1>9. ByItsRun'
    <2>1. ASSUME NEW r \in Deploys, NEW n \in 0..(N + 1), ContractsAt(n)'[Address[r]] # None
          PROVE  \E m \in 1..n : Mine(r, m)'
        <3>0. r \in Runs
            BY DeploymentAssumption
        <3>1. CASE n \in 0..N
            <4>1. PICK m \in 1..n : Mine(r, m)
                BY <1>1, <2>1, <3>1 DEF RInv, ByItsRun
            <4>2. m \in DOMAIN chain
                BY <1>1, <3>1
            <4> QED BY <1>2, <3>0, <4>1, <4>2
        <3>2. CASE n = N + 1 /\ Has(e.tx, r)
            <4>1. N + 1 \in 1..n
                BY <1>1, <3>2
            <4> QED BY <1>3, <3>0, <3>2, <4>1
        <3>3. CASE n = N + 1 /\ ~Has(e.tx, r)
            <4>1. ContractsAt(N)[Address[r]] # None
                BY <1>1, <2>1, <3>3
            <4>2. N \in 0..N
                BY <1>1
            <4>3. PICK m \in 1..N : Mine(r, m)
                BY <1>0, <4>1, <4>2 DEF RInv, ByItsRun
            <4>4. m \in DOMAIN chain /\ m \in 1..n
                BY <1>1, <3>3
            <4> QED BY <1>2, <3>0, <4>3, <4>4
        <3> QED BY <1>1, <3>1, <3>2, <3>3
    <2> QED BY <1>1, <2>1 DEF ByItsRun
<1>10. DoesAsBuilt'
    <2>1. ASSUME NEW r \in Runs, NEW n \in DOMAIN chain', Mine(r, n)', chain'[n].status = "SUCCESS"
          PROVE  LET a == Address[r] x == ContractsAt(n - 1)'[a] y == ContractsAt(n)'[a] IN
                 IF r \in Deploys THEN y = BuiltState(r)
                 ELSE /\ x # None /\ y # None
                      /\ y.count = x.count + Cardinality(PinsOn(chain'[n].tx, a))
                      /\ y.digest = LastPinned(chain'[n].tx, a)
        <3>1. CASE n \in DOMAIN chain
            <4>1. chain'[n] = chain[n] /\ Mine(r, n)
                BY <1>1, <1>2, <2>1, <3>1
            <4>2. n - 1 \in 0..N /\ n \in 0..N
                BY <1>1, <3>1
            <4>3. ContractsAt(n - 1)' = ContractsAt(n - 1) /\ ContractsAt(n)' = ContractsAt(n)
                BY <1>1, <4>2
            <4> QED BY <2>1, <3>1, <4>1, <4>3 DEF RInv, DoesAsBuilt
        <3>2. CASE n = N + 1
            <4>1. /\ chain'[n] = e /\ n - 1 = N /\ N \in 0..N /\ Has(e.tx, r)
                BY <1>1, <1>3, <2>1, <3>2
            <4>2. ContractsAt(n - 1)' = ContractsAt(N) /\ ContractsAt(n)' = e.after
                BY <1>1, <3>2, <4>1
            <4>3. e.status = "SUCCESS" /\ ContractsAt(N) = ContractsAt(Len(chain))
                BY <1>0, <2>1, <4>1
            <4> QED BY <4>1, <4>2, <4>3
        <3> QED BY <1>1, <3>1, <3>2
    <2>2. \A r \in Runs, n \in DOMAIN chain' :
            /\ BuiltState(r)' = BuiltState(r)
            /\ LastPinned(chain[n].tx, Address[r])' = LastPinned(chain'[n].tx, Address[r])
            /\ PinsOn(chain[n].tx, Address[r])' = PinsOn(chain'[n].tx, Address[r])
        BY DEF BuiltState
    <2> QED BY <2>1, <2>2 DEF DoesAsBuilt
<1>11. LookedBefore'
    <2>1. ASSUME NEW r \in Runs
          PROVE  Remembers(r)' /\ LooksFirst(r)'
        <3>1. PICK m : m = held[r].seen
            OBVIOUS
        <3>2. m \in 0..N /\ held'[r].seen = m
            BY <1>0, <1>1, <3>1 DEF RInv, Form
        <3>3. ContractsAt(m)' = ContractsAt(m)
            BY <1>1, <3>2
        <3>4. Remembers(r)'
            <4>1. Remembers(r) /\ held'[r] = held[r]
                BY DEF RInv, LookedBefore
            <4>2. ContractsAt(held[r].seen)' = ContractsAt(held[r].seen)
                BY <3>1, <3>2, <3>3 DEF ContractsAt
            <4> QED BY <4>1, <4>2 DEF Remembers
        <3>5. m < N + 1
            BY <1>1, <3>2
        <3>6. LooksFirst(r)'
            BY <1>1, <1>2, <3>1, <3>2, <3>5 DEF RInv, LookedBefore, LooksFirst
        <3> QED BY <3>4, <3>6
    <2> QED BY <2>1 DEF LookedBefore
<1>12. WaitIsOver'
    <2>1. \A n \in 1..indexed : n \in DOMAIN chain
        BY <1>1 DEF RInv, Form
    <2> QED BY <1>1, <1>2, <2>1 DEF RInv, WaitIsOver, Found
<1>13. VerifiedHasEnded'
    BY DEF RInv, VerifiedHasEnded
<1>14. VerifiedIsTrue'
    <2>1. ASSUME NEW p \in Paths, disk[p].stage = "verified", NEW r, r = disk[p].run
          PROVE  \E n \in DOMAIN chain' : /\ Own(r, n)' /\ chain'[n].status = "SUCCESS"
                                          /\ IF r \in Deploys THEN DeployTold(r, n)' ELSE PinTold(r, n)'
        <3>1. r \in Runs
            BY <2>1 DEF RInv, VerifiedHasEnded
        <3>2. PICK n \in DOMAIN chain : /\ Own(r, n) /\ chain[n].status = "SUCCESS"
                                        /\ IF r \in Deploys THEN DeployTold(r, n) ELSE PinTold(r, n)
            BY <2>1 DEF RInv, VerifiedIsTrue
        <3>3. OtherPin(r) => OtherPin(r)'
            BY <1>1, <1>2, <3>1 DEF OtherPin
        <3> QED BY <1>1, <1>2, <3>1, <3>2, <3>3 DEF DeployTold, PinTold, BuiltState
    <2> QED BY <2>1 DEF VerifiedIsTrue
<1>15. QuietVerifies'
    <2>1. \A a : Maintained(a) => Maintained(a)'
        BY <1>1 DEF Maintained
    <2>2. \A r \in Runs : OtherPin(r) => OtherPin(r)'
        BY <1>1, <1>2 DEF OtherPin
    <2>3. \A r \in Runs : Behind(r) => Behind(r)'
        BY <1>1, <1>2 DEF Behind
    <2> QED BY <2>1, <2>2, <2>3 DEF RInv, QuietVerifies
<1> QED BY <1>4, <1>5, <1>6, <1>7, <1>8, <1>9, <1>10, <1>11, <1>12, <1>13, <1>14, <1>15 DEF RInv

-----------------------------------------------------------------------------
(* What lands *)

\* What a run has sent is in what carries an intent of it, at the same places.
LEMMA OwnPlaces ==
    ASSUME NEW r \in Runs, NEW t, Carried(t), Has(t, r)
    PROVE  /\ pc[r] \in Launched /\ HasOwn(r)
           /\ \E s \in DOMAIN held[r].tx.intents :
                s \in DOMAIN t.intents /\ t.intents[s] = held[r].tx.intents[s]
           /\ \A s \in DOMAIN held[r].tx.intents :
                s \in DOMAIN t.intents /\ t.intents[s] = held[r].tx.intents[s]
           /\ \A x \in Places(held[r].tx) : x \in Places(t) /\ At(t, x) = At(held[r].tx, x)
           /\ \A x \in Places(t) : t.intents[x[1]].maker = r =>
                x \in Places(held[r].tx) /\ At(t, x) = At(held[r].tx, x)
<1>1. PICK s \in DOMAIN t.intents : t.intents[s].maker = r
    BY DEF Has
<1>2. /\ pc[r] \in Launched /\ HasOwn(r) /\ s \in DOMAIN held[r].tx.intents
      /\ \A z \in DOMAIN held[r].tx.intents : z \in DOMAIN t.intents /\ t.intents[z] = held[r].tx.intents[z]
    BY <1>1 DEF Carried
<1>3. ASSUME NEW x \in Places(held[r].tx) PROVE x \in Places(t) /\ At(t, x) = At(held[r].tx, x)
    <2>1. PICK z \in DOMAIN held[r].tx.intents : \E k \in DOMAIN held[r].tx.intents[z].actions : x = <<z, k>>
        BY DEF Places
    <2>2. z \in DOMAIN t.intents /\ t.intents[z] = held[r].tx.intents[z]
        BY <1>2
    <2>3. x[1] = z
        BY <2>1
    <2> QED BY <2>1, <2>2, <2>3 DEF Places, At
<1>4. ASSUME NEW x \in Places(t), t.intents[x[1]].maker = r
      PROVE  x \in Places(held[r].tx) /\ At(t, x) = At(held[r].tx, x)
    <2>1. PICK z \in DOMAIN t.intents : \E k \in DOMAIN t.intents[z].actions : x = <<z, k>>
        BY DEF Places
    <2>2. x[1] = z
        BY <2>1
    <2>3. z \in DOMAIN held[r].tx.intents /\ t.intents[z] = held[r].tx.intents[z]
        BY <1>2, <1>4, <2>2 DEF Carried
    <2> QED BY <2>1, <2>2, <2>3 DEF Places, At
<1> QED BY <1>2, <1>3, <1>4

\* A checked pin pins (callIntentCheck).
LEMMA OwnPin ==
    ASSUME NEW r \in Runs, r \notin Deploys, HasOwn(r)
    PROVE  PinsOn(held[r].tx, Address[r]) # {}
<1> DEFINE t == held[r].tx
           s == held[r].segment
<1>1. /\ IsSealed(t) /\ s \in DOMAIN t.intents /\ Len(t.intents[s].actions) = 1
      /\ t.intents[s].actions[1].kind = "call"
      /\ t.intents[s].actions[1].contract = Address[r] /\ t.intents[s].actions[1].entry = Pin
      /\ t.intents[s].actions[1].guaranteed # None
    BY DEF HasOwn, IntentCheck, CallIntentCheck
<1>2. 1 \in DOMAIN t.intents[s].actions
    <2>1. t.intents[s].actions \in Seq(Acts)
        BY <1>1 DEF IsSealed, Sealed
    <2>2. DOMAIN t.intents[s].actions = 1..1
        BY <1>1, <2>1, LenProperties
    <2> QED BY <2>2
<1> DEFINE x == <<s, 1>>
<1>3. x \in Places(t)
    BY <1>1, <1>2 DEF Places
<1>4. At(t, x) = t.intents[s].actions[1]
    BY DEF At
<1>5. x \in PinsOn(t, Address[r])
    BY <1>1, <1>3, <1>4 DEF PinsOn, CallsOf
<1> QED BY <1>5

\* A checked deployment deploys the built state, and nothing else at its address
\* (deployIntentCheck).
LEMMA OwnDeploy ==
    ASSUME NEW r \in Deploys, NEW t, Carried(t), Has(t, r)
    PROVE  /\ \E x \in DeploysIn(t) : At(t, x).contract = Address[r]
           /\ \A x \in DeploysIn(t) : At(t, x).contract = Address[r] => At(t, x).state = BuiltState(r)
<1>0. r \in Runs
    BY DeploymentAssumption
<1>1. /\ \A x \in DeploysIn(held[r].tx) : At(held[r].tx, x) = DeployOf(Address[r], BuiltState(r))
      /\ Cardinality(DeploysIn(held[r].tx)) = 1
    BY <1>0, OwnPlaces DEF HasOwn, IntentCheck, DeployIntentCheck
<1>2. PICK x \in DeploysIn(held[r].tx) : TRUE
    <2>1. DeploysIn(held[r].tx) # {}
        BY <1>1, FS_EmptySet
    <2> QED BY <2>1
<1>3. x \in Places(t) /\ At(t, x) = DeployOf(Address[r], BuiltState(r))
    <2>1. x \in Places(held[r].tx)
        BY DEF DeploysIn
    <2> QED BY <1>0, <1>1, <2>1, OwnPlaces
<1>4. x \in DeploysIn(t) /\ At(t, x).contract = Address[r]
    BY <1>3 DEF DeploysIn, DeployOf
<1>5. ASSUME NEW y \in DeploysIn(t), At(t, y).contract = Address[r]
      PROVE  At(t, y).state = BuiltState(r)
    <2>1. y \in Places(t) /\ At(t, y).kind = "deploy" /\ t.intents[y[1]].maker = r
        BY <1>5 DEF DeploysIn, Carried
    <2>2. y \in Places(held[r].tx) /\ At(t, y) = At(held[r].tx, y)
        BY <1>0, <2>1, OwnPlaces
    <2>3. y \in DeploysIn(held[r].tx)
        BY <2>1, <2>2 DEF DeploysIn
    <2> QED BY <1>1, <2>2, <2>3 DEF DeployOf
<1> QED BY <1>4, <1>5

\* A run's transaction lands once: its identifiers are spent.
LEMMA LandsOnce ==
    ASSUME ChainIsCarried, NEW t, Carried(t), Unspent(t), NEW r \in Runs, Has(t, r), NEW n \in DOMAIN chain
    PROVE  ~Mine(r, n)
<1> SUFFICES ASSUME Mine(r, n) PROVE FALSE
    OBVIOUS
<1>1. Carried(chain[n].tx) /\ Has(chain[n].tx, r)
    BY DEF ChainIsCarried, Mine
<1>2. PICK s \in DOMAIN held[r].tx.intents : s \in DOMAIN t.intents /\ t.intents[s] = held[r].tx.intents[s]
    BY OwnPlaces
<1>3. s \in DOMAIN chain[n].tx.intents /\ chain[n].tx.intents[s] = held[r].tx.intents[s]
    BY <1>1, OwnPlaces
<1>4. IntentHash(t, s) = IntentHash(chain[n].tx, s)
    BY <1>2, <1>3 DEF IntentHash
<1>5. IntentHash(t, s) \in Identifiers(t) /\ IntentHash(t, s) \in Identifiers(chain[n].tx)
    BY <1>2, <1>3, <1>4 DEF Identifiers
<1> QED BY <1>5 DEF Unspent

\* A transaction that lands, whatever of it succeeds.
LEMMA LandKeeps ==
    ASSUME RInv, Land
    PROVE  RInv'
<1>0. PICK N : N = Len(chain)
    OBVIOUS
<1>1. chain \in Seq(Entries) /\ N \in 0..N /\ ContractsAt(N) \in [Contracts -> Boards]
    <2>1. chain \in Seq(Entries)
        BY DEF RInv, Form
    <2>2. N \in Nat
        BY <1>0, <2>1, LenProperties
    <2> QED BY <1>0, <2>1, <2>2, ContractsAre
<1>2. PICK t \in Circulating :
        /\ Unspent(t)
        /\ \/ /\ Replays(t, ContractsAt(N))
              /\ \E succeeded \in SUBSET MayFail(t) :
                    chain' = Entry(t, IF succeeded = MayFail(t) THEN "SUCCESS" ELSE "PARTIAL_SUCCESS",
                                   [a \in Contracts |-> After(t, succeeded, a, ContractsAt(N)[a])])
           \/ chain' = Entry(t, "FAILURE", ContractsAt(N))
    BY <1>0 DEF Land
<1>3. IsSealed(t) /\ t \in Txs /\ Carried(t)
    BY CirculatingCarries, SealedTxs DEF RInv
<1>4. ASSUME NEW r \in Runs, Has(t, r) PROVE \A n \in DOMAIN chain : ~Mine(r, n)
    BY <1>2, <1>3, <1>4, LandsOnce DEF RInv
<1>5. UNCHANGED <<pool, indexed, disk, pc, held>>
    BY DEF Land
<1>6. CASE chain' = Entry(t, "FAILURE", ContractsAt(N))
    <2> DEFINE e == [tx |-> t, status |-> "FAILURE", after |-> ContractsAt(N)]
    <2>1. e \in Entries /\ chain' = Append(chain, e)
        BY <1>1, <1>3, <1>6 DEF Entries, Entry
    <2>2. \A a \in Contracts : Becomes(e.tx, a, ContractsAt(N)[a], e.after[a])
        BY <1>1 DEF Becomes, Boards, ContractStates
    <2>3. e.tx = t /\ e.status # "SUCCESS" /\ e.after = ContractsAt(N)
        OBVIOUS
    <2> HIDE DEF e
    <2> QED BY <1>0, <1>3, <1>4, <1>5, <2>1, <2>2, <2>3, GrownKeeps
<1>7. ASSUME Replays(t, ContractsAt(N)), NEW succeeded \in SUBSET MayFail(t),
             chain' = Entry(t, IF succeeded = MayFail(t) THEN "SUCCESS" ELSE "PARTIAL_SUCCESS",
                            [a \in Contracts |-> After(t, succeeded, a, ContractsAt(N)[a])])
      PROVE  RInv'
    <2> DEFINE after == [a \in Contracts |-> After(t, succeeded, a, ContractsAt(N)[a])]
               e == [tx |-> t, status |-> IF succeeded = MayFail(t) THEN "SUCCESS" ELSE "PARTIAL_SUCCESS",
                     after |-> after]
    <2>1. /\ e.tx = t /\ (e.status = "SUCCESS" => succeeded = MayFail(t))
          /\ e.status \in {"SUCCESS", "PARTIAL_SUCCESS", "FAILURE"}
          /\ \A a \in Contracts : e.after[a] = After(t, succeeded, a, ContractsAt(N)[a])
        OBVIOUS
    <2>2. e \in Entries /\ chain' = Append(chain, e)
        <3>1. \A a \in Contracts : After(t, succeeded, a, ContractsAt(N)[a]) \in Boards
            BY <1>1, <1>3, AfterIs
        <3>2. after \in [Contracts -> Boards]
            BY <3>1
        <3> QED BY <1>3, <1>7, <3>2 DEF Entries, Entry
    <2>3. ASSUME NEW a \in Contracts, ContractsAt(N)[a] # None
          PROVE  LET x == ContractsAt(N)[a] y == e.after[a] IN
                 /\ y # None /\ y.authority = x.authority /\ y.committee = x.committee
                 /\ y.keys = x.keys /\ x.count \in Nat
                 /\ y.count = x.count + Cardinality(PinsOn(t, a))
                 /\ PinsOn(t, a) = {} => y = x
                 /\ PinsOn(t, a) # {} => y.digest = LastPinned(t, a)
        BY <1>1, <1>3, <2>1, <2>3, AfterIs
    <2> HIDE DEF e
    <2>4. ASSUME NEW a \in Contracts PROVE Becomes(e.tx, a, ContractsAt(N)[a], e.after[a])
        <3>1. CASE ContractsAt(N)[a] = None
            BY <3>1 DEF Becomes
        <3>2. CASE ContractsAt(N)[a] # None
            <4> DEFINE x == ContractsAt(N)[a]
                       y == e.after[a]
                       c == Cardinality(PinsOn(t, a))
            <4>1. /\ c \in Nat /\ (c = 0 => PinsOn(t, a) = {}) /\ (PinsOn(t, a) = {} => c = 0)
                BY <1>3, PinsCount
            <4>2. x.count \in Nat /\ y.count = x.count + c /\ (PinsOn(t, a) = {} => y = x)
                BY <2>3, <3>2
            <4>3. x.count <= y.count /\ (x.count = y.count => c = 0)
                BY <4>1, <4>2
            <4>4. x.count = y.count => x.digest = y.digest
                BY <4>1, <4>2, <4>3
            <4> QED BY <2>1, <2>3, <3>2, <4>2, <4>3, <4>4 DEF Becomes
        <3> QED BY <3>1, <3>2
    <2>5. ASSUME NEW r \in Deploys, e.after[Address[r]] # None
          PROVE  ContractsAt(N)[Address[r]] # None \/ Has(t, r)
        <3>1. Address[r] \in Contracts
            BY DeploymentAssumption
        <3>2. CASE ContractsAt(N)[Address[r]] = None
            <4>1. PICK x \in DeploysIn(t) : At(t, x).contract = Address[r]
                BY <2>1, <2>5, <3>1, <3>2 DEF After
            <4>2. t.intents[x[1]].maker = r
                BY <1>3, <4>1 DEF Carried
            <4>3. x[1] \in DOMAIN t.intents
                BY <1>3, PlacesForm DEF DeploysIn
            <4> QED BY <4>2, <4>3 DEF Has
        <3> QED BY <3>2
    <2>6. ASSUME NEW r \in Runs, Has(t, r), e.status = "SUCCESS"
          PROVE  LET a == Address[r] x == ContractsAt(N)[a] y == e.after[a] IN
                 IF r \in Deploys THEN y = BuiltState(r)
                 ELSE /\ x # None /\ y # None
                      /\ y.count = x.count + Cardinality(PinsOn(t, a))
                      /\ y.digest = LastPinned(t, a)
        <3>0. Address[r] \in Contracts
            BY DeploymentAssumption
        <3>1. CASE r \in Deploys
            <4>1. ContractsAt(N)[Address[r]] = None
                <5>1. \A m \in 1..N : ~Mine(r, m)
                    BY <1>0, <1>1, <1>4, <2>6, LenProperties
                <5> QED BY <1>0, <1>1, <3>1, <5>1 DEF RInv, ByItsRun
            <4> DEFINE made == {x \in DeploysIn(t) : x[1] \in succeeded /\ At(t, x).contract = Address[r]}
            <4>2. PICK x \in DeploysIn(t) : At(t, x).contract = Address[r]
                BY <1>3, <2>6, <3>1, OwnDeploy
            <4>3. x \in made
                BY <2>1, <2>6, <4>2 DEF MayFail
            <4>4. \A z \in made : At(t, z).state = BuiltState(r)
                BY <1>3, <2>6, <3>1, OwnDeploy
            <4>5. e.after[Address[r]] = At(t, CHOOSE z \in made : TRUE).state
                BY <2>1, <3>0, <4>1, <4>3 DEF After
            <4>6. (CHOOSE z \in made : TRUE) \in made
                BY <4>3
            <4> QED BY <3>1, <4>4, <4>5, <4>6
        <3>2. CASE r \notin Deploys
            <4>1. PinsOn(t, Address[r]) # {}
                <5>1. PICK x \in PinsOn(held[r].tx, Address[r]) : TRUE
                    BY <1>3, <2>6, <3>2, OwnPlaces, OwnPin
                <5>2. x \in Places(held[r].tx)
                    BY DEF PinsOn, CallsOf
                <5>3. x \in Places(t) /\ At(t, x) = At(held[r].tx, x)
                    BY <1>3, <2>6, <5>2, OwnPlaces
                <5>4. x \in PinsOn(t, Address[r])
                    BY <5>3 DEF PinsOn, CallsOf
                <5> QED BY <5>4
            <4>2. ContractsAt(N)[Address[r]] # None
                BY <1>7, <3>0, <4>1 DEF Replays
            <4> QED BY <2>3, <3>0, <3>2, <4>1, <4>2
        <3> QED BY <3>1, <3>2
    <2> QED BY <1>0, <1>3, <1>4, <1>5, <2>1, <2>2, <2>4, <2>5, <2>6, GrownKeeps
<1> QED BY <1>2, <1>6, <1>7

\* A maintenance update makes nothing, and leaves counter and digest.
LEMMA MaintainKeeps ==
    ASSUME RInv, Maintain
    PROVE  RInv'
<1>0. PICK N : N = Len(chain)
    OBVIOUS
<1>1. chain \in Seq(Entries) /\ ContractsAt(N) \in [Contracts -> Boards]
    <2>1. chain \in Seq(Entries)
        BY DEF RInv, Form
    <2>2. N \in 0..N
        BY <1>0, <2>1, LenProperties
    <2> QED BY <1>0, <2>1, <2>2, ContractsAre
<1>2a. PICK a \in Contracts :
        /\ ContractsAt(N)[a] # None
        /\ \E st \in {[ContractsAt(N)[a] EXCEPT !.keys = @ \ {Pin}],
                      [ContractsAt(N)[a] EXCEPT !.committee = Drawn("key", None)]} :
                chain' = Entry(EmptyTx, "SUCCESS", [ContractsAt(N) EXCEPT ![a] = st])
    BY <1>0 DEF Maintain
<1>2. PICK st \in {[ContractsAt(N)[a] EXCEPT !.keys = @ \ {Pin}],
                   [ContractsAt(N)[a] EXCEPT !.committee = Drawn("key", None)]} :
        chain' = Entry(EmptyTx, "SUCCESS", [ContractsAt(N) EXCEPT ![a] = st])
    BY <1>2a
<1> DEFINE e == [tx |-> EmptyTx, status |-> "SUCCESS", after |-> [ContractsAt(N) EXCEPT ![a] = st]]
           x == ContractsAt(N)[a]
<1>3. /\ IsSealed(EmptyTx) /\ EmptyTx \in Txs /\ DOMAIN EmptyTx.intents = {}
    <2>1. IsSealed(EmptyTx)
        BY DEF IsSealed, EmptyTx, Forms
    <2> QED BY <2>1, SealedTxs DEF EmptyTx
<1>4. Places(EmptyTx) = {} /\ \A c \in Contracts : PinsOn(EmptyTx, c) = {}
    BY <1>3 DEF Places, PinsOn, CallsOf
<1>5. Carried(EmptyTx) /\ \A r \in Runs : ~Has(EmptyTx, r)
    BY <1>3, <1>4 DEF Carried, Has, DeploysIn
<1>6. /\ st \in ContractStates /\ st.authority = x.authority /\ st.count = x.count
      /\ st.digest = x.digest /\ x \in ContractStates
    <2>1. x \in ContractStates
        BY <1>1, <1>2a DEF Boards
    <2>2. Drawn("key", None) \in Contents
        BY DEF Drawn, Contents
    <2> QED BY <1>2, <2>1, <2>2 DEF ContractStates
<1>7. e \in Entries /\ chain' = Append(chain, e)
    <2>1. [ContractsAt(N) EXCEPT ![a] = st] \in [Contracts -> Boards]
        BY <1>1, <1>6 DEF Boards
    <2> QED BY <1>2, <1>3, <2>1 DEF Entries, Entry
<1>8. e.tx = EmptyTx /\ \A c \in Contracts : e.after[c] = IF c = a THEN st ELSE ContractsAt(N)[c]
    BY <1>1
<1> HIDE DEF e
<1>9. ASSUME NEW c \in Contracts PROVE Becomes(e.tx, c, ContractsAt(N)[c], e.after[c])
    <2>1. CASE c = a
        <3>1. st # None /\ st.count \in Nat
            BY <1>6, DeploymentAssumption DEF ContractStates
        <3> QED BY <1>6, <1>8, <2>1, <3>1 DEF Becomes
    <2>2. CASE c # a
        <3>1. ContractsAt(N)[c] # None => ContractsAt(N)[c].count \in Nat
            BY <1>1 DEF Boards, ContractStates
        <3> QED BY <1>8, <2>2, <3>1 DEF Becomes
    <2> QED BY <2>1, <2>2
<1>10. \A r \in Deploys : e.after[Address[r]] # None => ContractsAt(N)[Address[r]] # None
    BY <1>2a, <1>8, DeploymentAssumption
<1>11. UNCHANGED <<pool, indexed, disk, pc, held>>
    BY DEF Maintain
<1> QED BY <1>0, <1>5, <1>7, <1>8, <1>9, <1>10, <1>11, GrownKeeps

\* What the chain says of itself stays while nothing lands.
LEMMA ChainStays ==
    ASSUME RInv, UNCHANGED chain
    PROVE  /\ \A n : ContractsAt(n)' = ContractsAt(n)
           /\ \A r, n : Mine(r, n)' <=> Mine(r, n)
           /\ Once' /\ ContractsGrow' /\ ByItsRun'
<1>1. \A n : ContractsAt(n)' = ContractsAt(n)
    BY DEF ContractsAt
<1>2. \A r, n : Mine(r, n)' <=> Mine(r, n)
    BY DEF Mine, Has
<1>3. Once'
    BY <1>2 DEF RInv, Once
<1>4. ContractsGrow'
    <2>1. ASSUME NEW a, NEW m, NEW n, Follows(a, m, n) PROVE Follows(a, m, n)'
        <3>1. ContractsAt(m)' = ContractsAt(m) /\ ContractsAt(n)' = ContractsAt(n)
            BY <1>1
        <3>2. Maintained(a)' <=> Maintained(a)
            BY DEF Maintained
        <3> QED BY <2>1, <3>1, <3>2 DEF Follows
    <2>2. ContractsGrow /\ Len(chain') = Len(chain)
        BY DEF RInv
    <2> QED BY <2>1, <2>2 DEF ContractsGrow
<1>5. ByItsRun'
    BY <1>1, <1>2 DEF RInv, ByItsRun
<1> QED BY <1>1, <1>2, <1>3, <1>4, <1>5

\* The indexer shows one transaction more: what a wait has found stays found.
LEMMA IndexKeeps ==
    ASSUME RInv, Index
    PROVE  RInv'
<1>0. /\ UNCHANGED <<pool, chain, files, disk, pc, held>>
      /\ indexed' = indexed + 1 /\ indexed < Len(chain)
      /\ indexed \in 0..Len(chain) /\ Len(chain) \in Nat
    BY LenProperties DEF Index, RInv, Form
<1>1. Form'
    BY <1>0 DEF RInv, Form, Exists
<1>2. \A n \in 1..indexed : n \in 1..indexed'
    BY <1>0
<1>3. WaitIsOver'
    BY <1>0, <1>2 DEF RInv, WaitIsOver, Found, Own
<1>4. TxsAreOwn' /\ PoolIsOwn' /\ ChainIsCarried'
    BY <1>0 DEF RInv, TxsAreOwn, OwnTx, PoolIsOwn, ChainIsCarried, HasOwn, Carried, IntentCheck,
                BuiltState
<1>5. Once' /\ ContractsGrow' /\ ByItsRun'
    BY <1>0, ChainStays
<1>6. DoesAsBuilt'
    BY <1>0, ChainStays DEF RInv, DoesAsBuilt, BuiltState
<1>7. LookedBefore'
    BY <1>0, ChainStays DEF RInv, LookedBefore, Remembers, LooksFirst
<1>8. VerifiedHasEnded' /\ VerifiedIsTrue' /\ QuietVerifies'
    BY <1>0 DEF RInv, VerifiedHasEnded, VerifiedIsTrue, QuietVerifies, DeployTold, PinTold, BuiltState,
                Maintained, OtherPin, Behind, Own
<1> QED BY <1>1, <1>3, <1>4, <1>5, <1>6, <1>7, <1>8 DEF RInv

-----------------------------------------------------------------------------
(* A step of one run *)

\* The invariant holds before anything starts.
LEMMA InitRInv == Init => RInv
<1> SUFFICES ASSUME Init PROVE RInv
    OBVIOUS
<1>1. /\ pool = {} /\ chain = <<>> /\ indexed = 0 /\ disk = [p \in Paths |-> Absent]
      /\ held = [r \in Runs |-> Nothing] /\ \A r \in Runs : pc[r] \in {"idle", "refused"}
    BY DEF Init
<1>2. chain \in Seq(Entries) /\ Len(chain) = 0 /\ DOMAIN chain = {}
    BY <1>1, EmptySeq
<1>3. \A p \in Paths : disk[p].stage = "absent"
    BY <1>1 DEF Absent
<1>4. \A r \in Runs : held[r] = Nothing
    BY <1>1
<1>5. Form
    BY <1>1, <1>2, <1>3, <1>4 DEF Form, Exists, Nothing
<1>6. TxsAreOwn /\ PoolIsOwn /\ ChainIsCarried /\ Once /\ DoesAsBuilt /\ WaitIsOver
    BY <1>1, <1>2, <1>4 DEF TxsAreOwn, OwnTx, Nothing, PoolIsOwn, ChainIsCarried, Once, DoesAsBuilt,
                            WaitIsOver
<1>7. ContractsGrow
    <2>1. ASSUME NEW a \in Contracts PROVE Follows(a, 0, 0)
        <3>1. Genesis[a] # None => Genesis[a].count \in Nat
            BY DeploymentAssumption DEF ContractStates
        <3> QED BY <3>1 DEF Follows, ContractsAt
    <2> QED BY <1>2, <2>1 DEF ContractsGrow
<1>8. ByItsRun /\ LookedBefore
    BY <1>2, <1>4, DeploymentAssumption DEF ByItsRun, ContractsAt, LookedBefore, Remembers, LooksFirst,
                                            Nothing
<1>9. VerifiedHasEnded /\ VerifiedIsTrue /\ QuietVerifies
    BY <1>1, <1>3 DEF VerifiedHasEnded, VerifiedIsTrue, QuietVerifies
<1> QED BY <1>5, <1>6, <1>7, <1>8, <1>9 DEF RInv

\* A run that moves leaves the others theirs, and once it has sent, keeps what it has.
LEMMA RunStep ==
    ASSUME RInv, NEW r \in Runs, pc[r] \in {"idle"} \cup Busy, UNCHANGED <<chain, indexed>>,
           \A q \in Runs : q # r => pc'[q] = pc[q] /\ held'[q] = held[q],
           pc[r] \in Launched =>
                /\ pc'[r] \in Launched /\ held'[r].tx = held[r].tx
                /\ held'[r].secret = held[r].secret /\ held'[r].key = held[r].key
                /\ held'[r].segment = held[r].segment /\ held'[r].seen = held[r].seen,
           held'[r].secret \in Contents \cup {None}, held'[r].key \in Contents \cup {None},
           held'[r].seen \in 0..indexed, held'[r].read \in 0..indexed,
           OwnTx(r)',
           (held'[r].before = held[r].before /\ held'[r].seen = held[r].seen) \/ Remembers(r)',
           \A t \in pool' : t \in pool \/ (t = held'[r].tx /\ pc'[r] \in Launched /\ HasOwn(r)'),
           \A p \in Paths : \/ disk'[p] = disk[p]
                            \/ /\ disk'[p].run = r /\ disk'[p].stage \in Stages
                               /\ disk'[p].stage = "verified" => pc'[r] = "verified" /\ Told(r)',
           pc'[r] = "included" => Found(r)',
           pc'[r] = "unshown" => Quiet(r)'
    PROVE  RInv'
<1>1. ASSUME NEW q \in Runs
      PROVE  /\ pc[q] \in Launched =>
                    pc'[q] \in Launched /\ held'[q].tx = held[q].tx /\ BuiltState(q)' = BuiltState(q)
                    /\ held'[q].seen = held[q].seen
             /\ pc[q] \in Launched /\ HasOwn(q) => HasOwn(q)'
    <2>1. q # r \/ pc[q] \in Launched =>
            /\ held'[q].tx = held[q].tx /\ held'[q].secret = held[q].secret
            /\ held'[q].key = held[q].key /\ held'[q].segment = held[q].segment
            /\ held'[q].seen = held[q].seen
        OBVIOUS
    <2>2. pc[q] \in Launched => pc'[q] \in Launched
        OBVIOUS
    <2>3. pc[q] \in Launched => BuiltState(q)' = BuiltState(q)
        BY <2>1 DEF BuiltState
    <2>4. pc[q] \in Launched /\ HasOwn(q) => HasOwn(q)'
        BY <2>1, <2>3 DEF HasOwn, IntentCheck
    <2> QED BY <2>1, <2>2, <2>3, <2>4
<1>2. ASSUME NEW q \in Runs, NEW n \in DOMAIN chain, Mine(q, n) PROVE pc[q] \in Launched
    <2>1. Carried(chain[n].tx) /\ Has(chain[n].tx, q)
        BY <1>2 DEF RInv, ChainIsCarried, Mine
    <2> QED BY <2>1, OwnPlaces
<1>3. Form'
    BY DEF RInv, Form, Exists
<1>4. TxsAreOwn'
    <2>1. ASSUME NEW q \in Runs, q # r PROVE OwnTx(q)'
        <3>1. OwnTx(q) /\ pc'[q] = pc[q] /\ held'[q] = held[q]
            BY <2>1 DEF RInv, TxsAreOwn
        <3> QED BY <3>1 DEF OwnTx, HasOwn, IntentCheck, BuiltState
    <2> QED BY <2>1 DEF TxsAreOwn
<1>5. PoolIsOwn'
    <2>1. ASSUME NEW t \in pool' PROVE \E q \in Runs : t = held'[q].tx /\ pc'[q] \in Launched /\ HasOwn(q)'
        <3>1. CASE t \in pool
            <4>1. PICK q \in Runs : t = held[q].tx /\ pc[q] \in Launched /\ HasOwn(q)
                BY <3>1 DEF RInv, PoolIsOwn
            <4> QED BY <1>1, <4>1
        <3>2. CASE t \notin pool
            BY <3>2
        <3> QED BY <3>1, <3>2
    <2> QED BY <2>1 DEF PoolIsOwn
<1>6. ChainIsCarried'
    <2>1. ASSUME NEW n \in DOMAIN chain, NEW t, t = chain[n].tx PROVE Carried(t)'
        <3>1. Carried(t)
            BY <2>1 DEF RInv, ChainIsCarried
        <3> QED BY <1>1, <3>1 DEF Carried, DeploysIn, Places, At
    <2>2. \A n \in DOMAIN chain : Carried(chain[n].tx)'
        BY <2>1
    <2> QED BY <2>2 DEF ChainIsCarried
<1>7. Once' /\ ContractsGrow' /\ ByItsRun'
    BY ChainStays
<1>8. DoesAsBuilt'
    BY <1>1, <1>2, ChainStays DEF RInv, DoesAsBuilt
<1>9. LookedBefore'
    <2>1. ASSUME NEW q \in Runs PROVE LooksFirst(q)'
        <3>1. LooksFirst(q)
            BY DEF RInv, LookedBefore
        <3> QED BY <1>1, <1>2, <3>1, ChainStays DEF LooksFirst
    <2>2. ASSUME NEW q \in Runs, held'[q].before = held[q].before, held'[q].seen = held[q].seen
          PROVE  Remembers(q)'
        <3>1. Remembers(q)
            BY DEF RInv, LookedBefore
        <3> QED BY <2>2, <3>1 DEF Remembers, ContractsAt
    <2>3. \A q \in Runs : Remembers(q)'
        BY <2>2
    <2> QED BY <2>1, <2>3 DEF LookedBefore
<1>10. WaitIsOver'
    <2>1. ASSUME NEW q \in Runs, q # r, pc'[q] = "included" PROVE Found(q)'
        <3>1. Found(q) /\ held'[q] = held[q]
            BY <2>1 DEF RInv, WaitIsOver
        <3> QED BY <3>1 DEF Found, Own
    <2> QED BY <2>1 DEF WaitIsOver
<1>11. ASSUME NEW p \in Paths, disk'[p].stage = "verified"
       PROVE  disk'[p].run \in Runs /\ pc'[disk'[p].run] = "verified" /\ \E q \in Runs : q = disk'[p].run /\ Told(q)'
    <2>1. CASE disk'[p] = disk[p]
        <3>1. PICK q \in Runs : q = disk[p].run /\ pc[q] = "verified" /\ Told(q)
            BY <1>11, <2>1 DEF RInv, VerifiedHasEnded, VerifiedIsTrue, Told
        <3>2. q # r
            BY <3>1 DEF Busy
        <3>3. pc'[q] = "verified" /\ held'[q] = held[q]
            BY <3>1, <3>2
        <3>4. Told(q)'
            BY <3>1, <3>3 DEF Told, Own, DeployTold, PinTold, OtherPin, BuiltState
        <3> QED BY <2>1, <3>1, <3>3, <3>4
    <2>2. CASE disk'[p] # disk[p]
        BY <1>11, <2>2
    <2> QED BY <2>1, <2>2
<1>12. VerifiedHasEnded'
    BY <1>11 DEF VerifiedHasEnded
<1>13. VerifiedIsTrue'
    BY <1>11 DEF VerifiedIsTrue, Told
<1>14. QuietVerifies'
    <2>1. ASSUME NEW q \in Runs, pc'[q] = "unshown" PROVE Quiet(q)'
        <3>1. CASE q # r
            <4>1. Quiet(q) /\ held'[q] = held[q]
                BY <2>1, <3>1 DEF RInv, QuietVerifies, Quiet
            <4> QED BY <4>1 DEF Quiet, Maintained, OtherPin, Behind, Own
        <3>2. CASE q = r
            BY <2>1, <3>2
        <3> QED BY <3>1, <3>2
    <2> QED BY <2>1 DEF QuietVerifies, Quiet
<1> QED BY <1>3, <1>4, <1>5, <1>6, <1>7, <1>8, <1>9, <1>10, <1>12, <1>13, <1>14 DEF RInv

\* A step of one run that touches nothing but where it is.
LEMMA MovesOn ==
    ASSUME RInv, Shape, NEW r \in Runs, pc[r] \in {"idle"} \cup Busy, NEW x, pc' = [pc EXCEPT ![r] = x],
           UNCHANGED <<pool, chain, indexed, disk, held>>,
           (pc[r] \in Early /\ x \in Early) \/ x \in Ended \ {"unshown", "verified"}
           \/ (x = "unshown" /\ Quiet(r))
    PROVE  RInv'
<1>1. /\ \A q \in Runs : pc'[q] = IF q = r THEN x ELSE pc[q]
    BY DEF Shape
<1>2. OwnTx(r)'
    <2>1. x \in Early => pc[r] \in Early
        BY DEF Early, Ended
    <2>2. x \notin {"built", "finalized", "sent", "waiting", "included"}
        BY DEF Early, Ended
    <2>3. x \in Early => held'[r].tx = None
        BY <2>1 DEF RInv, TxsAreOwn, OwnTx
    <2> QED BY <1>1, <2>2, <2>3 DEF OwnTx
<1>3. pc[r] \in Launched => pc'[r] \in Launched
    BY <1>1 DEF Early, Ended, Launched
<1>4. pc'[r] # "included"
    BY <1>1 DEF Early, Ended
<1>5. pc'[r] = "unshown" => Quiet(r)'
    <2>1. pc'[r] = "unshown" => Quiet(r)
        BY <1>1 DEF Early
    <2>2. Quiet(r)' <=> Quiet(r)
        BY DEF Quiet, Maintained, OtherPin, Behind, Own
    <2> QED BY <2>1, <2>2
<1>6. /\ held[r].secret \in Contents \cup {None} /\ held[r].key \in Contents \cup {None}
      /\ held[r].seen \in 0..indexed /\ held[r].read \in 0..indexed
    BY DEF RInv, Form
<1> QED BY <1>1, <1>2, <1>3, <1>4, <1>5, <1>6, RunStep

\* The record at a run's path is its own once it is saved.
LEMMA SavedIs ==
    ASSUME Shape, NEW r \in Runs, NEW stage, Save(r, stage)
    PROVE  \A p \in Paths : disk'[p] = disk[p] \/ (disk'[p].run = r /\ disk'[p].stage = stage)
BY DeploymentAssumption DEF Save, Shape

\* A run that starts, opens, writes, stops or gives up.
LEMMA MovesKeep ==
    ASSUME RInv, Shape, NEW r \in Runs,
           \/ Start(r) \/ Stops(r) \/ GiveUp(r)
           \/ \E kind \in {"secret", "key"}, f \in Files : Open(r, kind, f) \/ Write(r, kind, f)
    PROVE  RInv'
<1>1. CASE Start(r)
    <2>1. PICK x \in {"refused", "openingSecret", "readingSecret"} : pc' = [pc EXCEPT ![r] = x]
        BY <1>1 DEF Start, Goto
    <2> QED BY <1>1, <2>1, MovesOn DEF Start, Early, Ended
<1>2. CASE Stops(r)
    BY <1>2, MovesOn DEF Stops, Goto, Ended
<1>3. CASE GiveUp(r)
    BY <1>3, MovesOn DEF GiveUp, Goto, Ended, Busy
<1>4. ASSUME NEW kind \in {"secret", "key"}, NEW f \in Files, Open(r, kind, f) \/ Write(r, kind, f)
      PROVE  RInv'
    <2>1. /\ pc[r] \in {"openingSecret", "openingKey", "writingSecret", "writingKey"}
          /\ \E x \in {"writingSecret", "writingKey", "readingSecret", "readingKey", "failed"} :
                pc' = [pc EXCEPT ![r] = x]
          /\ UNCHANGED <<pool, chain, indexed, disk, held>>
        BY <1>4 DEF Open, Write, Opening, Writing, Reading, Goto
    <2>2. PICK x \in {"writingSecret", "writingKey", "readingSecret", "readingKey", "failed"} :
                pc' = [pc EXCEPT ![r] = x]
        BY <2>1
    <2> QED BY <2>1, <2>2, MovesOn DEF Early, Ended, Busy
<1> QED BY <1>1, <1>2, <1>3, <1>4

\* A run that has built nothing yet learns something of its files or of the board.
LEMMA LearnsMore ==
    ASSUME RInv, Shape, NEW r \in Runs, pc[r] \in Early, NEW x \in Early, pc' = [pc EXCEPT ![r] = x],
           UNCHANGED <<pool, chain, indexed, disk>>,
           \A q \in Runs : q # r => held'[q] = held[q],
           held'[r].tx = held[r].tx,
           held'[r].secret \in Contents \cup {None}, held'[r].key \in Contents \cup {None},
           held'[r].seen \in 0..indexed, held'[r].read \in 0..indexed,
           (held'[r].before = held[r].before /\ held'[r].seen = held[r].seen) \/ Remembers(r)'
    PROVE  RInv'
<1>1. /\ \A q \in Runs : pc'[q] = IF q = r THEN x ELSE pc[q]
    BY DEF Shape
<1>2. held'[r].tx = None
    BY DEF RInv, TxsAreOwn, OwnTx
<1>3. OwnTx(r)' /\ pc'[r] \notin {"included", "unshown"}
    BY <1>1, <1>2 DEF OwnTx, Early
<1>4. pc[r] \in {"idle"} \cup Busy /\ pc[r] \notin Launched
    BY DEF Early, Launched, Busy, Ended
<1> QED BY <1>1, <1>3, <1>4, RunStep

\* Reading the files and looking at the board.
LEMMA ReadsKeepReports ==
    ASSUME RInv, Shape, NEW r \in Runs, ReadSecret(r) \/ ReadKey(r) \/ Look(r)
    PROVE  RInv'
<1>0. /\ held[r].secret \in Contents \cup {None} /\ held[r].key \in Contents \cup {None}
      /\ held[r].seen \in 0..indexed /\ held[r].read \in 0..indexed
      /\ chain \in Seq(Entries) /\ indexed \in 0..Len(chain)
      /\ SecretFile[r] \in Files /\ KeyFile[r] \in Files /\ Address[r] \in Contracts
    BY DeploymentAssumption DEF RInv, Form
<1>1. CASE ReadSecret(r)
    <2>1. CASE Holding(SecretFile[r], "secret")
        <3>1. PICK x \in {"looking", "readingKey", "openingKey"} : pc' = [pc EXCEPT ![r] = x]
            BY <1>1, <2>1 DEF ReadSecret, Goto
        <3>2. /\ held' = [held EXCEPT ![r].secret = files[SecretFile[r]]]
              /\ pc[r] = "readingSecret" /\ UNCHANGED <<pool, chain, indexed, disk>>
            BY <1>1, <2>1 DEF ReadSecret
        <3>3. /\ \A q \in Runs : q # r => held'[q] = held[q]
              /\ held'[r].secret = files[SecretFile[r]] /\ held'[r].key = held[r].key
              /\ held'[r].tx = held[r].tx /\ held'[r].before = held[r].before /\ held'[r].seen = held[r].seen
              /\ held'[r].read = held[r].read
            BY <3>2 DEF Shape
        <3>4. files[SecretFile[r]] \in Contents \cup {None}
            BY <1>0 DEF Shape
        <3> QED BY <1>0, <3>1, <3>2, <3>3, <3>4, LearnsMore DEF Early
    <2>2. CASE ~Holding(SecretFile[r], "secret")
        BY <1>1, <2>2, MovesOn DEF ReadSecret, Goto, Ended, Busy
    <2> QED BY <2>1, <2>2
<1>2. CASE ReadKey(r)
    <2>1. CASE Holding(KeyFile[r], "key")
        <3>1. /\ held' = [held EXCEPT ![r].key = files[KeyFile[r]]] /\ pc' = [pc EXCEPT ![r] = "building"]
              /\ pc[r] = "readingKey" /\ UNCHANGED <<pool, chain, indexed, disk>>
            BY <1>2, <2>1 DEF ReadKey, Goto
        <3>2. /\ \A q \in Runs : q # r => held'[q] = held[q]
              /\ held'[r].key = files[KeyFile[r]] /\ held'[r].secret = held[r].secret
              /\ held'[r].tx = held[r].tx /\ held'[r].before = held[r].before /\ held'[r].seen = held[r].seen
              /\ held'[r].read = held[r].read
            BY <3>1 DEF Shape
        <3>3. files[KeyFile[r]] \in Contents \cup {None}
            BY <1>0 DEF Shape
        <3> QED BY <1>0, <3>1, <3>2, <3>3, LearnsMore DEF Early
    <2>2. CASE ~Holding(KeyFile[r], "key")
        BY <1>2, <2>2, MovesOn DEF ReadKey, Goto, Ended, Busy
    <2> QED BY <2>1, <2>2
<1>3. CASE Look(r)
    <2>0. PICK n \in 0..indexed :
            held' = [held EXCEPT ![r].before = CountOf(ContractsAt(n)[Address[r]]), ![r].seen = n]
        BY <1>3 DEF Look
    <2> DEFINE st == ContractsAt(n)[Address[r]]
    <2>1. /\ pc' = [pc EXCEPT ![r] = "building"]
          /\ pc[r] = "looking" /\ UNCHANGED <<pool, chain, indexed, disk>>
        BY <1>3 DEF Look, Goto
    <2>2. /\ \A q \in Runs : q # r => held'[q] = held[q]
          /\ held'[r].key = held[r].key /\ held'[r].secret = held[r].secret
          /\ held'[r].tx = held[r].tx /\ held'[r].before = CountOf(st) /\ held'[r].seen = n
          /\ held'[r].read = held[r].read
        BY <2>0 DEF Shape
    <2>3. Remembers(r)'
        <3>1. CountOf(st) # None => st # None /\ st.count = CountOf(st)
            BY DEF CountOf
        <3>2. ContractsAt(held[r].seen)' = ContractsAt(n)
            BY <2>1, <2>2 DEF ContractsAt
        <3>3. PICK z : z = st
            OBVIOUS
        <3>4. ContractsAt(held[r].seen)'[Address[r]] = z /\ held'[r].before = CountOf(z)
            BY <2>2, <3>2, <3>3
        <3>5. CountOf(z) # None => z # None /\ z.count = CountOf(z)
            BY <3>1, <3>3
        <3> QED BY <3>4, <3>5 DEF Remembers
    <2> QED BY <1>0, <2>1, <2>2, <2>3, LearnsMore DEF Early
<1> QED BY <1>1, <1>2, <1>3

\* What a run builds is one of its drafts.
LEMMA BuildsKeep ==
    ASSUME RInv, IInv, NEW r \in Runs, BuildDeploy(r) \/ BuildPin(r)
    PROVE  RInv'
<1>0. /\ held[r].secret \in Contents \cup {None} /\ held[r].key \in Contents \cup {None}
      /\ held[r].seen \in 0..indexed /\ held[r].read \in 0..indexed /\ Shape
    BY DEF RInv, Form, IInv
<1>1. /\ pc[r] = "building" /\ pc' = [pc EXCEPT ![r] = "built"]
      /\ UNCHANGED <<pool, chain, indexed>>
    BY DEF BuildDeploy, BuildPin, Goto
<1>2. pc[r] \in {"idle"} \cup Busy /\ pc[r] \notin Launched /\ pc'[r] = "built"
      /\ \A q \in Runs : q # r => pc'[q] = pc[q]
    BY <1>0, <1>1 DEF Busy, Launched, Ended, Shape
<1>3. CASE BuildDeploy(r)
    <2> DEFINE d == Single(1, Alone(DeployOf(Address[r], BuiltState(r)), r))
    <2>1. r \in Deploys /\ held' = [held EXCEPT ![r].tx = d] /\ Save(r, "built")
        BY <1>3 DEF BuildDeploy
    <2>2. held[r].secret \in Contents /\ held[r].key \in Contents
        BY <1>0, <1>1, <2>1 DEF IInv, KeysRead, AfterSecret, AfterKey
    <2>3. d \in Drafts(r)
        <3> DEFINE x == <<held[r].secret, held[r].key>>
        <3>1. x \in Contents \X Contents /\ x[1] = held[r].secret /\ x[2] = held[r].key
            BY <2>2
        <3>2. d = Single(1, Alone(DeployOf(Address[r], DeployedState(x[1], x[2])), r))
            BY <3>1 DEF BuiltState
        <3> QED BY <2>1, <3>1, <3>2 DEF Drafts
    <2> HIDE DEF d
    <2>4. /\ \A q \in Runs : q # r => held'[q] = held[q]
          /\ held'[r].tx = d /\ held'[r].key = held[r].key /\ held'[r].secret = held[r].secret
          /\ held'[r].before = held[r].before /\ held'[r].seen = held[r].seen
          /\ held'[r].read = held[r].read
        BY <1>0, <2>1 DEF Shape
    <2>5. OwnTx(r)'
        BY <1>2, <2>3, <2>4 DEF OwnTx, Early
    <2>6. \A p \in Paths : disk'[p] = disk[p] \/ (disk'[p].run = r /\ disk'[p].stage = "built")
        BY <1>0, <2>1, SavedIs
    <2>7. \A p \in Paths : \/ disk'[p] = disk[p]
                           \/ /\ disk'[p].run = r /\ disk'[p].stage \in Stages
                              /\ disk'[p].stage = "verified" => pc'[r] = "verified" /\ Told(r)'
        BY <2>6 DEF Stages
    <2> QED BY <1>0, <1>1, <1>2, <2>4, <2>5, <2>7, RunStep
<1>4. CASE BuildPin(r)
    <2>1. r \notin Deploys /\ UNCHANGED disk
        BY <1>4 DEF BuildPin
    <2>2. PICK s \in Draws :
            held' = [held EXCEPT ![r].segment = s, ![r].tx = Single(s, Alone(CallOf(Address[r], Pin, Digest[r]), r))]
        BY <1>4 DEF BuildPin
    <2>3. /\ \A q \in Runs : q # r => held'[q] = held[q]
          /\ held'[r].tx = Single(s, Alone(CallOf(Address[r], Pin, Digest[r]), r))
          /\ held'[r].key = held[r].key /\ held'[r].secret = held[r].secret
          /\ held'[r].before = held[r].before /\ held'[r].seen = held[r].seen
          /\ held'[r].read = held[r].read
        BY <1>0, <2>2 DEF Shape
    <2>4. held'[r].tx \in Drafts(r)
        BY <2>1, <2>3 DEF Drafts
    <2>5. OwnTx(r)'
        BY <1>2, <2>4 DEF OwnTx, Early
    <2> QED BY <1>0, <1>1, <1>2, <2>1, <2>3, <2>5, RunStep
<1> QED BY <1>3, <1>4

\* What prover and balancer return is the run's own, and is checked before it is saved.
LEMMA FinalizeKeeps ==
    ASSUME RInv, Shape, NEW r \in Runs, Finalize(r)
    PROVE  RInv'
<1>0. /\ held[r].secret \in Contents \cup {None} /\ held[r].key \in Contents \cup {None}
      /\ held[r].seen \in 0..indexed /\ held[r].read \in 0..indexed
    BY DEF RInv, Form
<1>1. /\ pc[r] = "built" /\ pc' = [pc EXCEPT ![r] = "finalized"] /\ Save(r, "finalized")
      /\ UNCHANGED <<pool, chain, indexed>>
    BY DEF Finalize, Goto
<1>2. PICK t \in Answers(held[r].tx) : IntentCheck(r, t) /\ held' = [held EXCEPT ![r].tx = t]
    BY DEF Finalize
<1>3. IsSealed(t) /\ MadeBy(t, r)
    <2>1. held[r].tx \in Drafts(r)
        BY <1>1 DEF RInv, TxsAreOwn, OwnTx
    <2> QED BY <1>2, <2>1, MakersAssumption
<1>4. /\ \A q \in Runs : q # r => held'[q] = held[q]
      /\ held'[r].tx = t /\ held'[r].key = held[r].key /\ held'[r].secret = held[r].secret
      /\ held'[r].segment = held[r].segment
      /\ held'[r].before = held[r].before /\ held'[r].seen = held[r].seen
      /\ held'[r].read = held[r].read
    BY <1>2 DEF Shape
<1>5. HasOwn(r)'
    BY <1>2, <1>3, <1>4 DEF HasOwn, IntentCheck, BuiltState
<1>6. pc[r] \in {"idle"} \cup Busy /\ pc[r] \notin Launched /\ pc'[r] = "finalized"
      /\ \A q \in Runs : q # r => pc'[q] = pc[q]
    BY <1>1 DEF Busy, Launched, Ended, Shape
<1>7. OwnTx(r)'
    BY <1>5, <1>6 DEF OwnTx, Early
<1>8. \A p \in Paths : disk'[p] = disk[p] \/ (disk'[p].run = r /\ disk'[p].stage = "finalized")
    BY <1>1, SavedIs
<1>9. \A p \in Paths : \/ disk'[p] = disk[p]
                       \/ /\ disk'[p].run = r /\ disk'[p].stage \in Stages
                          /\ disk'[p].stage = "verified" => pc'[r] = "verified" /\ Told(r)'
    BY <1>8 DEF Stages
<1> QED BY <1>0, <1>1, <1>4, <1>6, <1>7, <1>9, RunStep

\* It is sent, waited for and found as it was saved.
LEMMA SubmitsKeep ==
    ASSUME RInv, Shape, NEW r \in Runs, Send(r) \/ SendReturns(r) \/ Poll(r)
    PROVE  RInv'
<1>0. /\ held[r].secret \in Contents \cup {None} /\ held[r].key \in Contents \cup {None}
      /\ held[r].seen \in 0..indexed /\ held[r].read \in 0..indexed
    BY DEF RInv, Form
<1>1. /\ pc[r] \in {"finalized", "sent", "waiting"} /\ UNCHANGED <<chain, indexed, held>>
      /\ \E x \in {"sent", "waiting", "included", "unsuccessful"} : pc' = [pc EXCEPT ![r] = x]
    BY DEF Send, SendReturns, Poll, Goto
<1>2. PICK x \in {"sent", "waiting", "included", "unsuccessful"} : pc' = [pc EXCEPT ![r] = x]
    BY <1>1
<1>3. pc[r] \in {"idle"} \cup Busy /\ pc'[r] = x /\ pc'[r] \in Launched
      /\ \A q \in Runs : q # r => pc'[q] = pc[q]
    BY <1>1, <1>2 DEF Busy, Launched, Ended, Shape
<1>4. HasOwn(r) /\ HasOwn(r)'
    <2>1. HasOwn(r)
        BY <1>1 DEF RInv, TxsAreOwn, OwnTx
    <2> QED BY <1>1, <2>1 DEF HasOwn, IntentCheck, BuiltState
<1>5. OwnTx(r)'
    BY <1>3, <1>4 DEF OwnTx, Early
<1>6. \A t \in pool' : t \in pool \/ t = held'[r].tx
    BY <1>1 DEF Send, SendReturns, Poll
<1>7. \A p \in Paths : disk'[p] = disk[p] \/ (disk'[p].run = r /\ disk'[p].stage \in {"submitted", "included"})
    <2>1. CASE Send(r)
        BY <2>1 DEF Send
    <2>2. CASE SendReturns(r)
        BY <2>2, SavedIs DEF SendReturns
    <2>3. CASE Poll(r)
        BY <2>3, SavedIs DEF Poll
    <2> QED BY <2>1, <2>2, <2>3
<1>8. \A p \in Paths : \/ disk'[p] = disk[p]
                       \/ /\ disk'[p].run = r /\ disk'[p].stage \in Stages
                          /\ disk'[p].stage = "verified" => pc'[r] = "verified" /\ Told(r)'
    BY <1>7 DEF Stages
<1>9. pc'[r] = "included" => Found(r)'
    <2>1. SUFFICES ASSUME pc'[r] = "included" PROVE Found(r)'
        OBVIOUS
    <2>2. Poll(r)
        BY <2>1 DEF Send, SendReturns, Goto, Shape
    <2>3. PICK n \in 1..indexed :
            Own(r, n) /\ pc' = [pc EXCEPT ![r] = IF chain[n].status = "SUCCESS" THEN "included" ELSE "unsuccessful"]
        BY <2>2 DEF Poll, Goto
    <2>4. chain[n].status = "SUCCESS"
        BY <2>1, <2>3 DEF Shape
    <2> QED BY <1>1, <2>3, <2>4 DEF Found, Own
<1> QED BY <1>0, <1>1, <1>3, <1>4, <1>5, <1>6, <1>8, <1>9, RunStep

-----------------------------------------------------------------------------
(* What a run reads back *)

\* What the wait has found has the run's intents, whole, and is the only such entry.
LEMMA OwnEntry ==
    ASSUME RInv, NEW r \in Runs, HasOwn(r), NEW n \in DOMAIN chain, Own(r, n)
    PROVE  Mine(r, n) /\ Carried(chain[n].tx) /\ Has(chain[n].tx, r) /\ chain[n] \in Entries
<1>1. PICK h \in Identifiers(held[r].tx) : h \in Identifiers(chain[n].tx)
    BY DEF Own
<1>2. PICK s \in DOMAIN held[r].tx.intents : h = <<s, held[r].tx.intents[s]>>
    BY DEF Identifiers, IntentHash
<1>3. PICK z \in DOMAIN chain[n].tx.intents : h = <<z, chain[n].tx.intents[z]>>
    BY <1>1 DEF Identifiers, IntentHash
<1>4. chain[n].tx.intents[z].maker = r
    BY <1>2, <1>3 DEF HasOwn, MadeBy
<1>5. Carried(chain[n].tx)
    BY DEF RInv, ChainIsCarried
<1>6. chain[n] \in Entries
    <2>1. chain \in Seq(Entries)
        BY DEF RInv, Form
    <2> QED BY <2>1, LenProperties
<1> QED BY <1>4, <1>5, <1>6 DEF Mine, Has

\* Where a run that knows its inclusion stands.
LEMMA Included ==
    ASSUME RInv, NEW r \in Runs, pc[r] = "included"
    PROVE  /\ HasOwn(r) /\ chain \in Seq(Entries) /\ indexed \in 0..Len(chain) /\ Len(chain) \in Nat
           /\ DOMAIN chain = 1..Len(chain)
           /\ \E n \in 1..indexed :
                /\ n \in DOMAIN chain /\ Own(r, n) /\ Mine(r, n) /\ chain[n].status = "SUCCESS"
                /\ ContractsAt(n) = chain[n].after
           /\ \A n \in 0..Len(chain) : ContractsAt(n) \in [Contracts -> Boards]
<1>1. HasOwn(r)
    BY DEF RInv, TxsAreOwn, OwnTx
<1>2. chain \in Seq(Entries) /\ indexed \in 0..Len(chain)
    BY DEF RInv, Form
<1>3. Len(chain) \in Nat /\ DOMAIN chain = 1..Len(chain)
    BY <1>2, LenProperties
<1>4. PICK n \in 1..indexed : Own(r, n) /\ chain[n].status = "SUCCESS"
    BY DEF RInv, WaitIsOver, Found
<1>5. n \in DOMAIN chain /\ n # 0
    BY <1>2, <1>3
<1>6. Mine(r, n)
    BY <1>1, <1>4, <1>5, OwnEntry
<1>7. ContractsAt(n) = chain[n].after
    BY <1>5 DEF ContractsAt
<1> QED BY <1>1, <1>2, <1>3, <1>4, <1>5, <1>6, <1>7, ContractsAre

\* Entry n is younger than the state a run is given.
Unread(r, j) == \E n \in DOMAIN chain : Own(r, n) /\ j < n

\* What a deploy has made it reads back, unless somebody maintained it or the state it is
\* given is older.
LEMMA DeployReads ==
    ASSUME RInv, IInv, NEW r \in Deploys, pc[r] = "included", NEW j \in 0..indexed
    PROVE  /\ Told(r)
           /\ ~DeployShown(r, Current(r, j)) => Maintained(Address[r]) \/ Unread(r, j)
<1> DEFINE a == Address[r]
           x == BuiltState(r)
           z == ContractsAt(j)[a]
<1>0. r \in Runs /\ a \in Contracts
    BY DeploymentAssumption
<1>1. PICK n \in 1..indexed : /\ n \in DOMAIN chain /\ Own(r, n) /\ Mine(r, n) /\ chain[n].status = "SUCCESS"
                              /\ ContractsAt(n) = chain[n].after
    BY <1>0, Included
<1>2. ContractsAt(n)[a] = x
    BY <1>0, <1>1 DEF RInv, DoesAsBuilt
<1>3. Told(r)
    BY <1>0, <1>1, <1>2 DEF Told, DeployTold
<1>4. x \in ContractStates /\ x # None
    <2>1. held[r].secret \in Contents /\ held[r].key \in Contents
        BY <1>0 DEF RInv, Form, IInv, KeysRead, AfterSecret, AfterKey, AfterBuild
    <2>2. x \in ContractStates
        BY <2>1 DEF BuiltState, DeployedState, ContractStates
    <2> QED BY <2>2, DeploymentAssumption
<1>5. CASE j < n
    BY <1>1, <1>3, <1>5 DEF Unread
<1>6. CASE n <= j
    <2> HIDE DEF x
    <2>1. Follows(a, n, j)
        <3>1. j \in 0..Len(chain) /\ n \in 0..j
            BY <1>0, <1>6, Included
        <3> QED BY <1>0, <3>1 DEF RInv, ContractsGrow
    <2>2. /\ z # None /\ z.authority = x.authority
          /\ ~Maintained(a) => z.committee = x.committee /\ z.keys = x.keys
        BY <1>2, <1>4, <2>1 DEF Follows
    <2>3. x.authority = held[r].secret /\ x.committee = held[r].key /\ x.keys = EntryPoints
        BY DEF x, BuiltState, DeployedState
    <2> QED BY <1>3, <2>2, <2>3 DEF DeployShown, Current
<1>7. j < n \/ n <= j
    OBVIOUS
<1> QED BY <1>5, <1>6, <1>7

\* A pin's own entry carries a pin of it; if that is the only one there, its digest is
\* the one the run's own transaction sets.
LEMMA PinEntry ==
    ASSUME RInv, NEW r \in Runs, r \notin Deploys, HasOwn(r), NEW n \in DOMAIN chain, Own(r, n)
    PROVE  LET t == chain[n].tx a == Address[r] IN
           /\ Cardinality(PinsOn(t, a)) \in Nat /\ Cardinality(PinsOn(t, a)) >= 1
           /\ Cardinality(PinsOn(t, a)) = 1 => LastPinned(t, a) = LastPinned(held[r].tx, a)
<1> DEFINE t == chain[n].tx
           a == Address[r]
<1>1. Carried(t) /\ Has(t, r) /\ IsSealed(t) /\ IsSealed(held[r].tx)
    <2>1. Carried(t) /\ Has(t, r) /\ chain[n] \in Entries
        BY OwnEntry
    <2>2. t \in Txs
        BY <2>1 DEF Entries
    <2> QED BY <2>1, <2>2, SealedTxs DEF HasOwn
<1> HIDE DEF t
<1>2. ASSUME NEW x \in PinsOn(held[r].tx, a) PROVE x \in PinsOn(t, a) /\ At(t, x) = At(held[r].tx, x)
    <2>1. x \in Places(held[r].tx)
        BY DEF PinsOn, CallsOf
    <2>2. x \in Places(t) /\ At(t, x) = At(held[r].tx, x)
        BY <1>1, <2>1, OwnPlaces
    <2> QED BY <2>2 DEF PinsOn, CallsOf
<1>3. PinsOn(held[r].tx, a) # {}
    BY OwnPin
<1>4. PinsOn(t, a) # {}
    BY <1>2, <1>3
<1>5. ASSUME Cardinality(PinsOn(t, a)) = 1 PROVE LastPinned(t, a) = LastPinned(held[r].tx, a)
    <2>1. PICK x \in PinsOn(t, a) : LastPinned(t, a) = At(t, x).guaranteed
        BY <1>1, <1>4, LastPinnedIs
    <2>2. PICK y \in PinsOn(held[r].tx, a) : LastPinned(held[r].tx, a) = At(held[r].tx, y).guaranteed
        BY <1>1, <1>3, LastPinnedIs
    <2>3. y \in PinsOn(t, a) /\ At(t, y) = At(held[r].tx, y)
        BY <1>2
    <2>4. x = y
        BY <1>1, <1>5, <2>3, PinsCount
    <2> QED BY <2>1, <2>2, <2>3, <2>4
<1>6. Cardinality(PinsOn(t, a)) \in Nat /\ Cardinality(PinsOn(t, a)) >= 1
    BY <1>1, <1>4, PinsCount
<1> QED BY <1>5, <1>6 DEF t

\* The board before and after the run's own entry n, as it was looked at before, and as it
\* is read back after it.
LEMMA PinBoards ==
    ASSUME RInv, NEW r \in Runs, r \notin Deploys, pc[r] = "included",
           NEW n \in 1..indexed, n \in DOMAIN chain, Own(r, n), chain[n].status = "SUCCESS",
           NEW j \in n..indexed
    PROVE  LET a == Address[r] x == ContractsAt(n - 1)[a] y == ContractsAt(n)[a]
               z == ContractsAt(j)[a] m == held[r].seen w == ContractsAt(m)[a] IN
           /\ x # None /\ y # None /\ z # None
           /\ x.count \in Nat /\ y.count \in Nat /\ z.count \in Nat
           /\ y.count = x.count + Cardinality(PinsOn(chain[n].tx, a))
           /\ y.digest = LastPinned(chain[n].tx, a)
           /\ y.count <= z.count /\ (y.count = z.count => y.digest = z.digest)
           /\ (\A k \in (n + 1)..j : PinsOn(chain[k].tx, a) = {}) => y.count = z.count
           /\ m \in Nat /\ m < n
           /\ held[r].before # None =>
                /\ w.count = held[r].before /\ w.count \in Nat /\ w.count <= x.count
                /\ (\A k \in (m + 1)..(n - 1) : PinsOn(chain[k].tx, a) = {}) => w.count = x.count
<1> DEFINE a == Address[r]
           x == ContractsAt(n - 1)[a]
           y == ContractsAt(n)[a]
           z == ContractsAt(j)[a]
           m == held[r].seen
           w == ContractsAt(m)[a]
<1>0. a \in Contracts
    BY DeploymentAssumption
<1>1. /\ HasOwn(r) /\ indexed \in 0..Len(chain) /\ Len(chain) \in Nat
      /\ \A k \in 0..Len(chain) : ContractsAt(k) \in [Contracts -> Boards]
    BY Included
<1>2. Mine(r, n)
    BY <1>1, OwnEntry
<1>3. /\ x # None /\ y # None
      /\ y.count = x.count + Cardinality(PinsOn(chain[n].tx, a))
      /\ y.digest = LastPinned(chain[n].tx, a)
    BY <1>2 DEF RInv, DoesAsBuilt
<1>4. m \in Nat /\ m < n
    <2>1. held[r].seen \in 0..indexed
        BY DEF RInv, Form
    <2> QED BY <1>1, <1>2, <2>1 DEF RInv, LookedBefore, LooksFirst
<1>5. /\ n \in 0..j /\ j \in 0..Len(chain)
      /\ n - 1 \in 0..Len(chain) /\ n \in 0..Len(chain) /\ m \in 0..(n - 1) /\ m \in 0..Len(chain)
    BY <1>1, <1>4
<1>6. Follows(a, n, j) /\ Follows(a, m, n - 1)
    BY <1>0, <1>1, <1>5 DEF RInv, ContractsGrow
<1>7. /\ z # None /\ y.count <= z.count /\ (y.count = z.count => y.digest = z.digest)
      /\ (\A k \in (n + 1)..j : PinsOn(chain[k].tx, a) = {}) => y.count = z.count
    BY <1>3, <1>6 DEF Follows
<1>8. held[r].before # None => w # None /\ w.count = held[r].before
    BY DEF RInv, LookedBefore, Remembers
<1>9. w # None =>
        /\ w.count <= x.count
        /\ (\A k \in (m + 1)..(n - 1) : PinsOn(chain[k].tx, a) = {}) => w.count = x.count
    BY <1>6 DEF Follows
<1>10. x \in Boards /\ y \in Boards /\ z \in Boards /\ w \in Boards
    BY <1>0, <1>1, <1>5
<1>11. x.count \in Nat /\ y.count \in Nat /\ z.count \in Nat /\ (w # None => w.count \in Nat)
    BY <1>3, <1>7, <1>10 DEF Boards, ContractStates
<1> QED BY <1>3, <1>4, <1>7, <1>8, <1>9, <1>11

\* A board older than the run's own entry whose counter has moved by one has been pinned
\* by somebody else.
LEMMA EarlierPin ==
    ASSUME RInv, NEW r \in Runs, HasOwn(r), NEW n \in DOMAIN chain, Own(r, n), NEW j \in 0..(n - 1),
           held[r].before # None, ContractsAt(j)[Address[r]] # None,
           ContractsAt(j)[Address[r]].count = held[r].before + 1
    PROVE  OtherPin(r)
<1> DEFINE a == Address[r]
<1>0. /\ a \in Contracts /\ chain \in Seq(Entries) /\ Len(chain) \in Nat /\ DOMAIN chain = 1..Len(chain)
      /\ indexed \in 0..Len(chain)
      /\ \A k \in 0..Len(chain) : ContractsAt(k) \in [Contracts -> Boards]
    BY DeploymentAssumption, LenProperties, ContractsAre DEF RInv, Form
<1>1. PICK m : m = held[r].seen
    OBVIOUS
<1>2. PICK z, w : z = ContractsAt(j)[a] /\ w = ContractsAt(m)[a]
    OBVIOUS
<1>3. m \in 0..indexed /\ m \in 0..Len(chain) /\ j \in 0..Len(chain) /\ m \in Nat /\ j \in Nat
    BY <1>0, <1>1 DEF RInv, Form
<1>4. w # None /\ w.count = held[r].before
    BY <1>1, <1>2 DEF RInv, LookedBefore, Remembers
<1>5. z \in Boards /\ w \in Boards
    BY <1>0, <1>2, <1>3
<1>6. z # None /\ z.count \in Nat /\ w.count \in Nat /\ z.count = w.count + 1
    BY <1>2, <1>4, <1>5 DEF Boards, ContractStates
<1>7. m < j
    <2>1. SUFFICES ASSUME j <= m PROVE FALSE
        BY <1>3
    <2>2. j \in 0..m
        BY <1>3, <2>1
    <2>3. Follows(a, j, m)
        BY <1>0, <1>3, <2>2 DEF RInv, ContractsGrow
    <2>4. z.count <= w.count
        BY <1>2, <1>6, <2>3 DEF Follows
    <2> QED BY <1>6, <2>4
<1>8. PICK k \in (m + 1)..j : PinsOn(chain[k].tx, a) # {}
    <2>1. m \in 0..j
        BY <1>3, <1>7
    <2>2. Follows(a, m, j)
        BY <1>0, <1>3, <2>1 DEF RInv, ContractsGrow
    <2> QED BY <1>2, <1>4, <1>6, <2>2 DEF Follows
<1>9. k \in DOMAIN chain /\ k > m /\ k # n
    BY <1>0, <1>3, <1>8
<1>10. ~Own(r, k)
    <2>1. Mine(r, n) /\ (Own(r, k) => Mine(r, k))
        BY <1>9, OwnEntry
    <2> QED BY <1>9, <2>1 DEF RInv, Once
<1>11. Cardinality(PinsOn(chain[k].tx, a)) > 0
    <2>1. chain[k] \in Entries
        BY <1>0, <1>9, ElementOfSeq
    <2>2. chain[k].tx \in Txs
        BY <2>1 DEF Entries
    <2>3. Cardinality(PinsOn(chain[k].tx, a)) \in Nat
          /\ (Cardinality(PinsOn(chain[k].tx, a)) = 0 => PinsOn(chain[k].tx, a) = {})
        BY <2>2, SealedTxs, PinsCount
    <2> QED BY <1>8, <2>3
<1> QED BY <1>1, <1>9, <1>10, <1>11 DEF OtherPin

\* A counter that has moved by one has moved by the run's own pin, or, if the state is older
\* than that, by somebody else's.
LEMMA PinShownIsOwn ==
    ASSUME RInv, NEW r \in Runs, r \notin Deploys, pc[r] = "included", NEW j \in 0..indexed,
           PinShown(r, Current(r, j)), held[r].before # None
    PROVE  \E n \in DOMAIN chain :
            /\ Own(r, n) /\ chain[n].status = "SUCCESS"
            /\ Current(r, j).count = held[r].before + 1
            /\ IF j < n THEN OtherPin(r)
               ELSE /\ chain[n].after[Address[r]].digest = Digest[r]
                    /\ chain[n].after[Address[r]].count = held[r].before + 1
<1> DEFINE a == Address[r]
<1>1. PICK n \in 1..indexed : /\ n \in DOMAIN chain /\ Own(r, n) /\ Mine(r, n) /\ chain[n].status = "SUCCESS"
                              /\ ContractsAt(n) = chain[n].after
    BY Included
<1>2. PICK x, y, z, w : /\ x = ContractsAt(n - 1)[a] /\ y = ContractsAt(n)[a]
                        /\ z = ContractsAt(j)[a] /\ w = ContractsAt(held[r].seen)[a]
    OBVIOUS
<1>3. z # None /\ z.digest = Digest[r] /\ z.count = held[r].before + 1
    BY <1>2 DEF PinShown, Current
<1>4. CASE j < n
    <2>1. j \in 0..(n - 1)
        BY <1>4
    <2>2. HasOwn(r)
        BY Included
    <2>3. OtherPin(r)
        BY <1>1, <1>2, <1>3, <2>1, <2>2, EarlierPin
    <2> QED BY <1>1, <1>2, <1>3, <1>4, <2>3 DEF Current
<1>5. CASE ~(j < n)
    <2>1. PICK c : c = Cardinality(PinsOn(chain[n].tx, a))
        OBVIOUS
    <2>2. c \in Nat /\ c >= 1
        BY <1>1, <2>1, Included, PinEntry
    <2>3. j \in n..indexed
        BY <1>5
    <2>4. /\ x.count \in Nat /\ y.count \in Nat /\ z.count \in Nat
          /\ y.count = x.count + c
          /\ y.count <= z.count /\ (y.count = z.count => y.digest = z.digest)
          /\ w.count = held[r].before /\ w.count \in Nat /\ w.count <= x.count
        BY <1>1, <1>2, <2>1, <2>3, PinBoards
    <2>5. y.count = z.count
        BY <1>3, <2>2, <2>4
    <2> QED BY <1>1, <1>2, <1>3, <1>5, <2>4, <2>5 DEF Current
<1> QED BY <1>4, <1>5

\* A board that does not show a pin is older than it, was pinned by somebody else, or the
\* pin is another.
LEMMA PinUnshown ==
    ASSUME RInv, NEW r \in Runs, r \notin Deploys, pc[r] = "included", NEW j \in 0..indexed,
           ~PinShown(r, Current(r, j))
    PROVE  Unread(r, j) \/ OtherPin(r) \/ LastPinned(held[r].tx, Address[r]) # Digest[r]
<1> DEFINE a == Address[r]
<1> SUFFICES ASSUME ~Unread(r, j), ~OtherPin(r), LastPinned(held[r].tx, a) = Digest[r] PROVE FALSE
    OBVIOUS
<1>1. PICK n \in 1..indexed : /\ n \in DOMAIN chain /\ Own(r, n) /\ Mine(r, n) /\ chain[n].status = "SUCCESS"
                              /\ ContractsAt(n) = chain[n].after
    BY Included
<1>2. PICK x, y, z, w, m : /\ x = ContractsAt(n - 1)[a] /\ y = ContractsAt(n)[a]
                           /\ z = ContractsAt(j)[a] /\ w = ContractsAt(held[r].seen)[a]
                           /\ m = held[r].seen
    OBVIOUS
<1>3. PICK c : c = Cardinality(PinsOn(chain[n].tx, a))
    OBVIOUS
<1>4. /\ HasOwn(r) /\ indexed \in 0..Len(chain) /\ Len(chain) \in Nat /\ DOMAIN chain = 1..Len(chain)
      /\ chain \in Seq(Entries)
    BY Included
<1>0. j \in n..indexed
    BY <1>1 DEF Unread
<1>5. /\ x.count \in Nat /\ y.count \in Nat /\ z.count \in Nat /\ z # None
      /\ y.count = x.count + c /\ y.digest = LastPinned(chain[n].tx, a)
      /\ (y.count = z.count => y.digest = z.digest)
      /\ (\A k \in (n + 1)..j : PinsOn(chain[k].tx, a) = {}) => y.count = z.count
      /\ m \in Nat /\ m < n
    BY <1>0, <1>1, <1>2, <1>3, PinBoards
<1>6. held[r].before # None =>
        /\ w.count = held[r].before
        /\ (\A k \in (m + 1)..(n - 1) : PinsOn(chain[k].tx, a) = {}) => w.count = x.count
    BY <1>0, <1>1, <1>2, <1>3, PinBoards
<1>7. \A k \in DOMAIN chain : k > m => Cardinality(PinsOn(chain[k].tx, a)) <= (IF Own(r, k) THEN 1 ELSE 0)
    <2>1. ASSUME NEW k \in DOMAIN chain PROVE Cardinality(PinsOn(chain[k].tx, a)) \in Nat
        <3>1. chain[k] \in Entries
            BY <1>4, ElementOfSeq
        <3>2. chain[k].tx \in Txs
            BY <3>1 DEF Entries
        <3> QED BY <3>2, SealedTxs, PinsCount
    <2> QED BY <1>2, <2>1 DEF OtherPin
<1>8. ASSUME NEW k \in DOMAIN chain, k > m, k # n PROVE PinsOn(chain[k].tx, a) = {}
    <2>1. ~Own(r, k)
        <3>1. Own(r, k) => Mine(r, k)
            BY <1>4, OwnEntry
        <3> QED BY <1>1, <1>8, <3>1 DEF RInv, Once
    <2>2. chain[k].tx \in Txs
        <3>1. chain[k] \in Entries
            BY <1>4, ElementOfSeq
        <3> QED BY <3>1 DEF Entries
    <2>3. Cardinality(PinsOn(chain[k].tx, a)) <= 0
        BY <1>7, <1>8, <2>1
    <2>4. Cardinality(PinsOn(chain[k].tx, a)) \in Nat
          /\ (Cardinality(PinsOn(chain[k].tx, a)) = 0 => PinsOn(chain[k].tx, a) = {})
        BY <2>2, SealedTxs, PinsCount
    <2> QED BY <2>3, <2>4
<1>9. c = 1
    <2>1. c \in Nat /\ c >= 1
        BY <1>1, <1>3, <1>4, PinEntry
    <2>2. c <= 1
        BY <1>1, <1>3, <1>5, <1>7
    <2> QED BY <2>1, <2>2
<1>10. \A k \in (n + 1)..j : PinsOn(chain[k].tx, a) = {}
    <2>1. \A k \in (n + 1)..j : k \in DOMAIN chain /\ k > m /\ k # n
        BY <1>0, <1>1, <1>4, <1>5
    <2> QED BY <1>8, <2>1
<1>11. \A k \in (m + 1)..(n - 1) : PinsOn(chain[k].tx, a) = {}
    <2>1. \A k \in (m + 1)..(n - 1) : k \in DOMAIN chain /\ k > m /\ k # n
        BY <1>1, <1>4, <1>5
    <2> QED BY <1>8, <2>1
<1>12. z.digest = Digest[r]
    <2>1. y.digest = LastPinned(held[r].tx, a)
        BY <1>1, <1>3, <1>4, <1>5, <1>9, PinEntry
    <2> QED BY <1>5, <1>10, <2>1
<1>13. held[r].before # None => z.count = held[r].before + 1
    BY <1>5, <1>6, <1>9, <1>10, <1>11
<1> QED BY <1>2, <1>5, <1>12, <1>13 DEF PinShown, Current

\* Reading back reports the truth.
LEMMA ReadBackKeeps ==
    ASSUME RInv, IInv, NEW r \in Runs, ReadBack(r)
    PROVE  RInv'
<1>0. Shape /\ pc[r] = "included" /\ UNCHANGED <<pool, chain, indexed, files>>
    BY DEF ReadBack, IInv
<1>1. PICK j \in 0..indexed :
        LET st == Current(r, j) IN
        IF IF r \in Deploys THEN DeployShown(r, st) ELSE PinShown(r, st)
        THEN /\ held' = [held EXCEPT ![r].read = j,
                                     ![r].count = IF r \in Deploys THEN None ELSE st.count]
             /\ Save(r, "verified")
             /\ Goto(r, "verified")
        ELSE held' = [held EXCEPT ![r].read = j] /\ UNCHANGED disk /\ Goto(r, "unshown")
    BY DEF ReadBack
<1> DEFINE shown == IF r \in Deploys THEN DeployShown(r, Current(r, j)) ELSE PinShown(r, Current(r, j))
<1>2. CASE ~shown
    <2>1. /\ held' = [held EXCEPT ![r].read = j] /\ UNCHANGED disk
          /\ pc' = [pc EXCEPT ![r] = "unshown"]
        BY <1>2, <1>1 DEF Goto
    <2>2. /\ \A q \in Runs : q # r => held'[q] = held[q]
          /\ held'[r].tx = held[r].tx /\ held'[r].key = held[r].key /\ held'[r].secret = held[r].secret
          /\ held'[r].segment = held[r].segment
          /\ held'[r].before = held[r].before /\ held'[r].seen = held[r].seen
          /\ held'[r].read = j
        BY <1>0, <2>1 DEF Shape
    <2>3. /\ pc'[r] = "unshown" /\ pc'[r] \in Launched /\ pc[r] \in {"idle"} \cup Busy
          /\ \A q \in Runs : q # r => pc'[q] = pc[q]
        BY <1>0, <2>1 DEF Shape, Launched, Ended, Busy
    <2>4. Quiet(r)'
        <3>1. r \in Deploys => Unread(r, j) \/ Maintained(Address[r])
            BY <1>0, <1>2, DeployReads
        <3>2. r \notin Deploys => Unread(r, j) \/ OtherPin(r) \/ LastPinned(held[r].tx, Address[r]) # Digest[r]
            BY <1>0, <1>2, PinUnshown
        <3>3. Unread(r, j) => Behind(r)'
            BY <1>0, <2>2 DEF Unread, Behind, Own
        <3>4. /\ Maintained(Address[r]) => Maintained(Address[r])'
              /\ OtherPin(r) => OtherPin(r)'
            BY <1>0, <2>2 DEF Maintained, OtherPin, Own
        <3> QED BY <2>2, <3>1, <3>2, <3>3, <3>4 DEF Quiet
    <2>5. OwnTx(r)'
        BY <2>3 DEF OwnTx, Early
    <2>6. /\ held[r].secret \in Contents \cup {None} /\ held[r].key \in Contents \cup {None}
          /\ held[r].seen \in 0..indexed
        BY DEF RInv, Form
    <2> QED BY <1>0, <2>1, <2>2, <2>3, <2>4, <2>5, <2>6, RunStep
<1>3. CASE shown
    <2>1. /\ held' = [held EXCEPT ![r].read = j,
                                  ![r].count = IF r \in Deploys THEN None ELSE Current(r, j).count]
          /\ Save(r, "verified") /\ pc' = [pc EXCEPT ![r] = "verified"]
        BY <1>3, <1>1 DEF Goto
    <2>2. /\ \A q \in Runs : q # r => held'[q] = held[q]
          /\ held'[r].tx = held[r].tx /\ held'[r].key = held[r].key /\ held'[r].secret = held[r].secret
          /\ held'[r].segment = held[r].segment
          /\ held'[r].before = held[r].before /\ held'[r].seen = held[r].seen
          /\ held'[r].read = j
          /\ held'[r].count = IF r \in Deploys THEN None ELSE Current(r, j).count
        BY <1>0, <2>1 DEF Shape
    <2>3. /\ pc'[r] = "verified" /\ pc'[r] \in Launched /\ pc[r] \in {"idle"} \cup Busy
          /\ \A q \in Runs : q # r => pc'[q] = pc[q]
        BY <1>0, <2>1 DEF Shape, Launched, Ended, Busy
    <2>4. Told(r)'
        <3>1. CASE r \in Deploys
            <4>1. Told(r)
                BY <1>0, <3>1, DeployReads
            <4> QED BY <1>0, <2>2, <3>1, <4>1 DEF Told, Own, DeployTold, BuiltState
        <3>2. CASE r \notin Deploys /\ held[r].before = None
            <4>1. PICK n \in 1..indexed : n \in DOMAIN chain /\ Own(r, n) /\ chain[n].status = "SUCCESS"
                BY <1>0, Included
            <4>2. PinTold(r, n)'
                BY <2>2, <3>2 DEF PinTold
            <4>3. Own(r, n)' /\ chain'[n].status = "SUCCESS" /\ n \in DOMAIN chain'
                BY <1>0, <2>2, <4>1 DEF Own
            <4> QED BY <3>2, <4>2, <4>3 DEF Told
        <3>3. CASE r \notin Deploys /\ held[r].before # None
            <4>1. PICK n \in DOMAIN chain :
                    /\ Own(r, n) /\ chain[n].status = "SUCCESS"
                    /\ Current(r, j).count = held[r].before + 1
                    /\ IF j < n THEN OtherPin(r)
                       ELSE /\ chain[n].after[Address[r]].digest = Digest[r]
                            /\ chain[n].after[Address[r]].count = held[r].before + 1
                BY <1>0, <1>3, <3>3, PinShownIsOwn
            <4>2. PinTold(r, n)'
                <5>1. OtherPin(r) => OtherPin(r)'
                    BY <1>0, <2>2 DEF OtherPin, Own
                <5> QED BY <1>0, <2>2, <3>3, <4>1, <5>1 DEF PinTold
            <4>3. Own(r, n)' /\ chain'[n].status = "SUCCESS" /\ n \in DOMAIN chain'
                BY <1>0, <2>2, <4>1 DEF Own
            <4> QED BY <3>3, <4>2, <4>3 DEF Told
        <3> QED BY <3>1, <3>2, <3>3
    <2>5. OwnTx(r)'
        BY <2>3 DEF OwnTx, Early
    <2>6. \A p \in Paths : disk'[p] = disk[p] \/ (disk'[p].run = r /\ disk'[p].stage = "verified")
        BY <1>0, <2>1, SavedIs
    <2>7. \A p \in Paths : \/ disk'[p] = disk[p]
                           \/ /\ disk'[p].run = r /\ disk'[p].stage \in Stages
                              /\ disk'[p].stage = "verified" => pc'[r] = "verified" /\ Told(r)'
        BY <2>3, <2>4, <2>6 DEF Stages
    <2>8. /\ held[r].secret \in Contents \cup {None} /\ held[r].key \in Contents \cup {None}
          /\ held[r].seen \in 0..indexed /\ held[r].read \in 0..indexed
        BY DEF RInv, Form
    <2> QED BY <1>0, <2>2, <2>3, <2>5, <2>7, <2>8, RunStep
<1> QED BY <1>2, <1>3

\* Every step keeps the invariant.
LEMMA NextRInv == RInv /\ IInv /\ [Next]_vars => RInv'
<1> SUFFICES ASSUME RInv, IInv, [Next]_vars PROVE RInv'
    OBVIOUS
<1>0. Shape
    BY DEF IInv
<1>1. CASE Land
    BY <1>1, LandKeeps
<1>2. CASE Maintain
    BY <1>2, MaintainKeeps
<1>3. CASE Index
    BY <1>3, IndexKeeps
<1>4. ASSUME NEW r \in Runs, Step(r) PROVE RInv'
    <2>0. SecretFile[r] \in Files /\ KeyFile[r] \in Files
        BY DeploymentAssumption
    <2>1. CASE \/ Start(r) \/ Stops(r) \/ GiveUp(r)
               \/ Open(r, "secret", SecretFile[r]) \/ Write(r, "secret", SecretFile[r])
               \/ Open(r, "key", KeyFile[r]) \/ Write(r, "key", KeyFile[r])
        BY <1>0, <2>0, <2>1, MovesKeep
    <2>2. CASE ReadSecret(r) \/ ReadKey(r) \/ Look(r)
        BY <1>0, <2>2, ReadsKeepReports
    <2>3. CASE BuildDeploy(r) \/ BuildPin(r)
        BY <2>3, BuildsKeep
    <2>4. CASE Finalize(r)
        BY <1>0, <2>4, FinalizeKeeps
    <2>5. CASE Send(r) \/ SendReturns(r) \/ Poll(r)
        BY <1>0, <2>5, SubmitsKeep
    <2>6. CASE ReadBack(r)
        BY <2>6, ReadBackKeeps
    <2> QED BY <1>4, <2>1, <2>2, <2>3, <2>4, <2>5, <2>6 DEF Step
<1>5. CASE UNCHANGED vars
    <2>1. Form' /\ TxsAreOwn' /\ PoolIsOwn' /\ ChainIsCarried'
        BY <1>5 DEF vars, RInv, Form, Exists, TxsAreOwn, OwnTx, PoolIsOwn, ChainIsCarried, HasOwn,
                    Carried,
                    IntentCheck, BuiltState
    <2>2. Once' /\ ContractsGrow' /\ ByItsRun'
        BY <1>5, ChainStays DEF vars
    <2>3. DoesAsBuilt' /\ LookedBefore'
        BY <1>5, ChainStays DEF vars, RInv, DoesAsBuilt, BuiltState, LookedBefore, Remembers, LooksFirst
    <2>4. WaitIsOver' /\ VerifiedHasEnded' /\ VerifiedIsTrue' /\ QuietVerifies'
        BY <1>5 DEF vars, RInv, WaitIsOver, Found, VerifiedHasEnded, VerifiedIsTrue, QuietVerifies,
                    DeployTold,
                    PinTold, BuiltState, Maintained, OtherPin, Behind, Own
    <2> QED BY <2>1, <2>2, <2>3, <2>4 DEF RInv
<1> QED BY <1>1, <1>2, <1>3, <1>4, <1>5 DEF Next

-----------------------------------------------------------------------------
(* The theorems *)

\* The strengthened invariant holds in every behaviour: whatever lands carries its makers'
\* transactions whole and once, contracts only grow, and a run knows where it looked.
THEOREM Reports == Spec => []RInv
<1>1. Init => RInv /\ IInv
    BY InitRInv, InitInv
<1>2. RInv /\ IInv /\ [Next]_vars => RInv' /\ IInv'
    BY NextRInv, NextInv
<1> QED BY <1>1, <1>2, PTL DEF Spec

\* The variables have their types, the indexer and a run's look are never ahead of the chain.
THEOREM DeploymentTypes == Spec => []TypeOK
<1>1. RInv /\ IInv => TypeOK
    <2> SUFFICES ASSUME RInv, IInv PROVE TypeOK
        OBVIOUS
    <2>1. ASSUME NEW n \in DOMAIN chain
          PROVE  /\ chain[n].status \in {"SUCCESS", "PARTIAL_SUCCESS", "FAILURE"}
                 /\ chain[n].after \in [Contracts -> ContractStates \cup {None}]
        <3>1. chain \in Seq(Entries) /\ n \in 1..Len(chain)
            BY LenProperties DEF RInv, Form
        <3>2. chain[n] \in Entries
            BY <3>1, ElementOfSeq
        <3> QED BY <3>2 DEF Entries, Boards
    <2> QED BY <2>1 DEF TypeOK, RInv, Form, IInv, Shape
<1> QED BY <1>1, Reports, Invariance, PTL

\* A record that says "verified" is true of the run's own transaction (runDeploy's and
\* runPin's comparison of the contract before and after), for every instance.
THEOREM VerifiedRecordsAreTrue == Spec => []VerifiedIsTrue
<1>1. RInv => VerifiedIsTrue
    BY DEF RInv
<1> QED BY <1>1, Reports, PTL

\* A run whose transaction landed with success reports otherwise only when the state it was
\* given is older than its inclusion, somebody else changed the contract, or it set another
\* digest (runDeploy's "not visible yet", runPin's comparison).
THEOREM OwnEffectIsSeen == Spec => []QuietVerifies
<1>1. RInv => QuietVerifies
    BY DEF RInv
<1> QED BY <1>1, Reports, PTL
=============================================================================
