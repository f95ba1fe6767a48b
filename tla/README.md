# Verification of multi-part events on Midnight

TLA+ models of this repository: a publisher that puts a message of several parts
into one transaction, one contract call per part; the reader that puts the parts
together again from an indexer's events or from raw transactions; and the commands
around the two. TLC checks the models on small instances; TLAPS proves, for every value
of the constants, every safety invariant and action property that a passing run checks.
What is left to TLC alone is liveness.

`PROJECT.json` lists the components, the runs, the mutants, the source lines behind
each definition, the findings, the hazards and the theorems. Paths below are relative
to the repository.

- [The system](#the-system)
- [Modules](#modules)
- [Runs](#runs)
- [Findings](#findings)
- [Proofs](#proofs)
- [What is not modelled](#what-is-not-modelled)
- [Plan](#plan)

## The system

A *package* is a sequence of parts. Each part is the payload of one `Misc` event that
one circuit call emits; all calls of a package sit in one intent (one *segment*) of
one transaction, in the guaranteed section. The ledger applies a guaranteed section
whole or not at all, so a reader that groups events by network, contract, name,
transaction and segment gets each package whole and in order. That is the promise in
the repository's README: a package "lands whole, in order, or not at all". The code
keeps it among parties it does not trust: a state source, a prover, a balancing
wallet, a disk, an indexer, and strangers who may merge transactions of theirs into
one that circulates.

| Component | State | Operations | Talks to |
|---|---|---|---|
| guard (`src/publisher/guard.ts`) | none | `assertPackageIntent`, `assertTransactionPackages` | called by assembly, finalization and submission |
| assembly (`src/publisher/compose.ts`, `parts.ts`, `binding.ts`) | pinned block, a state per contract, the growing transaction | preflight, pin, read states, run the circuit per part, check the trace, draw a segment, check the result | state source (await per contract), contract code |
| finalization (`src/publisher/finalize.ts`) | the transaction, the frozen transcripts, the record | prove, check, cost, balance, check, cost, serialize, check; `submitRecord`, `locateRecord` | prover, balancer, submitter |
| reader (`src/reader/packages.ts`) | groups, by key | `readPackages` | any source of events |
| reader of raw transactions (`src/reader/transaction.ts`) | none | `contractActivity`, `partEventsFromTransaction`, `partEventsFromLedgerEvents`, `checkPlacement`, `verifyTransactionPackages` | ledger library |
| event values (`src/reader/event.ts`, `bytes.ts`) | none | restore and split a value, decode it | ledger library |
| indexer client (`src/indexer/index.ts`) | paging offset, collected events | `query` with retries, `miscEvents`, `partEventsFromIndexer`, `contractState`, `waitForTransaction` | indexer over HTTP |
| verify (`src/cli/verify.ts`, `verifier-key.ts`) | fetched transactions, facts per transaction, checks per package | `indexerSource`, `savedSource`, `verifyPackages`, `verifyExitStatus` | indexer, optionally a node |
| publish command (`deploy-tools/commands.ts` `runPublish`) | the record file and its stage | path check, build, save, submit, save, wait, save, verify, save | all of the above |
| deploy and pin commands (`commands.ts` `runDeploy`, `runPin`, `call.ts`, `deploy.ts`, `generic.ts`) | a record file; pin: a counter read before and after | open or create secrets, build, check, save, submit, save, wait, save, read back, save | disk, wallet, indexer, submitter |
| secrets and keys (`deploy-tools/secrets.ts`) | protected files, shared by runs | create exclusively, write, read back, check | disk |
| funding command (`commands.ts` `runFunding`) | none | sync, register for DUST, print | wallet |
| prover adapter (`deploy-tools/prover.ts`) | requests in flight, queue of waiting ones, attempts | limiter, `withRetry`, `proveTx` | proof server |
| wallet sync (`deploy-tools/wallet-sync.ts`) | targets per sub-wallet, consecutive good samples, timer | observe, sample, finish | wallet's state stream |
| wallet session and cache (`wallet.ts`, `wallet-cache.ts`) | cache file, whether something was transacted | open, synced, balance, register for DUST, wait for the fee budget, close | wallet library, disk |
| configuration, command lines (`main.ts`, `options.ts`, `config.ts`), generated modules (`contracts.ts`, `zk-config.ts`) | none | parse, load, wire | disk |
| contracts (`contract-examples/`) | authority, verifier keys, a notice board's counter | `emit`, `rotate`, `pin` | the ledger |

What is hard here, and the properties it calls for:

- **Assembly and finalization** await four providers. State may change between two
  awaits; what comes back may not be what went out. Correct when the submitted
  transaction publishes exactly what was asked, computed from one moment of the chain,
  within the block limits, whatever the providers answer, and is still the one that was
  checked after its record has been on disk.
- **Publication on a live chain**: processes crash between saving, submitting and
  waiting; several runs share a path; a transaction may be dropped, land late, be
  merged with others, or fail in a fallible part; the indexer lags. Correct when
  readers see each publication whole or not at all and at most once, whatever
  circulates is on record, a "verified" record is true, a run that stops waiting is
  right to stop, and every run ends.
- **Deploying and pinning**: a deployment exists only in its transaction and its
  record, and a contract obeys only keys that are in two files on one disk. Runs share
  those files and the paths, crash between creating a file and filling it, deploy in a
  phase that may fail, and read back a contract that others change. Correct when
  whatever was sent stays reachable and controllable, and "verified" is about the run's
  own transaction.
- **Reading**: deliveries come again, out of order, altered or not at all. Correct when
  the result depends on what was delivered only, nothing redelivered repairs a
  rejection, and a package whose placement holds is what the ledger emitted.
- **Verify** reads pages and bytes at different moments of a growing chain from a
  server that may lie. Correct when each level means what it says: 2, the ledger
  emitted exactly this; 3, the committed circuit did it; and when nothing can be hidden
  from an exit status 0. Both need bytes that a hash or a node ties to the chain.
- **The prover adapter** shares slots among requests that fail and retry. Correct when
  the limit holds, no slot stays idle while a request waits, and every request ends.
- **The wallet** synchronises three sub-wallets whose reports step back, caches their
  state between processes, and waits for DUST. Correct when a sync that returns is
  complete, a cache holds nothing but a complete sync of its own wallet with no spend
  in it, and every call ends.

## Modules

| Module | Models | Notes |
|---|---|---|
| `Transactions` | transactions, intents, calls, transcripts and logs; the guard; the ledger's phases; merge; records and `locateRecord` | operators only |
| `Publisher` | `buildPackagesTransaction`, `finalizeTransactionPackages`, `submitRecord` | extends `Transactions`; one publication against hostile providers |
| `PublisherProofs` | theorems about `Publisher` | TLAPS |
| `Packages` | events, `readPackages`, the events of a raw transaction, `checkPlacement`, what the ledger emits and in which order | operators only; extends `Transactions` |
| `PackagesProofs` | what the operators of `Packages` compute, for sequences of any length | TLAPS; lemmas only |
| `PackageReader` | a source that delivers events and a reader that reads | extends `Packages` |
| `PackageReaderProofs` | theorems about `PackageReader` | TLAPS |
| `AtomicPublication` | the promise to readers, with no transactions in it | abstract specification |
| `Publication` | runs of `runPublish`, network, ledger, indexer with its query retries, strangers | extends `Packages`; implements `AtomicPublication` |
| `PublicationProofs` | theorems about `Publication`, the refinement among them | TLAPS |
| `Deployment` | runs of `runDeploy` and `runPin`, their files, ledger, indexer, maintenance, strangers | extends `Transactions` |
| `DeploymentProofs` | theorems about `Deployment`: its files; what its runs report | TLAPS |
| `Verifier` | one `verifyPackages` over a growing, lying indexer | extends `Packages` |
| `VerifierProofs` | theorems about `Verifier` | TLAPS |
| `Prover` | limiter and retries, job by job of the event loop | on its own |
| `ProverProofs` | theorems about `Prover` | TLAPS |
| `Wallet` | `waitForCompleteSync`; `WalletSession`: open, synced, save, balance, register, close; the cache file | on its own |
| `WalletProofs` | theorems about `Wallet` | TLAPS |
| `MC*` | small instances | constants only |

**Data.** A part is a model value: `splitPayload` only cuts bytes. A logged value is its
name, its part and whether it is longer than a part may be; a log that is not `Misc`, one
whose value does not decode (what precedes it is read), and one that is not of the shape
of a log at all (nothing of its transcript is read) are records of other kinds. An intent
is its sequence of actions, whether it carries an unshielded offer and whether it spends
DUST. A call knows the state its transcript was computed from (`reads`), which is what the
ledger's replay depends on. `Ascending`, `Kept` and `Joined` are the sort, the filter and
the concatenation the readers are written with: explicit functions, which can be reasoned
about for sequences of any length. The hash of an intent stands for its contents, so
`IntentHash` is the intent; a transaction hash stands for its bytes.

**Publisher.** `stage` is the await or step boundary that `buildPackagesTransaction` and
`finalizeTransactionPackages` are at: `Begin` (preflight), `PinBlock`, `ReadState` (one
per contract, in any order, the chain moving between two), `Assemble` (a package:
executions, trace check, segment draw, and `assertPackageIntent`), then the final check
and freezing of transcripts, `StartProving`, `Proven` (guard on the answer, cost),
`Balanced` (guard, cost, serialization, guard on the reread bytes, the record), `Submit`.
`Refused` is any provider that throws and any answer that fails a check; `AssemblyFails`
and `SubmitRefused` are guarded by the conditions of the code's throws. Providers answer
with anything in `Answers(t)`: one intent replaced by a stray one, dropped, added or
moved, an offer attached, any proof and binding form. `AlterRecord` alters one field of
the saved record, or removes one of its package entries. `finalize.ts:243` says that
`submitRecord` throws "if the saved bytes or the record were altered". It does where that
would change what is sent, or what the record says of a package. Network, TTL and block
(`context`) are not compared with anything, and a record that has lost a package entry
still passes with the others: `SubmittedAsFinalized` says what remains true.

**PackageReader.** `Deliver` hands over an event of the transaction, a repetition, an
altered one, or noise from other networks, contracts and names; `Read` applies
`readPackages` to what has come so far, `Verify` applies `verifyTransactionPackages` to
the raw transaction.

**Publication.** `pc[r]` is where run `r` of `runPublish` is; `disk` is the record file at
each path with the stage last saved. What assembly and finalization return is any draft
the guard passes: `Publisher` shows the guard to be what they ensure. `Land` includes a
circulating transaction, alone or merged with a stranger's or with another run's, with any
subset of its fallible segments succeeding, if its guaranteed calls replay against the
current state and none of its intents has landed. If they do not replay, `Fail` may put it
on the chain as `FAILURE`, without any effect; the repository's README says that the
ledger includes no such transaction, but the indexer's client and
`verifyTransactionPackages` provide for one. `found` is what the indexer reports: bytes,
their status, and a hash, which may be another (`Reported`). Bytes and status are the
chain's, as the code has no other source for them. `Reads` is `verifyTransactionPackages`
on the included bytes, which compares that hash (`HashFits`) and looks at the status;
included bytes are bound, so they have a hash of their own. Others may have merged more of
the contract's events into them than the reader takes (`TooMuch`): it throws, and the run
ends as `failed` with its record at `included` (`EndRun`).

The wait of a run counts from the process's own clock (`LocalTime`), which is ahead of
the chain's by `Ahead`, less than the grace: the code adds 60 s to the TTL for exactly
this. A query of the indexer client may fail and be tried again up to `MaxAttempts`
times (`QueryFails`), or be refused for good (`QueryRefused`); `NotYet` is a poll that
finds nothing and sleeps. `Poll`, `Locate` and `VerifyIncluded` are what follows a
poll that finds something: `locateRecord`, and the packages of the included bytes.

`FoundIsLocated` says that a run whose transaction is found locates it, and that a run
ends unverified only if the indexer reported a status that is no inclusion or another
hash (`IllReported`). It has an exception the code makes: the guard refuses a package
segment with a fallible Zswap offer (`guard.ts:137`), also when it is a stranger who
merged the offer in. Such a publication is on the chain, but its run reports that it
was not located; `README.md:46` speaks of merged intents, which never hide it. The model's
stranger carries such an offer, and the property names it (`Offered`).

**Deployment.** `pc[r]` is where run `r` of `runDeploy` or `runPin` is. `Open` creates a
protected file exclusively, `Write` fills and rereads it or leaves it torn, `ReadSecret`
and `ReadKey` take what a file holds. `BuildDeploy` saves the address before
anything is sent; `Look` reads the board before `BuildPin` builds the call.
`Finalize` is `finalizeTransaction` of `generic.ts` with the caller's intent check on
whatever prover and balancer return (`Answers`), `Send` and `SendReturns` are
`submitSavedTransaction`, `Poll` and `GiveUp` the wait, `ReadBack` the last look at the
contract. `Stops` is a throw or a crash at any of these. A contract is its authority,
its maintenance committee, its keys, its counter and its digest, as of each block; `Land`
applies a circulating transaction, merged or not, as `SUCCESS`, `PARTIAL_SUCCESS` or
`FAILURE`, with a deployment in the fallible phase; `Maintain` is whoever holds the
committee's key. `maker` in an intent stands for its randomness: prover and balancer may
return other intents for a run's transaction, but not intents of another run's randomness
(`MakersAssumption`), and only a run's own deployment hashes to its address. How long a run
waits is left to `Publication`, which has the clock. The wait and the query for a contract's
state are two requests, so the state may be as of any block indexed so far, an older one
than that of the inclusion among them (`held[r].read`, `Behind`): no contract, which
`runDeploy` calls "not visible yet", or a board without the run's pin. `VerifiedIsTrue`
names the one case in which such an old state shows what the run expects: a state from
before its own pin, with the counter moved by one and its digest set, is that of somebody
else's pin (`OtherPin`). `QuietVerifies` gives an old state as one of three reasons not to see
one's own effect.

**Verifier.** `Start`, `NextPage`, `ReadEvents`, `ReadRaw` and `Finish` are the awaits of
`verifyPackages`; `Grow` adds a block between any two. The indexer may, up to `MaxLies`
times, drop an event, serve one that does not decode, disagrees with its typed fields, has
another part or is another event filed under the hash asked for, and serve other bytes,
garbage or nothing for a transaction. It may also make bytes up (`Forged`), as long as
these have no hash of their own: unproven, unbound or erased transactions, which
`deserializeTransaction` takes and `FactChecks` passes under the reported hash
(`verify.ts:492-498`). The repository's README (line 63) says of Level 2 that "the bytes
hash to it"; for such bytes the check does not fail, and only `--node` ties them to the
chain. The properties of Level 2 say so (`Unbacked`). It is trusted, as the code trusts
it, for inclusion statuses, blocks and contract states. There is one transaction per block
and its hash is its height. Level 3 reads the states of blocks already there, which never
change, so its queries are one step.

**Prover.** A turn of the event loop settles some promises; the jobs they cause run in
order, and a job may add others. `Run`, `Resume`, `Release` and `Settle` are the code
between two awaits in `limiter` and `withRetry`. Backoff delays are left to the
scheduler: a backoff lasts any time.

**Wallet.** `Open` to `Close` is one `WalletSession`; sessions follow one another, as
the code demands of sessions of one mnemonic. A wait's variables (`latest`, `targets`,
`stable`, `elapsed`) are those of `waitForCompleteSync`; `Observe` is any state the
library may emit, `Sample` the timer. `Return` is what `synced()` does in a later job:
other calls may come in between. Of the library's state the model keeps the positions
the sync reads and whether a spend is unconfirmed (`spending`). Not saving a position
already saved (`#savedProgress`) is one of the ways a save may not happen.

## Runs

Passing runs explore all reachable states of their instance.

| Run | Question | Properties |
|---|---|---|
| `publisher` | What reaches the network when prover, balancer, executions and disk misbehave? | `TypeOK`, `SubmissionPublishesRequests`, `PinnedReads`, `SubmittedAsFinalized`, `SubmissionFits` |
| `reader` | What is read from deliveries that are late, altered, repeated or missing? | `TypeOK`, `OrderFree`, `RejectedForGood`, `PlacedIsWhole`, `VerdictIsLedger` |
| `publication` | Do readers see each publication whole and once, with two runs, crashes, drops, merges, state changes? | `TypeOK`, `ImplementsPromise`, `VerifiedIsPublished`, `FoundIsLocated`, `RecordedFirst`, `GiveUpIsFinal` |
| `publication_rerun` | Is the record of an ended run safe from a later one, and does every run end, with queries that fail and are retried? | `NeverOverwritten`, `RunsEnd` |
| `publication_overlap` | And if the two overlap? (violated, see below) | `RecordedFirst` |
| `publication_unseen` | Is the message of a run that gives up true? (violated) | `UnseenNotIncluded` |
| `deployment` | Does anything that was sent lose its address, secret or key, and is what deploy and pin report about their own transaction? | `TypeOK`, `KeysKept`, `VerifiedIsTrue`, `QuietVerifies` |
| `verify` | What do levels and the exit status mean against an indexer that lies twice? | `TypeOK`, `LevelTwoIsLedger`, `NothingHidden`, `LevelThreeIsCode`, `PagesComplete`, `HonestVerifies` |
| `verify_filed` | Does Level 1 hold back a package with a reported problem? (violated) | `LevelOneClean` |
| `prover` | Can a request be left waiting, be tried too often, or never end? | `TypeOK`, `NoIdleSlot`, `AllEnd` |
| `prover_limit` | Is the limit on requests in flight kept? (violated) | `InFlightLimit` |
| `wallet` | Is a sync complete, a cache clean, and does every call end? | `TypeOK`, `SyncedIsComplete`, `CacheIsClean`, `OwnersKept`, `CallsEnd` |

Deadlock is not checked: every one of these systems stops, a publication when
submitted or failed, a chain at its horizon, a call at its report.

Every property has a mutant, a plausible bug put into one mapped definition, which the
same run must refute: the guard that does not look at the fallible transcript, the state
read at the latest block, the balancer's cost unchecked, the record saved after the
submission, the wait without the TTL, the secret file opened without exclusion, the
counters not compared, the level without checks that counts as passed, the last page that
is full, the failed request that wakes nobody.

**Bounds, and why they are enough.**

- `publisher`: requests of none, one and two packages of one to three parts (three is
  one more than `MaxParts`); two contracts of which one request list uses both, so the
  states of two contracts are read around a chain step (`MaxBlocks = 2`); three
  segments and two draws, so a draw may hit a taken segment and the retry may too;
  one stray intent for each way an answer can spoil a package, and one honest payment
  (a DUST spend in a segment of its own); `BlockLimit = 4`, which one package with its
  payment fits and the largest answers exceed.
- `reader`: seven transactions (repeated payload, two segments, another contract in the
  same intent, a part emitted in the fallible phase by the same call, a fallible log of
  another entry point, a log whose value does not decode, one that is misshaped), four
  deliveries: enough to lose, repeat, reorder and alter around a package of two, and to
  reach the limits of three events and one group.
- `publication`: one transaction with two packages and one with one, so that partial
  appearance and merging of two publications both show; two contract states, so that a
  draft can be stale when it lands; each run also has a draft that emits again in the
  fallible phase, for the guard to refuse. The stranger has a fallible call in a segment
  of its own and an offer at one of the first run's. Time has a TTL of one tick, a
  grace period of two and a horizon of three; the reader takes four events
  (`MaxEvents`), which the two publications merged fit and with the stranger's call
  exceed; one run's clock is one tick ahead, the
  most that is less than the grace. A run may start late or with its clock ahead and
  still see its deadline pass, and a transaction may land before, at and never after its
  TTL. A query is tried once, in `publication_rerun` twice: a failure that is retried
  and one that is the last.
- `deployment`: runs come in four teams of two (`MCTeams`), the pairs that share
  something: two deploys given the same new files; a deploy and one that reuses its
  files and its path; two pins of different digests on one board; a deploy and a pin on
  what it deploys. Three transactions on the chain (`MaxChain`): both runs' and one
  maintenance update (`MaxMaintained = 1`). Prover and balancer may spoil a
  transaction, from another digest to the call made twice or moved to another segment.
- `verify`: pages of two and a limit of four, so there are full last pages, short ones,
  and too many events; two lies, the least that can combine a wrong event with matching
  wrong bytes; three transactions landing in six ways (also failed, partly successful,
  with a fallible emission), and one made up without a hash, which has a package of the
  committed circuit but lacks an intent of the one it stands for; five requests, which
  cover the three levels, with and without a hash, a segment and a node.
- `prover`: three requests, one slot, two attempts, at most two promises settled per
  turn (`MaxPerTurn`): a queue of two, and a retry that queues behind another request.
  The limit run has two slots and four requests, so that a request can be woken while
  another arrives.
- `wallet`: two wallets at one cache file; two sub-wallets, so that one can be behind or
  cut off while the other is not; indices up to one, enough for a report to step back;
  two samples to be stable and three until the timeout, so that a good sample can be
  followed by a bad one, a bad one by two good ones, and a late one by the timeout; one
  poll of patience.

**Fairness.** Safety is checked without any. `RunsEnd` assumes that a live process
takes its next step (weak fairness of the disjunction of a run's steps: the runtime
schedules it, and each await of the code ends by an answer or an exception), that time
passes, and that the indexer eventually shows what has landed. A failing query ends by
its bounded attempts, not by fairness. Nothing is assumed
about inclusion in a block, crashes or an indexer that fails. `AllEnd` assumes that
queued jobs run, which the event loop ensures, and that each request is eventually
made, answered and woken from its backoff: requests carry a timeout
(`requestTimeoutMs`) and backoffs are timers. It is strong fairness per request because a turn
settles what has happened in any grouping, between which no single request is
continuously eligible; and it says nothing of waiting for a slot, which is what the
limiter must get right. `CallsEnd` assumes that timers fire and that what the code
calls settles: nothing makes the indexer report, DUST suffice or a registration land.

## Findings

1. **A problem with an event is filed under the served transaction hash.**
   `indexerSource` (`src/cli/verify.ts:222-240`) attaches the issues of
   `partEventsFromIndexer` to the hash the indexer reports, while the package carries
   the hash inside the event's own bytes. When these differ, which is itself one of the
   issues, the package passes Level 1. `src/indexer/index.ts:440-441` asks not to accept
   the packages of that contract and transaction. Level 2 does not depend on it
   (`LevelTwoIsLedger` holds). Run `verify_filed`.
2. **Two overlapping runs at one record path.** `assertNewRecord` looks when the run
   starts, the record is written minutes later, and `writeRecord` replaces. The record
   of a transaction already submitted can be lost. Run `publication_overlap`; when the
   runs do not overlap, `publication_rerun` shows the record to be safe.
3. **"It was not included".** A run that stops waiting says so; an indexer that lags
   by more than the grace period makes it untrue. What does hold is `GiveUpIsFinal`:
   the publication has landed by then or never will. Run `publication_unseen`.
4. **One more request in flight than `maxConcurrent`.** The limiter gives a slot back
   and wakes a waiting request, which counts itself only in a later job. A request that
   enters in a job between the two takes the slot as well. It takes one turn that
   both settles an answer and lets another request be made: an endpoint that settles
   several promises at once, a caller that awaits the same answer, or the injected
   `sleep` of the policy; with `MaxPerTurn = 1` the limit holds. Run `prover_limit`.

Two more texts say more than the code does; the properties state what the code does.
`finalize.ts:243` has `submitRecord` throw if "the record" was altered, and not every field
of it is compared (`SubmittedAsFinalized`, see Publisher above). The repository's
`README.md:63` has Level 2 check that "the bytes hash to it", and bytes without a hash pass
(`LevelTwoIsLedger`, `NothingHidden`, see Verifier above).

## Proofs

Eight proof modules: one per component, and one of lemmas about the operators of
`Packages`. Each of the seven names its inductive invariant as a conjunction of named
parts, proves that it holds in every behaviour (`Invariance`, `Reports`) with one lemma or
step per action, and gets the properties from it. A theorem holds for every value of
the constants that satisfies the module's `ASSUME`: types, positive limits, and what a
comment beside it ties to the code. TLC evaluates the assumptions in every run. Two of
them speak of values TLA+ leaves open: `None` is no segment and no hash, and, in
`VerifierAssumption`, no event.

| Module | Theorems, and the property each states for every instance |
|---|---|
| `PublisherProofs` | `TypeCorrect`: `TypeOK`; `SubmissionPublishes`: `SubmissionPublishesRequests`; `ReadsPinned`: `PinnedReads`; `SubmittedIsFinalized`: `SubmittedAsFinalized`; `SubmittedFits`: `SubmissionFits` |
| `PublicationProofs` | `TypeCorrect`: `TypeOK`; `RecordsComeFirst`: `RecordedFirst`; `RecordsStayTheirs`: `NeverOverwritten`; `GivingUpIsFinal`: `GiveUpIsFinal`; `VerifiedRecordsAreTrue`: `VerifiedIsPublished`; `OnlyOffersHidePackages` and `FoundIsVerified`: `FoundIsLocated`; `PublishingIsAtomic`: `ImplementsPromise` |
| `PackageReaderProofs` | `TypeCorrect`: `TypeOK`; `ReadsAreOrderFree`: `OrderFree`; `RejectedStays`: `RejectedForGood`; `PlacedPackagesWhole`: `PlacedIsWhole`; `VerdictsAreLedger`: `VerdictIsLedger` |
| `DeploymentProofs` | `KeysAreKept`: `KeysKept`; `DeploymentTypes`: `TypeOK`; `VerifiedRecordsAreTrue`: `VerifiedIsTrue`; `OwnEffectIsSeen`: `QuietVerifies` |
| `VerifierProofs` | `TypeCorrect`: `TypeOK`; `LevelTwoPlaced`: `LevelTwoIsPlaced`; `LevelTwoLedger`: `LevelTwoIsLedger`; `LevelThreeCode`: `LevelThreeIsCode`; `NothingIsHidden`: `NothingHidden`; `PagesAreComplete`: `PagesComplete`; `HonestSourceVerifies`: `HonestVerifies` |
| `ProverProofs` | `TypeCorrect`: `TypeOK`; `SlotsAreUsed`: `NoIdleSlot` |
| `WalletProofs` | `TypeCorrect`: `TypeOK`; `SyncComplete`: `SyncedIsComplete`; `CacheClean`: `CacheIsClean`; `CacheKeepsOwner`: `OwnersKept` |

**Publisher.** None of its properties is inductive. That a submitted transaction
publishes what was asked follows from the guard having passed on exactly these bytes
*and* the packages it was passed having been assembled from the requests; both facts
are old by then. `IInv` adds to the type invariant: states read are those of the pinned
block (`SnapshotsPinned`, `BlockBeforePackages`); nothing is there before its stage
(`NothingEarly`) and all requested contracts have been read once assembly starts
(`AllRead`); package *i* is request *i* at a segment of its own
(`PackagesFollowRequests`); from the check after assembly on, the transaction carries
all packages with the frozen transcripts (`CheckedCarries`); the calls of the packages
read the pinned states (`TxPinned`); and the record is what the transaction says, or
is that with one alteration (`RecordFollowsTx`), and what was submitted passed
`submitRecord`'s comparisons.

The argument rests on four lemmas. `CarriesPublishes`: a transaction that passes
`assertTransactionPackages` publishes the requests, i.e. the guard is strong enough.
`FrozenAgree`: two transactions that pass with the same frozen transcripts have the same
guaranteed transcripts, so a provider cannot exchange one for another computed elsewhere.
`EntryDetermined` and `StillFinal`: bytes determine what a record may say of a package, so
whatever alteration passes `submitRecord`'s comparisons leaves the bytes and every
remaining entry as finalization made them. `IntentOfType` and the other type lemmas:
assembly builds intents.

**Publication.** Two hypotheses stand where the code relies on its surroundings, and the
theorems that need one state it. `OwnPaths`: if runs may overlap, each has a record path
of its own (finding 2 is what happens otherwise). `DraftsApart`: drafts of two runs, or of
a run and a stranger, share no intent, since each intent is bound with its own randomness.
`MCPublication`'s instances satisfy both, but for the one of finding 2. `IInv` says of a
run that it has a record from finalization on (`MadeOnce`), saved under its own name
(`MadeIsSaved`, `PathOwned`); of what circulates that some run made it (`PoolIsMade`); of
the chain that what has landed of a draft's intents is all its run made (`ChainIsWhole`),
which makes merges harmless; of a wait that its deadline lies past the TTL by more than
the clock may be ahead (`WaitsPastTTL`); and of what a run found with a status that is an
inclusion that it took effect (`FoundIsLanded`). Merging is handled by `CirculatingForms`
and `BothParts`: what circulates consists of whole submitted transactions and strangers',
whose identifiers are the union of theirs.

`PublishingIsAtomic` is the refinement proof. The abstract board is the packages read
from the runs that have landed (`BoardIsLanded`); a step changes it only by `Land`
(`ChainStays`), and then by all packages of some runs that had published nothing
(`LandsTogether`, `StepKeepsPromise`): a transaction that passed the guard has no
fallible emission under the name, so its packages do not depend on which of its
fallible segments succeed.

`OnlyOffersHidePackages` says that a merge can hide a package from `locateRecord` by an
offer at its segment only. `FoundIsVerified` adds that what is located verifies if the
indexer reported an inclusion and the bytes' own hash: the
invariant `LocatedPasses` keeps, from `Locate` to the end of the run, that the guard passed
on the bytes found, and `GuardedIsVerified` (`PackagesProofs`) that the reader then returns
each package with its parts, whatever else is in the transaction, unless it throws
(`TooMuch`). The guard looks at calls and transcripts, the reader at a list of logged
values that it sorts, groups and filters; this lemma says that the two agree.

**What the readers compute.** `PackagesProofs` treats `readPackages`, `contractActivity`
and `checkPlacement` as operators, for events and transactions of any size. Induction over
numbers is a lemma about sets of numbers (`NumbersFill`, from the library's well-founded
minimum), as an operator parameter cannot be instantiated. `AscendingRises` and
`RisingIsAscending` characterise the sort, `KeptAt` and `KeptConcat` the filter,
`JoinedSteps` the concatenation. A *gathering* is a filter followed by a projection;
`GatherConcat`, `GatherJoined`, `GatherKept` and `GatherMapped` say how it commutes with
the three. With them, both `Emissions` (what the ledger emits) and `PartEvents` (what the
raw bytes list) are gatherings of one list of items (`EmissionGather`, `RawGather`), in
two different orders: the ledger's is by phase and then by segment, the reader's by
segment and then by phase. Three results follow. `PlacedIsEmitted`: where placement holds,
the parts are exactly what the ledger emitted, as the fallible half is empty
(`PlacedRaw`). `EmittedIsListed`: whatever the ledger emitted from a readable intent is in
the raw list. `RawReadIs`: reading a raw transaction gives one package per intent that
logs the name, accepted, in order.

`LoopHolds` is the invariant of `readPackages`' loop: the groups after `n` events are the
keys of the opted-in ones among them, each with its events in delivery order
(`TurnKeeps`, one case per branch). `ReadIs` and `PackagesAre` state the result for
any input, `LongerRead` compares two reads of which one saw more, and `CleanPackage` reads
the ledger's own events back.

**Reader.** `IInv` says that what was emitted is what the ledger makes of the transaction
(`Ledger`), and what was last read is what `readPackages` makes of the deliveries seen then
(`LastRead`, `LastVerdict`). `OrderFree` compares that with the *set* of deliveries:
`ErrorMeans` and `PackageMeans` translate groups of a sequence into sets of events, where a
conflict is a pair of events of one identity (`ConflictIsClash`).

**Deployment.** `KeysKept` is about a file at the time of any later state, so it needs
that nobody replaces a file: a run writes only to the file it has created
(`FilesOwned`), what it has read is still there (`KeysInFiles`), it has read both before
it builds (`KeysRead`), and what it built makes what it read and is on record
(`BuiltIsKept`, `PathOwned`). The step for `Finalize` is where `deployIntentCheck` is
needed: whatever prover and balancer return still deploys that state at that address.

`VerifiedIsTrue` and `QuietVerifies` compare states of one contract at three moments: when
the run looked, when its transaction landed, and when it is read back. `RInv` (which holds
beside `IInv`) therefore says how a contract may differ between any two blocks
(`ContractsGrow`): it is never unmade, its counter never steps back, its digest changes
with the counter only, the counter with pins only, its keys and committee with maintenance
only. It says of the chain that an entry with an intent of a run has all of that run's
intents unchanged (`ChainIsCarried`), that a run has at most one such entry (`Once`), and
that this entry, landed with success, made the contract as built or moved counter and
digest (`DoesAsBuilt`); and of a run that what it remembers is what the board had at an
earlier block (`LookedBefore`). A counter that has moved by one since then has room for
one pin, and the run's own entry has one (`PinShownIsOwn`), unless the state is older than
that entry: then the one pin is another's (`EarlierPin`). In a state that is not older, a
counter that has not moved by one, or another digest, means a second pin or an altered one
(`PinUnshown`). The lemmas `PinsCount` and `LastPinnedIs` count the pins of a transaction
of any size; `GrownKeeps` is the one place where the chain grows, for `Land` and
`Maintain` alike, and `RunStep` the one where a run moves.

**Verifier.** `FactsHold` says that the facts kept per transaction, collected before
the report, are about Level 2, and if all good then about an included transaction and
bytes that pass for its hash: its own, or, when no node was asked, bytes without a hash
(`Passes`); `ReportLast` that levels
are given at the end only. `LevelReached`: a level is reached by checks that all pass
at it and at each one below, and by at least one. The chain may grow
between the facts and the report; what was there does not change.

The theorems about the ledger need more. `LedgerInv` says of the contract's event log that, for
every intent of the chain, it holds what that intent emitted (`LogIsLedger`), by ascending ids
(`LogShape`); `Grow` extends both, and `PlacedIsEmitted` turns the placement of
`LevelTwoPlaced` into `LevelTwoLedger`. `CallInv` follows the call: its counters are
within bounds (`Counted`), its items are of the shape the indexer serves (`ItemsShape`), a
transaction asked for is on the chain (`AskedFor`), facts are what `FactOf` says of bytes that
the reader took (`FactsAre`), and a report is the one of these facts and items, although the
chain has grown since (`Reported`). `NothingIsHidden` follows with `EmittedIsListed` and
`RawReadIs`: each readable intent that emitted is an entry of the raw bytes, and an exit
status 0 means that these were the transaction's own or taken on the indexer's word
(`Unbacked`). Its condition on readable
transcripts is the code's: `verifyPackages` leaves aside the issues of
`partEventsFromTransaction`, and what follows an item that does not decode is not listed.

Two invariants hold as long as the indexer has not lied. `PagedInv`: the items are the
first ones of the filtered log (`Prefix`), and once the paging ends nothing that was there
when it began is missing (`Complete`): a short page is the end of a log that may only have
grown since. `FetchedInv`: bytes fetched are the transaction's own. `HonestLevels` puts
them together with `CleanPackage`: events and bytes then tell the same package, and every
check passes.

**Prover.** `NoIdleSlot` needs two counting sets. `Holders` are the requests in flight
or about to release; the limiter's `active` is their number (`Counted`). `Claims` adds
those that were woken and have not counted themselves yet; while anybody waits, there
are as many as slots (`Full`). That `Claims` may exceed the holders is finding 4. A
request has one job (`OneJob`) and waits once (`WaitsOnce`), so each job moves one request
from one set to another.

**Wallet.** A sync is complete by what was *heard*, not by the last report:
`TargetsCoverHeard` keeps the targets above all of it. `SamplesCount` bounds the
samples, `InSession` ties waits to sessions, and `SpendsAreOwn` says that what a
library restored holds no spend of an earlier session, which is what makes a saved cache
clean.

**Only model-checked.** Liveness under fairness, which the prover does not treat:
`RunsEnd` of `Publication`, `AllEnd` of `Prover`, `CallsEnd` of `Wallet`. Every other property
of a passing run is the statement of a theorem. The runs that end in a violation check
statements that are not true of the code (see the findings); `RecordedFirst` is proved for
runs with paths of their own and violated for those without.

## What is not modelled

- Decoding and encoding of bytes: cells, serialized transactions and events. A value
  that does not decode is a kind of value. Restoring the zeros an indexer trims
  (`event.ts`) is a pure conversion that no property here depends on.
- Cryptography: proofs, keys, signatures. A hash or a commitment stands for what it is
  the hash of.
- Two wallet sessions at the same time: two processes of different wallets may both find
  no cache at a path and one then replaces the other's (`wallet-cache.ts:229`).
- The offline source of verify (`savedSource`): it reads what was saved before, with no
  step between two reads; the levels it feeds are those of `Verifier`.
- The funding command: what it waits for is in `Wallet` (`Open`, `Register`); the rest is
  printing.
- What `proveTx` checks of its arguments, the streaming iterator and the node helpers of the
  indexer client, key derivation, file modes and symbolic links: they hold no state that
  two steps share.
- Command line parsing, configuration, loading of generated modules and proving keys
  (`contracts.ts`, `zk-config.ts`): input.
- The notice board demo in `contract-examples/`: a driver of the library's operations.

## Plan

1. Done: `Transactions`, `Publisher`, `Packages`, `PackageReader`, `AtomicPublication`,
   `Publication`, `Verifier`, `Prover`, `Wallet`.
2. Done: query retries and clocks that differ in `Publication`; `Deployment`.
3. Done: proofs of every safety property of the passing runs, and of the refinement.
4. Left: wallets in two processes; event values as an operator with its round trip checked;
   the offline source.
