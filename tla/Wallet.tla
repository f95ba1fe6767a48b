--------------------------------- MODULE Wallet ---------------------------------
(***************************************************************************)
(* The fee wallet of the deploy tools: sessions one after another over one *)
(* cache file (deploy-tools/wallet.ts and wallet-cache.ts), each waiting   *)
(* for complete syncs of its sub-wallets (wallet-sync.ts), balancing       *)
(* transactions and registering for DUST.                                  *)
(*                                                                         *)
(* The wallet library reports what it likes: positions that step back,     *)
(* connections that come and go.  Of its state the model keeps what the    *)
(* sync reads and whether a spend of it is unconfirmed (spending), which a *)
(* snapshot would carry into the next session.                             *)
(***************************************************************************)
EXTENDS Naturals

CONSTANTS
    Wallets,        \* wallets (mnemonic and network) given the one cache file
    SubWallets,     \* SUB_WALLETS
    MaxIndex,       \* bound on indices
    StableSamples,  \* stableSamples (3)
    Timeout,        \* timeoutMs, in samples
    Patience,       \* feeWaitMs and waitMs, in polls
    None

ASSUME WalletAssumption ==
    /\ StableSamples \in Nat \ {0} /\ Timeout \in Nat \ {0}
    /\ Patience \in Nat /\ MaxIndex \in Nat

VARIABLES
    cache,      \* the cache file, or None
    session,    \* the open session's wallet, or None
    spending,   \* the library holds an unconfirmed spend
    transacted, \* #transacted
    job,        \* the transaction in work: none, budget, generating, submitted or
                \* observing
    polls,      \* how often that one has waited
    wait,       \* idle, waiting, synced, returned or failed: the last synced() call
    latest,     \* its last state observed, or None
    targets,    \* the highest indices it has heard of
    stable,     \* consecutive caught-up samples
    elapsed,    \* time since it began, in samples
    heard,      \* history: <<sub-wallet, index>> of the connected reports of this wait
    streak      \* history: consecutive samples complete by all that was heard

syncVars == <<wait, latest, targets, stable, elapsed, heard, streak>>
vars == <<cache, session, spending, transacted, job, polls, syncVars>>

\* What a sub-wallet reports; nobody reads what one that is not connected has applied.
Positions == {p \in [applied : 0..MaxIndex, highest : 0..MaxIndex, connected : BOOLEAN] :
                p.connected \/ p.applied = 0}
Progress == [SubWallets -> Positions]
States == [progress : Progress, spending : BOOLEAN]

Higher(x, y) == IF x > y THEN x ELSE y

-----------------------------------------------------------------------------
(* waitForCompleteSync *)

\* subWalletCaughtUp, for each sub-wallet.
CaughtUp ==
    latest # None /\ \A w \in SubWallets :
        /\ latest.progress[w].connected
        /\ latest.progress[w].applied >= Higher(latest.progress[w].highest, targets[w])

\* By all that was heard since the wait began.
Complete ==
    latest # None /\ \A w \in SubWallets :
        latest.progress[w].connected
        /\ \A n \in 1..MaxIndex : <<w, n>> \in heard => latest.progress[w].applied >= n

\* A wait's own variables start anew with each wait; between two they hold nothing.
Cleared ==
    /\ latest' = None /\ targets' = [w \in SubWallets |-> 0]
    /\ stable' = 0 /\ elapsed' = 0 /\ heard' = {} /\ streak' = 0

Waiting == wait' = "waiting" /\ Cleared

\* Mutant of Target: the last report counts, even when it steps back.
MutantTarget(w, p) == IF p.connected THEN p.highest ELSE targets[w]

\* The highest index heard of, from connected reports only.
Target(w, p) == IF p.connected THEN Higher(targets[w], p.highest) ELSE targets[w]

\* The state stream emits.
Observe ==
    /\ wait = "waiting"
    /\ \E progress \in Progress :
        /\ latest' = [progress |-> progress, spending |-> spending]
        /\ targets' = [w \in SubWallets |-> Target(w, progress[w])]
        /\ heard' = heard \cup {<<w, progress[w].highest>> :
                                w \in {x \in SubWallets : progress[x].connected /\ progress[x].highest > 0}}
    /\ UNCHANGED <<cache, session, spending, transacted, job, polls, wait, stable, elapsed, streak>>

\* Mutant of TimedOut: a wait that has heard nothing goes on.
MutantTimedOut(t) == t >= Timeout /\ latest # None

TimedOut(t) == t >= Timeout

\* The timer fires, on time or late: enough good samples in a row end the wait, then
\* the clock does.
Sample ==
    /\ wait = "waiting"
    /\ \E t \in (elapsed + 1)..Timeout \cup {Timeout} :
        LET good == IF CaughtUp THEN stable + 1 ELSE 0 IN
        \/ /\ good < StableSamples /\ TimedOut(t)
           /\ wait' = "failed" /\ Cleared
        \/ /\ good >= StableSamples \/ ~TimedOut(t)
           /\ wait' = IF good >= StableSamples THEN "synced" ELSE wait
           /\ elapsed' = t /\ stable' = good
           /\ streak' = IF Complete THEN streak + 1 ELSE 0
           /\ UNCHANGED <<latest, targets, heard>>
    /\ UNCHANGED <<cache, session, spending, transacted, job, polls>>

\* The state stream fails or ends.
StreamEnds ==
    /\ wait = "waiting"
    /\ wait' = "failed" /\ Cleared
    /\ UNCHANGED <<cache, session, spending, transacted, job, polls>>

-----------------------------------------------------------------------------
(* Sessions *)

\* Mutant of Foreign: the cache's owner is not looked at.
MutantForeign(o) == FALSE

\* assertIdentity on the cache file there is.
Foreign(o) == cache # None /\ cache.owner # o

\* What loadWalletCache leaves of the library's state: nothing, when the cache is absent
\* or stale (another version, incomplete) or the library cannot restore the snapshot.
Restored == {FALSE} \cup (IF cache # None THEN {cache.spending} ELSE {})

\* WalletSession.open; a foreign cache makes it throw.
Open ==
    /\ session = None
    /\ \E o \in Wallets :
        /\ ~Foreign(o)
        /\ session' = o
        /\ spending' \in Restored
    /\ UNCHANGED <<cache, transacted, job, polls, syncVars>>

\* close, or the process dies.
Close ==
    /\ session # None
    /\ session' = None
    /\ spending' = FALSE /\ transacted' = FALSE /\ job' = "none" /\ polls' = 0
    /\ wait' = "idle" /\ Cleared
    /\ UNCHANGED cache

\* synced() is called; its calls do not overlap.
CallSynced ==
    /\ session # None /\ wait \in {"idle", "returned", "failed"} /\ job \notin {"submitted", "observing"}
    /\ Waiting
    /\ UNCHANGED <<cache, session, spending, transacted, job, polls>>

\* Mutant of MaySave: a session that spends saves too.
MutantMaySave(o) == ~Foreign(o)

\* Whether #saveCache may replace the file.
MaySave(o) == ~transacted /\ ~Foreign(o)

\* saveWalletCache's envelope around the sampled state, and whether that was complete.
Envelope == [owner |-> session, spending |-> latest.spending, sound |-> Complete]

\* The rest of synced(): the cache is saved, unless no file was named, the position is
\* the one saved last, or the write fails.
Return ==
    /\ wait = "synced"
    /\ wait' = "returned" /\ Cleared
    /\ \/ MaySave(session) /\ cache' = Envelope
       \/ UNCHANGED cache
    /\ UNCHANGED <<session, spending, transacted, job, polls>>

\* The library sees its spend on chain.
Confirm ==
    /\ spending
    /\ spending' = FALSE
    /\ UNCHANGED <<cache, session, transacted, job, polls, syncVars>>

-----------------------------------------------------------------------------
(* Transactions *)

\* balanceTx is called.
BalanceTx ==
    /\ session # None /\ job = "none"
    /\ transacted' = TRUE /\ job' = "budget" /\ polls' = 0
    /\ UNCHANGED <<cache, session, spending, syncVars>>

\* Mutant of OutOfPatience: it waits once more.
MutantOutOfPatience == polls > Patience

OutOfPatience == polls >= Patience

\* #waitForFeeBudget: not enough DUST; it sleeps or throws.
Insufficient ==
    /\ job = "budget"
    /\ IF OutOfPatience THEN job' = "none" /\ UNCHANGED polls ELSE polls' = polls + 1 /\ UNCHANGED job
    /\ UNCHANGED <<cache, session, spending, transacted, syncVars>>

\* Enough DUST: the library balances and the wallet signs.
Balances ==
    /\ job = "budget"
    /\ spending' = TRUE /\ job' = "none"
    /\ UNCHANGED <<cache, session, transacted, polls, syncVars>>

\* registerForDust, once its sync has returned: there is something to register.
Register ==
    /\ session # None /\ job = "none" /\ wait = "returned"
    /\ transacted' = TRUE /\ job' = "generating" /\ polls' = 0
    /\ UNCHANGED <<cache, session, spending, syncVars>>

\* The registration's fee has been generated; it is made and submitted.
Submits ==
    /\ job = "generating"
    /\ spending' = TRUE /\ job' = "submitted"
    /\ UNCHANGED <<cache, session, transacted, polls, syncVars>>

\* Any step of a transaction throws, possibly after the library took the coins.
JobThrows ==
    /\ job \in {"budget", "generating"}
    /\ job' = "none" /\ spending' \in {spending, TRUE}
    /\ UNCHANGED <<cache, session, transacted, polls, syncVars>>

\* After a pause the registration loop syncs again.
Resync ==
    /\ job = "submitted" /\ wait \in {"idle", "returned", "failed"}
    /\ job' = "observing"
    /\ Waiting
    /\ UNCHANGED <<cache, session, spending, transacted, polls>>

\* The registration shows, or its sync has thrown, or it was not seen in time.
Observed ==
    /\ job = "observing"
    /\ wait \in {"returned", "failed"}
    /\ job' = "none"
    /\ UNCHANGED <<cache, session, spending, transacted, polls, syncVars>>

\* It does not show yet, and there is time left.
NotObserved ==
    /\ job = "observing" /\ wait = "returned"
    /\ ~OutOfPatience
    /\ job' = "submitted" /\ polls' = polls + 1
    /\ UNCHANGED <<cache, session, spending, transacted, syncVars>>

Init ==
    /\ cache = None /\ session = None /\ spending = FALSE
    /\ transacted = FALSE /\ job = "none" /\ polls = 0
    /\ wait = "idle" /\ latest = None /\ targets = [w \in SubWallets |-> 0]
    /\ stable = 0 /\ elapsed = 0 /\ heard = {} /\ streak = 0

Next ==
    \/ Observe \/ Sample \/ StreamEnds
    \/ Open \/ Close \/ CallSynced \/ Return \/ Confirm
    \/ BalanceTx \/ Insufficient \/ Balances \/ Register \/ Submits \/ JobThrows
    \/ Resync \/ Observed \/ NotObserved

Spec == Init /\ [][Next]_vars

\* Timers fire and promises settle; nothing makes the indexer answer, DUST appear or a
\* spend land.
FairSpec ==
    /\ Spec
    /\ WF_vars(Sample) /\ WF_vars(Return)
    /\ WF_vars(Insufficient \/ Balances \/ JobThrows \/ Submits)
    /\ WF_vars(Resync \/ Observed \/ NotObserved)

-----------------------------------------------------------------------------
(* Properties *)

\* Type correctness, with the bounds on waiting.
TypeOK ==
    /\ cache \in [owner : Wallets, spending : BOOLEAN, sound : BOOLEAN] \cup {None}
    /\ session \in Wallets \cup {None}
    /\ spending \in BOOLEAN /\ transacted \in BOOLEAN
    /\ job \in {"none", "budget", "generating", "submitted", "observing"}
    /\ polls \in 0..Patience
    /\ wait \in {"idle", "waiting", "synced", "returned", "failed"}
    /\ latest \in States \cup {None}
    /\ targets \in [SubWallets -> 0..MaxIndex]
    /\ stable \in 0..Timeout /\ elapsed \in 0..Timeout /\ streak \in 0..Timeout

\* A sync that resolves is complete: at each of its last StableSamples samples, and in
\* the state returned, every sub-wallet was connected and had applied every index any
\* report since the wait began had named (waitForCompleteSync).
SyncedIsComplete == wait = "synced" => Complete /\ streak >= StableSamples

\* What the next session restores is a complete sync, and no spend that its session had
\* begun, which may never land (#transacted, #saveCache).
CacheIsClean == cache # None => cache.sound /\ ~cache.spending

\* A wallet's cache is never replaced by another wallet's (wallet-cache.ts: "a cache of
\* another wallet or network is refused (it is never overwritten)").
OwnersKept == [][cache # None => cache'.owner = cache.owner]_cache

\* Every synced(), balanceTx() and registerForDust() call ends, though the indexer may
\* never answer, DUST never suffice and the registration never land.
CallsEnd ==
    /\ wait = "waiting" ~> wait # "waiting"
    /\ job # "none" ~> job = "none"
=============================================================================
