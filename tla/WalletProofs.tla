------------------------------ MODULE WalletProofs ------------------------------
(***************************************************************************)
(* Theorems of Wallet for every instance: any number of wallets, sub-      *)
(* wallets, indices and samples, whatever the wallet library reports.      *)
(***************************************************************************)
EXTENDS Wallet, TLAPS

-----------------------------------------------------------------------------
(* The inductive invariant, in named parts *)

\* What was heard are indices of sub-wallets, and the targets are not below them.
TargetsCoverHeard ==
    /\ heard \subseteq SubWallets \X (1..MaxIndex)
    /\ \A w \in SubWallets, n \in 1..MaxIndex : <<w, n>> \in heard => n <= targets[w]

\* The samples of a wait fit its time, and a caught-up one is a complete one.
SamplesCount ==
    /\ stable <= streak /\ streak <= elapsed
    /\ wait = "waiting" => elapsed < Timeout

\* A wait and a transaction belong to an open session.
InSession ==
    /\ wait # "idle" => session # None
    /\ job # "none" => session # None /\ transacted

\* Every spend the library holds, or held in the last state seen, is one this session
\* has begun: what it restored held none.
SpendsAreOwn ==
    /\ spending => transacted
    /\ latest # None /\ latest.spending => transacted

IInv ==
    /\ TypeOK
    /\ TargetsCoverHeard
    /\ SamplesCount
    /\ InSession
    /\ SpendsAreOwn
    /\ SyncedIsComplete
    /\ CacheIsClean

-----------------------------------------------------------------------------
(* Lemmas *)

\* The larger of two numbers (targets never step back).
LEMMA HigherBound ==
    ASSUME NEW x \in Nat, NEW y \in Nat
    PROVE  Higher(x, y) \in {x, y} /\ x <= Higher(x, y) /\ y <= Higher(x, y)
BY DEF Higher

\* A wallet caught up with its targets has applied all that was heard
\* (subWalletCaughtUp compares with the highest index of the whole wait).
LEMMA CaughtUpIsComplete ==
    ASSUME TypeOK, TargetsCoverHeard, CaughtUp
    PROVE  Complete
<1>1. latest # None /\ latest.progress \in Progress
    BY DEF TypeOK, CaughtUp, States
<1>2. ASSUME NEW w \in SubWallets
      PROVE  /\ latest.progress[w].connected
             /\ \A n \in 1..MaxIndex : <<w, n>> \in heard => latest.progress[w].applied >= n
    <2> DEFINE p == latest.progress[w]
    <2>1. p.connected /\ p.applied >= Higher(p.highest, targets[w])
        BY DEF CaughtUp
    <2>2. p.applied \in Nat /\ p.highest \in Nat /\ targets[w] \in Nat
        BY <1>1, WalletAssumption DEF Progress, Positions, TypeOK
    <2>3. targets[w] <= Higher(p.highest, targets[w]) /\ Higher(p.highest, targets[w]) \in Nat
        BY <2>2, HigherBound
    <2>4. p.applied >= targets[w]
        BY <2>1, <2>2, <2>3
    <2>5. ASSUME NEW n \in 1..MaxIndex, <<w, n>> \in heard PROVE p.applied >= n
        <3>1. n <= targets[w]
            BY <2>5 DEF TargetsCoverHeard
        <3> QED BY <3>1, <2>2, <2>4, WalletAssumption
    <2> QED BY <2>1, <2>5
<1> QED BY <1>1, <1>2 DEF Complete

-----------------------------------------------------------------------------
(* The invariant is inductive *)

\* The named parts hold before a session is opened.
LEMMA InitInv == Init => IInv
<1> SUFFICES ASSUME Init PROVE IInv
    OBVIOUS
<1>1. TypeOK
    <2>1. spending \in BOOLEAN /\ transacted \in BOOLEAN
        BY Zenon DEF Init
    <2>2. targets \in [SubWallets -> 0..MaxIndex]
        BY WalletAssumption DEF Init
    <2>3. 0 \in 0..Patience /\ 0 \in 0..Timeout
        BY WalletAssumption
    <2> QED BY <2>1, <2>2, <2>3 DEF Init, TypeOK
<1>2. TargetsCoverHeard /\ SamplesCount
    BY WalletAssumption DEF Init, TargetsCoverHeard, SamplesCount
<1>3. InSession /\ SpendsAreOwn /\ SyncedIsComplete /\ CacheIsClean
    BY DEF Init, InSession, SpendsAreOwn, SyncedIsComplete, CacheIsClean
<1> QED BY <1>1, <1>2, <1>3 DEF IInv

\* Between waits, and when one begins, its variables hold nothing.
LEMMA ClearedKeeps ==
    ASSUME IInv, Cleared
    PROVE  /\ latest' \in States \cup {None} /\ targets' \in [SubWallets -> 0..MaxIndex]
           /\ stable' \in 0..Timeout /\ elapsed' \in 0..Timeout /\ streak' \in 0..Timeout
           /\ TargetsCoverHeard' /\ elapsed' < Timeout /\ stable' <= streak' /\ streak' <= elapsed'
           /\ latest' = None
BY WalletAssumption DEF Cleared, TargetsCoverHeard

\* A report keeps the targets above all that was heard (observe).
LEMMA ObserveKeeps ==
    ASSUME TypeOK, TargetsCoverHeard, Observe
    PROVE  /\ latest' \in States /\ latest'.spending = spending
           /\ targets' \in [SubWallets -> 0..MaxIndex]
           /\ TargetsCoverHeard'
<1>1. PICK progress \in Progress :
        /\ latest' = [progress |-> progress, spending |-> spending]
        /\ targets' = [w \in SubWallets |-> Target(w, progress[w])]
        /\ heard' = heard \cup {<<w, progress[w].highest>> :
                        w \in {x \in SubWallets : progress[x].connected /\ progress[x].highest > 0}}
    BY DEF Observe
<1>2. ASSUME NEW w \in SubWallets
      PROVE  /\ progress[w] \in Positions /\ progress[w].highest \in 0..MaxIndex
             /\ targets[w] \in 0..MaxIndex /\ targets'[w] \in 0..MaxIndex
             /\ targets[w] <= targets'[w]
             /\ progress[w].connected => progress[w].highest <= targets'[w]
    <2>1. /\ progress[w] \in Positions /\ progress[w].highest \in 0..MaxIndex
          /\ targets[w] \in 0..MaxIndex
        BY DEF Progress, Positions, TypeOK
    <2>2. targets'[w] = Target(w, progress[w])
        BY <1>1
    <2> QED BY <2>1, <2>2, HigherBound, WalletAssumption DEF Target
<1>3. latest' \in States /\ latest'.spending = spending
    BY <1>1 DEF States, TypeOK
<1>4. targets' \in [SubWallets -> 0..MaxIndex]
    BY <1>1, <1>2
<1>5. heard' \subseteq SubWallets \X (1..MaxIndex)
    <2>1. ASSUME NEW w \in SubWallets, progress[w].highest > 0
          PROVE  <<w, progress[w].highest>> \in SubWallets \X (1..MaxIndex)
        BY <2>1, <1>2, WalletAssumption
    <2> QED BY <1>1, <2>1 DEF TargetsCoverHeard
<1>6. ASSUME NEW w \in SubWallets, NEW n \in 1..MaxIndex, <<w, n>> \in heard'
      PROVE  n <= targets'[w]
    <2>1. CASE <<w, n>> \in heard
        <3>1. n <= targets[w]
            BY <2>1 DEF TargetsCoverHeard
        <3> QED BY <3>1, <1>2, WalletAssumption
    <2>2. CASE <<w, n>> \notin heard
        <3>1. progress[w].connected /\ n = progress[w].highest
            BY <1>1, <1>6, <2>2
        <3> QED BY <3>1, <1>2
    <2> QED BY <2>1, <2>2
<1> QED BY <1>3, <1>4, <1>5, <1>6 DEF TargetsCoverHeard

\* A step keeps every part of the invariant.
LEMMA NextInv == IInv /\ [Next]_vars => IInv'
<1> SUFFICES ASSUME IInv, [Next]_vars PROVE IInv'
    OBVIOUS
<1>inv. /\ TypeOK /\ TargetsCoverHeard /\ SamplesCount /\ InSession /\ SpendsAreOwn
        /\ SyncedIsComplete /\ CacheIsClean
    BY DEF IInv
<1>same. ASSUME UNCHANGED syncVars
         PROVE  TargetsCoverHeard' /\ SamplesCount' /\ SyncedIsComplete'
    BY <1>inv, <1>same DEF syncVars, TargetsCoverHeard, SamplesCount, SyncedIsComplete, Complete
<1>1. CASE UNCHANGED vars
    <2>1. UNCHANGED syncVars
        BY <1>1 DEF vars
    <2> QED BY <1>1, <1>inv, <1>same, <2>1 DEF vars, syncVars, IInv, TypeOK, InSession, SpendsAreOwn, CacheIsClean
<1>2. CASE Observe
    <2>1. /\ wait = "waiting"
          /\ UNCHANGED <<cache, session, spending, transacted, job, polls, wait, stable, elapsed, streak>>
        BY <1>2 DEF Observe
    <2>2. /\ latest' \in States /\ latest'.spending = spending
          /\ targets' \in [SubWallets -> 0..MaxIndex]
          /\ TargetsCoverHeard'
        BY <1>inv, <1>2, ObserveKeeps
    <2>3. TypeOK'
        BY <1>inv, <2>1, <2>2 DEF TypeOK
    <2> QED BY <1>inv, <2>1, <2>2, <2>3 DEF IInv, SamplesCount, InSession, SpendsAreOwn,
                SyncedIsComplete, CacheIsClean
<1>3. CASE Sample
    <2>1. wait = "waiting" /\ UNCHANGED <<cache, session, spending, transacted, job, polls>>
        BY <1>3 DEF Sample
    <2>2. PICK t \in (elapsed + 1)..Timeout \cup {Timeout} :
            LET good == IF CaughtUp THEN stable + 1 ELSE 0 IN
            \/ /\ good < StableSamples /\ TimedOut(t)
               /\ wait' = "failed" /\ Cleared
            \/ /\ good >= StableSamples \/ ~TimedOut(t)
               /\ wait' = IF good >= StableSamples THEN "synced" ELSE wait
               /\ elapsed' = t /\ stable' = good
               /\ streak' = IF Complete THEN streak + 1 ELSE 0
               /\ UNCHANGED <<latest, targets, heard>>
        BY <1>3 DEF Sample
    <2> DEFINE good == IF CaughtUp THEN stable + 1 ELSE 0
    <2>3. CASE wait' = "failed" /\ Cleared
        <3>1. TypeOK'
            BY <1>inv, <2>1, <2>3, ClearedKeeps DEF TypeOK
        <3> QED BY <1>inv, <2>1, <2>3, <3>1, ClearedKeeps DEF IInv, SamplesCount, InSession,
                    SpendsAreOwn, SyncedIsComplete, CacheIsClean
    <2>4. CASE /\ good >= StableSamples \/ ~TimedOut(t)
               /\ wait' = IF good >= StableSamples THEN "synced" ELSE wait
               /\ elapsed' = t /\ stable' = good
               /\ streak' = IF Complete THEN streak + 1 ELSE 0
               /\ UNCHANGED <<latest, targets, heard>>
        <3>1. /\ elapsed \in Nat /\ elapsed < Timeout /\ stable \in Nat /\ streak \in Nat
              /\ stable <= streak /\ streak <= elapsed /\ Timeout \in Nat /\ StableSamples \in Nat \ {0}
            BY <1>inv, <2>1, WalletAssumption DEF TypeOK, SamplesCount
        <3>2. t \in Nat /\ elapsed + 1 <= t /\ t <= Timeout
            BY <3>1
        <3>3. CaughtUp => Complete
            BY <1>inv, CaughtUpIsComplete
        <3>4. /\ good \in Nat /\ streak' \in Nat /\ good <= streak' /\ streak' <= t
              /\ good >= StableSamples => CaughtUp
            BY <2>4, <3>1, <3>2, <3>3
        <3>5. Complete' = Complete
            BY <2>4 DEF Complete
        <3>6. wait' \in {"waiting", "synced"} /\ (wait' = "synced" <=> good >= StableSamples)
            BY <2>1, <2>4
        <3>7. SamplesCount'
            BY <2>4, <3>1, <3>2, <3>4, <3>6 DEF SamplesCount, TimedOut
        <3>8. SyncedIsComplete'
            BY <3>1, <3>3, <3>4, <3>5, <3>6 DEF SyncedIsComplete
        <3>9. stable' \in 0..Timeout /\ elapsed' \in 0..Timeout /\ streak' \in 0..Timeout
            BY <2>4, <3>1, <3>2, <3>4
        <3>10. TypeOK'
            BY <1>inv, <2>1, <2>4, <3>6, <3>9 DEF TypeOK
        <3>11. TargetsCoverHeard'
            BY <1>inv, <2>4 DEF TargetsCoverHeard
        <3> QED BY <1>inv, <2>1, <2>4, <3>7, <3>8, <3>10, <3>11 DEF IInv, InSession, SpendsAreOwn, CacheIsClean
    <2> QED BY <2>2, <2>3, <2>4
<1>4. CASE StreamEnds
    <2>1. /\ wait = "waiting" /\ wait' = "failed" /\ Cleared
          /\ UNCHANGED <<cache, session, spending, transacted, job, polls>>
        BY <1>4 DEF StreamEnds
    <2>2. TypeOK'
        BY <1>inv, <2>1, ClearedKeeps DEF TypeOK
    <2> QED BY <1>inv, <2>1, <2>2, ClearedKeeps DEF IInv, SamplesCount, InSession,
                SpendsAreOwn, SyncedIsComplete, CacheIsClean
<1>5. CASE Open
    <2>1. PICK o \in Wallets : session' = o /\ spending' \in Restored
        BY <1>5 DEF Open
    <2>2. session = None /\ UNCHANGED <<cache, transacted, job, polls, syncVars>>
        BY <1>5 DEF Open
    <2>3. spending' = FALSE
        BY <1>inv, <2>1 DEF Restored, CacheIsClean, TypeOK
    <2>4. TypeOK'
        BY <1>inv, <2>1, <2>2, <2>3 DEF TypeOK, syncVars
    <2> QED BY <1>inv, <1>same, <2>2, <2>3, <2>4 DEF IInv, InSession, SpendsAreOwn, CacheIsClean, syncVars
<1>6. CASE Close
    <2>1. /\ session' = None /\ spending' = FALSE /\ transacted' = FALSE /\ job' = "none" /\ polls' = 0
          /\ wait' = "idle" /\ Cleared /\ UNCHANGED cache
        BY <1>6 DEF Close
    <2>2. TypeOK'
        <3>1. spending' \in BOOLEAN /\ transacted' \in BOOLEAN
            BY <2>1, Zenon
        <3>2. 0 \in 0..Patience
            BY WalletAssumption
        <3> QED BY <1>inv, <2>1, <3>1, <3>2, ClearedKeeps DEF TypeOK
    <2> QED BY <1>inv, <2>1, <2>2, ClearedKeeps DEF IInv, SamplesCount, InSession,
                SpendsAreOwn, SyncedIsComplete, CacheIsClean
<1>7. CASE CallSynced
    <2>1. /\ session # None /\ wait' = "waiting" /\ Cleared
          /\ UNCHANGED <<cache, session, spending, transacted, job, polls>>
        BY <1>7 DEF CallSynced, Waiting
    <2>2. TypeOK'
        BY <1>inv, <2>1, ClearedKeeps DEF TypeOK
    <2> QED BY <1>inv, <2>1, <2>2, ClearedKeeps DEF IInv, SamplesCount, InSession,
                SpendsAreOwn, SyncedIsComplete, CacheIsClean
<1>8. CASE Return
    <2>1. /\ wait = "synced" /\ wait' = "returned" /\ Cleared
          /\ UNCHANGED <<session, spending, transacted, job, polls>>
          /\ (MaySave(session) /\ cache' = Envelope) \/ UNCHANGED cache
        BY <1>8 DEF Return
    <2>2. Complete /\ latest # None /\ latest \in States
        BY <1>inv, <2>1 DEF SyncedIsComplete, Complete, TypeOK
    <2>3. ASSUME MaySave(session), cache' = Envelope
          PROVE  cache' \in [owner : Wallets, spending : BOOLEAN, sound : BOOLEAN]
                 /\ cache'.sound /\ ~cache'.spending
        <3>1. session \in Wallets
            BY <1>inv, <2>1 DEF InSession, TypeOK
        <3>2. ~latest.spending
            BY <1>inv, <2>2, <2>3 DEF MaySave, SpendsAreOwn
        <3>3. cache' = [owner |-> session, spending |-> FALSE, sound |-> TRUE]
            BY <2>2, <2>3, <3>2 DEF Envelope, States
        <3> QED BY <3>1, <3>3
    <2>4. CacheIsClean' /\ cache' \in [owner : Wallets, spending : BOOLEAN, sound : BOOLEAN] \cup {None}
        BY <1>inv, <2>1, <2>3 DEF CacheIsClean, TypeOK
    <2>5. TypeOK'
        BY <1>inv, <2>1, <2>4, ClearedKeeps DEF TypeOK
    <2> QED BY <1>inv, <2>1, <2>4, <2>5, ClearedKeeps DEF IInv, SamplesCount, InSession,
                SpendsAreOwn, SyncedIsComplete
<1>9. CASE Confirm
    BY <1>9, <1>inv, <1>same DEF Confirm, syncVars, IInv, TypeOK, InSession, SpendsAreOwn, CacheIsClean
<1>10. CASE BalanceTx
    BY <1>10, <1>inv, <1>same, WalletAssumption DEF BalanceTx, syncVars, IInv, TypeOK, InSession, SpendsAreOwn, CacheIsClean
<1>11. CASE Insufficient
    <2>1. polls' \in 0..Patience
        BY <1>11, <1>inv, WalletAssumption DEF Insufficient, OutOfPatience, TypeOK
    <2> QED BY <1>11, <1>inv, <1>same, <2>1 DEF Insufficient, syncVars, IInv, TypeOK, InSession, SpendsAreOwn, CacheIsClean
<1>12. CASE Balances
    BY <1>12, <1>inv, <1>same DEF Balances, syncVars, IInv, TypeOK, InSession, SpendsAreOwn, CacheIsClean
<1>13. CASE Register
    BY <1>13, <1>inv, <1>same, WalletAssumption DEF Register, syncVars, IInv, TypeOK, InSession, SpendsAreOwn, CacheIsClean
<1>14. CASE Submits
    BY <1>14, <1>inv, <1>same DEF Submits, syncVars, IInv, TypeOK, InSession, SpendsAreOwn, CacheIsClean
<1>15. CASE JobThrows
    BY <1>15, <1>inv, <1>same DEF JobThrows, syncVars, IInv, TypeOK, InSession, SpendsAreOwn, CacheIsClean
<1>16. CASE Resync
    <2>1. /\ job = "submitted" /\ job' = "observing" /\ wait' = "waiting" /\ Cleared
          /\ UNCHANGED <<cache, session, spending, transacted, polls>>
        BY <1>16 DEF Resync, Waiting
    <2>2. TypeOK'
        BY <1>inv, <2>1, ClearedKeeps DEF TypeOK
    <2> QED BY <1>inv, <2>1, <2>2, ClearedKeeps DEF IInv, SamplesCount, InSession,
                SpendsAreOwn, SyncedIsComplete, CacheIsClean
<1>17. CASE Observed
    BY <1>17, <1>inv, <1>same DEF Observed, syncVars, IInv, TypeOK, InSession, SpendsAreOwn, CacheIsClean
<1>18. CASE NotObserved
    <2>1. polls' \in 0..Patience
        BY <1>18, <1>inv, WalletAssumption DEF NotObserved, OutOfPatience, TypeOK
    <2> QED BY <1>18, <1>inv, <1>same, <2>1 DEF NotObserved, syncVars, IInv, TypeOK, InSession, SpendsAreOwn, CacheIsClean
<1> QED BY <1>1, <1>2, <1>3, <1>4, <1>5, <1>6, <1>7, <1>8, <1>9, <1>10, <1>11, <1>12, <1>13, <1>14,
           <1>15, <1>16, <1>17, <1>18 DEF Next

-----------------------------------------------------------------------------
(* Theorems *)

\* The invariant holds of every behaviour.
THEOREM Invariance == Spec => []IInv
BY InitInv, NextInv, PTL DEF Spec

\* Every variable keeps its type, and no wait exceeds its bounds, whatever the library
\* reports and whenever the timers fire.
THEOREM TypeCorrect == Spec => []TypeOK
<1>1. IInv => TypeOK
    BY DEF IInv
<1> QED BY <1>1, Invariance, PTL

\* For any number of sub-wallets, however their reports step back: a sync that resolves
\* is complete by everything heard since it began (waitForCompleteSync).
THEOREM SyncComplete == Spec => []SyncedIsComplete
<1>1. IInv => SyncedIsComplete
    BY DEF IInv
<1> QED BY <1>1, Invariance, PTL

\* A cache on disk is a complete sync and holds no unconfirmed spend (#saveCache).
THEOREM CacheClean == Spec => []CacheIsClean
<1>1. IInv => CacheIsClean
    BY DEF IInv
<1> QED BY <1>1, Invariance, PTL

\* No session replaces the cache of another wallet (assertIdentity in saveWalletCache).
THEOREM CacheKeepsOwner == Spec => OwnersKept
<1>1. [Next]_vars => [cache # None => cache'.owner = cache.owner]_cache
    <2> SUFFICES ASSUME Next, cache' # cache, cache # None PROVE cache'.owner = cache.owner
        BY DEF vars
    <2>1. Return
        BY DEF Next, Observe, Sample, StreamEnds, Open, Close, CallSynced, Confirm, BalanceTx,
            Insufficient, Balances, Register, Submits, JobThrows, Resync, Observed, NotObserved
    <2>2. MaySave(session) /\ cache' = Envelope
        BY <2>1 DEF Return
    <2> QED BY <2>2 DEF MaySave, Foreign, Envelope
<1> QED BY <1>1, PTL DEF Spec, OwnersKept
=============================================================================
