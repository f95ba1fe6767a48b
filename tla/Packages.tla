------------------------------- MODULE Packages -------------------------------
(***************************************************************************)
(* The reader of the multi-part rule as operators: packages from delivered *)
(* events (src/src/reader/packages.ts), what a raw transaction logs and    *)
(* the placement check against it (src/src/reader/transaction.ts).         *)
(***************************************************************************)
EXTENDS Transactions, Integers

CONSTANTS
    Networks,   \* networks a source may belong to
    Hashes,     \* transaction hashes
    MaxEvents,  \* DEFAULT_READER_LIMITS.maxEvents (4096)
    MaxGroups   \* DEFAULT_READER_LIMITS.maxPackages (1024)

ASSUME LimitsAssumption == MaxEvents \in Nat \ {0} /\ MaxGroups \in Nat \ {0}

\* An event value as a source delivers it.  long: more than 288 bytes, of which
\* the first 32 still decide the name; trimmed zeros are restored before anything
\* else looks at a value, so a value is its name and payload.
Values == [name : Names, part : Parts, long : BOOLEAN]

Value(n, p) == [name |-> n, part |-> p, long |-> FALSE]

\* PartEvent.
Event(net, c, h, s, pos, v) ==
    [network |-> net, contract |-> c, hash |-> h, segment |-> s, position |-> pos, value |-> v]

Events == [network : Networks, contract : Contracts, hash : Hashes,
           segment : Nat, position : Int, value : Values]

-----------------------------------------------------------------------------
(* Sorting, filtering, joining *)

\* A finite set of integers in ascending order.
Ascending(S) ==
    [n \in 1..Cardinality(S) |-> CHOOSE x \in S : Cardinality({y \in S : y <= x}) = n]

\* The elements of s at the indices in I, in order.
Kept(s, I) == LET order == Ascending(I) IN [n \in DOMAIN order |-> s[order[n]]]

\* The sequences of ss, one after another.
Joined(ss) ==
    LET upTo[i \in 0..Len(ss)] == IF i = 0 THEN <<>> ELSE upTo[i - 1] \o ss[i]
    IN upTo[Len(ss)]

-----------------------------------------------------------------------------
(* What the ledger emits *)

\* The items one transcript logs, with where they come from.
Items(t, s, k, which) ==
    LET transcript == t.intents[s].actions[k][which] IN
    IF t.intents[s].actions[k].kind # "call" \/ transcript = None THEN <<>>
    ELSE [j \in DOMAIN transcript.logs |->
            [segment |-> s, contract |-> t.intents[s].actions[k].contract, item |-> transcript.logs[j]]]

\* Everything the guaranteed (or fallible) transcripts of the segments emit.
Phase(t, segments, which) ==
    Joined([s \in Segments |->
        IF s \in segments
        THEN Joined([k \in DOMAIN t.intents[s].actions |-> Items(t, s, k, which)])
        ELSE <<>>])

\* LedgerState.apply: the guaranteed phase of every intent, then the fallible phase of
\* the segments that succeed; an event's position is where it stands in the result,
\* counted from the given one.
Emissions(t, succeeded, net, h, from) ==
    LET all == Phase(t, DOMAIN t.intents, "guaranteed") \o Phase(t, succeeded, "fallible")
        event(j) == Event(net, all[j].contract, h, all[j].segment, from + j,
                          Value(all[j].item.name, all[j].item.part))
        order == Ascending({j \in DOMAIN all : all[j].item.kind = "misc"})
    IN [n \in DOMAIN order |-> event(order[n])]

-----------------------------------------------------------------------------
(* readPackages *)

\* ReadOptions; network None reads every network.
Options == [optIns : SUBSET (Contracts \X Names), network : Networks \cup {None},
            maxEvents : Nat \ {0}, maxGroups : Nat \ {0}]

\* Mutant of SourceOK: the segment is not looked at.
MutantSourceOK(e) == e.position >= 0

\* checkEvent; segment 0 stands for every segment outside 1..65535.
SourceOK(e) == e.segment \in Segments /\ e.position >= 0

\* The event is one of an opted-in (contract, name) pair of the asked network.
OptedIn(e, options) ==
    /\ <<e.contract, e.value.name>> \in options.optIns
    /\ options.network \in {None, e.network}

\* The fields of groupKey.
GroupKey(e) ==
    [network |-> e.network, contract |-> e.contract, name |-> e.value.name,
     hash |-> e.hash, segment |-> e.segment]

\* The loop's state: deliveries per group in delivery order, and what it ignored.
NoGroups == [groups |-> [k \in {} |-> <<>>], ignored |-> 0, error |-> FALSE]

\* One turn of the loop over the events; a throw ends it.
TakeEvent(acc, e, options) ==
    LET key == GroupKey(e) IN
    CASE acc.error -> acc
      [] ~acc.error /\ ~SourceOK(e) -> [acc EXCEPT !.error = TRUE]
      [] ~acc.error /\ SourceOK(e) /\ ~OptedIn(e, options) -> [acc EXCEPT !.ignored = @ + 1]
      [] ~acc.error /\ SourceOK(e) /\ OptedIn(e, options) ->
            IF key \in DOMAIN acc.groups
            THEN [acc EXCEPT !.groups[key] = Append(@, e)]
            ELSE IF Cardinality(DOMAIN acc.groups) >= options.maxGroups
            THEN [acc EXCEPT !.error = TRUE]
            ELSE [acc EXCEPT !.groups = [k \in DOMAIN acc.groups \cup {key} |->
                                            IF k = key THEN <<e>> ELSE acc.groups[k]]]

\* The well-formed delivery evaluate keeps for a position: the first.
FirstAt(ds, pos) ==
    ds[CHOOSE i \in DOMAIN ds : /\ ds[i].position = pos /\ ~ds[i].value.long
                                /\ \A j \in DOMAIN ds : ds[j].position = pos /\ ~ds[j].value.long => i <= j]

\* Mutant of InOrder: positions in the order they were delivered.
MutantInOrder(ds) ==
    LET firsts == Kept(ds, {i \in DOMAIN ds : /\ ~ds[i].value.long
                                             /\ \A j \in 1..(i - 1) :
                                                    ds[j].value.long \/ ds[j].position # ds[i].position})
    IN [n \in DOMAIN firsts |-> firsts[n].position]

\* The positions of the well-formed deliveries, ascending.
InOrder(ds) ==
    Ascending({ds[i].position : i \in {j \in DOMAIN ds : ~ds[j].value.long}})

\* Mutant of Conflicting: the last delivery of a position settles its issues.
MutantConflicting(ds) ==
    \E i \in DOMAIN ds :
        /\ \A j \in DOMAIN ds : j > i => ds[j].position # ds[i].position
        /\ ds[i].value.long \/ ds[i].value # FirstAt(ds, ds[i].position).value

\* evaluate found an issue: a malformed value, or one identity with two contents.
Conflicting(ds) ==
    \E i \in DOMAIN ds :
        \/ ds[i].value.long
        \/ ds[i].value # FirstAt(ds, ds[i].position).value

\* evaluate: one group's package.
Evaluate(ds) ==
    LET order == InOrder(ds) IN
    [positions  |-> order,
     parts      |-> [k \in DOMAIN order |-> FirstAt(ds, order[k]).value.part],
     status     |-> IF Conflicting(ds) THEN "rejected" ELSE "accepted",
     deliveries |-> Len(ds)]

\* The loop over the events: its state after the first i of them.
Loop(events, options) ==
    LET after[i \in 0..Len(events)] ==
            IF i = 0 THEN NoGroups ELSE TakeEvent(after[i - 1], events[i], options)
    IN after

\* readPackages: the package of every group, how many events it ignored, or error
\* TRUE for the RangeError it throws.
ReadPackages(events, options) ==
    LET end == Loop(events, options)[Len(events)]
    IN IF Len(events) > options.maxEvents \/ end.error
       THEN [error |-> TRUE, packages |-> [k \in {} |-> <<>>], ignored |-> 0]
       ELSE [error |-> FALSE, ignored |-> end.ignored,
             packages |-> [k \in DOMAIN end.groups |-> Evaluate(end.groups[k])]]

-----------------------------------------------------------------------------
(* A raw transaction *)

\* The Misc values that are read: those before the first that cannot be decoded, and none
\* when any item is misshaped, which loggedEvents finds before it returns.
Legible(logs) ==
    {j \in DOMAIN logs :
        /\ logs[j].kind = "misc"
        /\ \A i \in 1..j : logs[i].kind # "garbled"
        /\ \A i \in DOMAIN logs : logs[i].kind # "misshaped"}

\* What is read of one transcript.
Readable(transcript) ==
    IF transcript = None THEN <<>> ELSE Kept(transcript.logs, Legible(transcript.logs))

\* The Misc values one transcript of action k logs, as contractActivity lists them.
PartsOf(tx, s, k, which) ==
    LET logs == Readable(tx.intents[s].actions[k][which]) IN
    [j \in DOMAIN logs |-> [action |-> k, entry |-> tx.intents[s].actions[k].entry,
                            transcript |-> which, name |-> logs[j].name, part |-> logs[j].part]]

\* Mutant of CallsTo: calls of every contract.
MutantCallsTo(tx, s, c) ==
    {k \in DOMAIN tx.intents[s].actions : tx.intents[s].actions[k].kind = "call"}

\* The intent's calls to the contract.
CallsTo(tx, s, c) ==
    {k \in DOMAIN tx.intents[s].actions :
        tx.intents[s].actions[k].kind = "call" /\ tx.intents[s].actions[k].contract = c}

\* contractActivity's parts of one intent, in ledger emission order: the guaranteed
\* transcripts' values in call order, then the fallible ones'.
Activity(tx, s, c) ==
    LET of(which) == Joined([k \in DOMAIN tx.intents[s].actions |->
                        IF k \in CallsTo(tx, s, c) THEN PartsOf(tx, s, k, which) ELSE <<>>])
    IN of("guaranteed") \o of("fallible")

\* Where an intent's activity has the target's name.
Named(tx, target, s) ==
    {j \in DOMAIN Activity(tx, s, target.contract) : Activity(tx, s, target.contract)[j].name = target.name}

\* The payloads an intent logs under the target's name, in emission order.
RawParts(tx, target, s) ==
    LET named == Kept(Activity(tx, s, target.contract), Named(tx, target, s))
    IN [j \in DOMAIN named |-> named[j].part]

\* contractActivity reported an unreadable transcript in the intent.
Unreadable(tx, s, c) ==
    \E k \in CallsTo(tx, s, c), which \in {"guaranteed", "fallible"} :
        /\ tx.intents[s].actions[k][which] # None
        /\ \E j \in DOMAIN tx.intents[s].actions[k][which].logs :
            tx.intents[s].actions[k][which].logs[j].kind \in {"garbled", "misshaped"}

\* partEventsFromTransaction: reader input from the raw transaction.
PartEvents(tx, net, c, h) ==
    Joined([s \in Segments |->
        IF s \notin DOMAIN tx.intents THEN <<>>
        ELSE LET parts == Activity(tx, s, c) IN
             [j \in DOMAIN parts |-> Event(net, c, h, s, j - 1, Value(parts[j].name, parts[j].part))]])

\* Mutant of PlacementOK: a fallible transcript of the emitting circuit is not an issue.
MutantPlacementOK(tx, target, s, parts) ==
    /\ s \in DOMAIN tx.intents
    /\ ~Unreadable(tx, s, target.contract)
    /\ LET acts == Activity(tx, s, target.contract)
           named == Named(tx, target, s)
           expected == Kept(acts, {j \in named : /\ acts[j].entry = target.entry
                                                 /\ acts[j].transcript = "guaranteed"})
       IN /\ \A j \in named : acts[j].entry = target.entry
          /\ parts = [j \in DOMAIN expected |-> expected[j].part]

\* checkPlacement finds no problem.
PlacementOK(tx, target, s, parts) ==
    /\ s \in DOMAIN tx.intents
    /\ ~Unreadable(tx, s, target.contract)
    /\ \A k \in CallsTo(tx, s, target.contract) :
        LET call == tx.intents[s].actions[k] IN
        call.entry = target.entry => call.guaranteed # None /\ call.fallible = None
    /\ LET acts == Activity(tx, s, target.contract)
           named == Named(tx, target, s)
           expected == Kept(acts, {j \in named : /\ acts[j].entry = target.entry
                                                 /\ acts[j].transcript = "guaranteed"})
       IN /\ \A j \in named : acts[j].entry = target.entry
          /\ parts = [j \in DOMAIN expected |-> expected[j].part]

Included == {"SUCCESS", "PARTIAL_SUCCESS"}

\* verifyTransactionPackages reads the transaction's packages of the target.
ReadTransaction(tx, target, net, h) ==
    ReadPackages(PartEvents(tx, net, target.contract, h),
                 [optIns |-> {<<target.contract, target.name>>}, network |-> None,
                  maxEvents |-> MaxEvents, maxGroups |-> MaxGroups])

\* verifyTransactionPackages on a bound transaction whose reported hash is its own:
\* the packages that are verified, by their group.
VerifiedPackages(tx, target, net, h, status) ==
    LET read == ReadTransaction(tx, target, net, h)
        good == {k \in DOMAIN read.packages :
                    /\ status \in Included
                    /\ read.packages[k].status = "accepted"
                    /\ PlacementOK(tx, target, k.segment, read.packages[k].parts)}
    IN [k \in good |-> read.packages[k].parts]
=============================================================================
