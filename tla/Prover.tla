--------------------------------- MODULE Prover ---------------------------------
(***************************************************************************)
(* The proof-server adapter (deploy-tools/prover.ts): requests to one      *)
(* endpoint under a limit on requests in flight (limiter), each retried a  *)
(* bounded number of times (withRetry).                                    *)
(*                                                                         *)
(* The adapter runs on an event loop.  A turn of the loop settles promises *)
(* - answers, timers, whatever makes the ledger ask - and each puts a job  *)
(* at the end of a queue; the jobs then run one by one, may queue more,    *)
(* and the next turn waits until none is left.  A variable keeps its value *)
(* within a job and may change between two.                                *)
(***************************************************************************)
EXTENDS Naturals, Sequences, FiniteSets, Functions

CONSTANTS
    Requests,       \* the /check and /prove requests of the transactions proved
    MaxConcurrent,  \* policy.maxConcurrent (4)
    MaxAttempts,    \* policy.maxAttempts (5)
    MaxPerTurn      \* bound on what one turn settles

ASSUME ProverAssumption ==
    /\ IsFiniteSet(Requests)
    /\ \A n \in {MaxConcurrent, MaxAttempts, MaxPerTurn} : n \in Nat \ {0}

VARIABLES
    active,     \* the limiter's count
    waiting,    \* the limiter's queue
    jobs,       \* [request, does]: the jobs left in this turn
    stage,      \* where each request is
    attempt,    \* how often each has been tried
    answer      \* how its last try ended

vars == <<active, waiting, jobs, stage, attempt, answer>>

\* A 2xx answer; one of RETRYABLE_STATUS or RETRYABLE_CODES; any other failure.
Answers == {"ok", "retryable", "refused"}

Job(r, does) == [request |-> r, does |-> does]

InFlight == {r \in Requests : stage[r] = "flying"}

-----------------------------------------------------------------------------
Init ==
    /\ active = 0 /\ waiting = <<>> /\ jobs = <<>>
    /\ stage = [r \in Requests |-> "out"]
    /\ attempt = [r \in Requests |-> 0]
    /\ answer \in [Requests -> {"ok"}]

\* What may happen to a request in a turn: the ledger makes it, its answer arrives, or
\* its backoff is over.
Pending == {r \in Requests : stage[r] \in {"out", "flying", "backoff"}}

\* One turn: some of it happens, in some order.
Turn ==
    /\ jobs = <<>>
    /\ \E rs \in (SUBSET Pending) \ {{}} :
        /\ Cardinality(rs) <= MaxPerTurn
        /\ \E order \in Bijection(1..Cardinality(rs), rs) :
            jobs' = [n \in DOMAIN order |->
                        Job(order[n], IF stage[order[n]] = "flying" THEN "release" ELSE "run")]
        /\ answer' \in [Requests -> Answers]
        /\ \A r \in Requests : stage[r] # "flying" \/ r \notin rs => answer'[r] = answer[r]
        /\ stage' = [r \in Requests |-> IF r \in rs THEN "queued" ELSE stage[r]]
    /\ UNCHANGED <<active, waiting, attempt>>

Does(what) == jobs # <<>> /\ Head(jobs).does = what

\* A request enters the limiter: it takes a slot, or waits for one.
Run ==
    /\ Does("run")
    /\ LET r == Head(jobs).request IN
        /\ attempt' = [attempt EXCEPT ![r] = @ + 1]
        /\ IF active >= MaxConcurrent
           THEN /\ waiting' = Append(waiting, r)
                /\ stage' = [stage EXCEPT ![r] = "waiting"]
                /\ UNCHANGED active
           ELSE /\ active' = active + 1
                /\ stage' = [stage EXCEPT ![r] = "flying"]
                /\ UNCHANGED waiting
    /\ jobs' = Tail(jobs)
    /\ UNCHANGED answer

\* A request that waited goes on: its slot is counted only now.
Resume ==
    /\ Does("resume")
    /\ LET r == Head(jobs).request IN
        /\ active' = active + 1
        /\ stage' = [stage EXCEPT ![r] = "flying"]
    /\ jobs' = Tail(jobs)
    /\ UNCHANGED <<waiting, attempt, answer>>

\* Mutant of Woken: a failed request wakes nobody.
MutantWoken(r) == IF waiting = <<>> \/ answer[r] # "ok" THEN <<>> ELSE <<Head(waiting)>>

\* waiting.shift(), whatever became of the request.
Woken(r) == IF waiting = <<>> THEN <<>> ELSE <<Head(waiting)>>

\* The limiter's finally: the slot is given back, and the first that waits is woken;
\* the caller goes on after it.
Release ==
    /\ Does("release")
    /\ LET r == Head(jobs).request IN
        /\ active' = active - 1
        /\ waiting' = SubSeq(waiting, Len(Woken(r)) + 1, Len(waiting))
        /\ jobs' = Tail(jobs) \o [n \in DOMAIN Woken(r) |-> Job(Woken(r)[n], "resume")]
                    \o <<Job(r, "settle")>>
    /\ UNCHANGED <<stage, attempt, answer>>

\* Mutant of Retries: one attempt too many.
MutantRetries(r) == answer[r] = "retryable" /\ attempt[r] <= MaxAttempts

\* Whether withRetry tries again.
Retries(r) == answer[r] = "retryable" /\ attempt[r] < MaxAttempts

\* withRetry: the answer is returned, the failure thrown, or the backoff begins.
Settle ==
    /\ Does("settle")
    /\ LET r == Head(jobs).request IN
        stage' = [stage EXCEPT ![r] = IF answer[r] = "ok" THEN "answered"
                                      ELSE IF Retries(r) THEN "backoff" ELSE "failed"]
    /\ jobs' = Tail(jobs)
    /\ UNCHANGED <<active, waiting, attempt, answer>>

Next == Turn \/ Run \/ Resume \/ Release \/ Settle

Spec == Init /\ [][Next]_vars

\* Jobs run, and each request is made, answered (or timed out) and woken from its
\* backoff eventually.
FairSpec ==
    /\ Spec
    /\ WF_vars(Run \/ Resume \/ Release \/ Settle)
    /\ \A r \in Requests : SF_vars(Turn /\ stage[r] # "queued" /\ stage'[r] = "queued")

-----------------------------------------------------------------------------
(* Properties *)

Stages == {"out", "queued", "waiting", "flying", "backoff", "answered", "failed"}

\* Type correctness, with the bound on attempts.
TypeOK ==
    /\ active \in 0..Cardinality(Requests)
    /\ waiting \in Seq(Requests)
    /\ \A n \in DOMAIN jobs : jobs[n].request \in Requests
    /\ stage \in [Requests -> Stages]
    /\ attempt \in [Requests -> 0..MaxAttempts]
    /\ answer \in [Requests -> Answers]

\* No request waits for a slot that nobody holds: whenever the loop is idle and some
\* request waits, the limiter is full.
NoIdleSlot == jobs = <<>> /\ waiting # <<>> => Cardinality(InFlight) >= MaxConcurrent

\* Every request ends, answered or failed, however often others fail, retry and queue.
AllEnd == \A r \in Requests : <>(stage[r] \in {"answered", "failed"})

\* "Largest number of /check and /prove requests in flight" (ProverPolicy.maxConcurrent).
InFlightLimit == Cardinality(InFlight) <= MaxConcurrent
=============================================================================
