------------------------------ MODULE ProverProofs ------------------------------
(***************************************************************************)
(* Theorems of Prover for any number of requests, slots, attempts and      *)
(* promises settled in a turn.                                             *)
(***************************************************************************)
EXTENDS Prover, FiniteSetTheorems, SequenceTheorems, TLAPS

-----------------------------------------------------------------------------
(* The inductive invariant, in named parts *)

Deeds == {"run", "resume", "release", "settle"}
AllJobs == [request : Requests, does : Deeds]

\* The requests whose next job is to do what.
About(what) == {r \in Requests : \E n \in DOMAIN jobs : jobs[n] = Job(r, what)}

\* Who has a slot that the limiter counts, and who has one or was promised one.
Holders == InFlight \cup About("release")
Claims == Holders \cup About("resume")

Shape ==
    /\ active \in Nat
    /\ waiting \in Seq(Requests)
    /\ jobs \in Seq(AllJobs)
    /\ stage \in [Requests -> Stages]
    /\ attempt \in [Requests -> Nat]
    /\ answer \in [Requests -> Answers]

\* A request has one job at a time, and is where that job finds it.
OneJob ==
    /\ \A m, n \in DOMAIN jobs : jobs[m].request = jobs[n].request => m = n
    /\ \A n \in DOMAIN jobs :
        stage[jobs[n].request] = IF jobs[n].does = "resume" THEN "waiting" ELSE "queued"

\* A request waits once, and not when it was woken.
WaitsOnce ==
    /\ \A m, n \in DOMAIN waiting : waiting[m] = waiting[n] => m = n
    /\ \A n \in DOMAIN waiting : stage[waiting[n]] = "waiting"
    /\ \A n \in DOMAIN waiting, m \in DOMAIN jobs : waiting[n] # jobs[m].request

\* The count is that of the holders.
Counted == active = Cardinality(Holders)

\* Nobody waits unless every slot is held or promised.
Full == waiting # <<>> => Cardinality(Claims) >= MaxConcurrent

\* A request that may still be tried has an attempt left.
AttemptsLeft ==
    /\ \A r \in Requests : attempt[r] <= MaxAttempts
    /\ \A r \in Requests : stage[r] = "out" => attempt[r] = 0
    /\ \A r \in Requests : stage[r] = "backoff" => attempt[r] < MaxAttempts
    /\ \A n \in DOMAIN jobs : jobs[n].does = "run" => attempt[jobs[n].request] < MaxAttempts

IInv ==
    /\ Shape
    /\ OneJob
    /\ WaitsOnce
    /\ Counted
    /\ Full
    /\ AttemptsLeft

-----------------------------------------------------------------------------
\* Holders and claims are requests, so both are finite.
LEMMA FiniteClaims ==
    /\ IsFiniteSet(Holders) /\ IsFiniteSet(Claims)
    /\ Cardinality(Holders) \in Nat /\ Cardinality(Claims) \in Nat
    /\ Cardinality(Holders) <= Cardinality(Claims)
    /\ Cardinality(Holders) <= Cardinality(Requests)
<1>1. Holders \in SUBSET Requests /\ Claims \in SUBSET Requests /\ Holders \in SUBSET Claims
    BY DEF Holders, Claims, InFlight, About
<1>2. IsFiniteSet(Requests)
    BY ProverAssumption
<1>3. IsFiniteSet(Holders) /\ IsFiniteSet(Claims) /\ Cardinality(Holders) <= Cardinality(Requests)
    BY <1>1, <1>2, FS_Subset
<1> QED BY <1>1, <1>3, FS_Subset, FS_CardinalityType

\* What is left of the queue once its first job has run.
LEMMA Rest ==
    ASSUME Shape, OneJob, jobs # <<>>
    PROVE  LET rest == Tail(jobs) r == Head(jobs).request IN
        /\ r \in Requests /\ Head(jobs) = Job(r, Head(jobs).does) /\ Head(jobs).does \in Deeds
        /\ 1 \in DOMAIN jobs /\ Head(jobs) = jobs[1]
        /\ rest \in Seq(AllJobs)
        /\ \A n \in DOMAIN rest : n + 1 \in DOMAIN jobs /\ n + 1 # 1 /\ rest[n] = jobs[n + 1]
        /\ \A n \in DOMAIN jobs : n # 1 => n - 1 \in DOMAIN rest /\ rest[n - 1] = jobs[n]
        /\ \A n \in DOMAIN rest : rest[n].request # r
        /\ \A m, n \in DOMAIN rest : rest[m].request = rest[n].request => m = n
<1> DEFINE rest == Tail(jobs)
           r == Head(jobs).request
<1>1. /\ jobs \in Seq(AllJobs)
      /\ Len(jobs) \in Nat /\ Len(jobs) # 0 /\ DOMAIN jobs = 1..Len(jobs)
    BY DEF Shape
<1>2. /\ Head(jobs) = jobs[1] /\ 1 \in DOMAIN jobs
      /\ rest \in Seq(AllJobs)
      /\ Len(rest) = Len(jobs) - 1 /\ DOMAIN rest = 1..Len(rest)
      /\ \A n \in 1..Len(rest) : rest[n] = jobs[n + 1]
    BY <1>1
<1>3. Head(jobs) \in AllJobs
    <2>1. \A n \in DOMAIN jobs : jobs[n] \in AllJobs
        BY <1>1, ElementOfSeq
    <2> QED BY <1>2, <2>1
<1>4. r \in Requests /\ Head(jobs) = Job(r, Head(jobs).does) /\ Head(jobs).does \in Deeds
    BY <1>3 DEF Job, AllJobs
<1>5. \A n \in DOMAIN rest : n + 1 \in DOMAIN jobs /\ n + 1 # 1 /\ rest[n] = jobs[n + 1]
    BY <1>1, <1>2
<1>6. \A n \in DOMAIN jobs : n # 1 => n - 1 \in DOMAIN rest /\ rest[n - 1] = jobs[n]
    BY <1>1, <1>2
<1>7. \A n \in DOMAIN rest : rest[n].request # r
    BY <1>2, <1>5 DEF OneJob
<1>8. \A m, n \in DOMAIN rest : rest[m].request = rest[n].request => m = n
    BY <1>1, <1>2, <1>5 DEF OneJob
<1> QED BY <1>2, <1>4, <1>5, <1>6, <1>7, <1>8

\* One request fewer is about to do what the first job does.
LEMMA AboutRest ==
    ASSUME Shape, OneJob, jobs # <<>>, NEW what
    PROVE  {r \in Requests : \E n \in DOMAIN Tail(jobs) : Tail(jobs)[n] = Job(r, what)}
            = About(what) \ {Head(jobs).request}
<1> DEFINE rest == Tail(jobs)
<1>1. ASSUME NEW q \in Requests
      PROVE  (\E n \in DOMAIN rest : rest[n] = Job(q, what))
                <=> (q # Head(jobs).request /\ \E n \in DOMAIN jobs : jobs[n] = Job(q, what))
    <2>1. ASSUME NEW n \in DOMAIN rest, rest[n] = Job(q, what)
          PROVE  q # Head(jobs).request /\ \E m \in DOMAIN jobs : jobs[m] = Job(q, what)
        <3>1. rest[n].request = q
            BY <2>1 DEF Job
        <3> QED BY <2>1, <3>1, Rest
    <2>2. ASSUME NEW n \in DOMAIN jobs, jobs[n] = Job(q, what), q # Head(jobs).request
          PROVE  \E m \in DOMAIN rest : rest[m] = Job(q, what)
        <3>1. jobs[n].request = q
            BY <2>2 DEF Job
        <3>2. n # 1
            BY <2>2, <3>1, Rest
        <3>3. n - 1 \in DOMAIN rest /\ rest[n - 1] = jobs[n]
            BY <3>2, Rest
        <3> QED BY <2>2, <3>3
    <2> QED BY <2>1, <2>2
<1> QED BY <1>1 DEF About

\* The named parts hold before any request is made.
LEMMA InitInv == Init => IInv
<1> SUFFICES ASSUME Init PROVE IInv
    OBVIOUS
<1>1. Shape /\ OneJob /\ WaitsOnce /\ AttemptsLeft /\ Full
    BY ProverAssumption DEF Init, Shape, OneJob, WaitsOnce, AttemptsLeft, Full, Stages, Answers
<1>2. Holders = {}
    BY DEF Init, Holders, InFlight, About
<1> QED BY <1>1, <1>2, FS_EmptySet DEF Init, Counted, IInv

-----------------------------------------------------------------------------
(* One lemma per action *)

\* A turn moves slots from requests to their jobs and claims nothing.
LEMMA TurnKeeps == ASSUME IInv, Turn PROVE IInv'
<1> USE DEF IInv
<1>1. PICK rs \in (SUBSET Pending) \ {{}} :
        \E order \in Bijection(1..Cardinality(rs), rs) :
            /\ jobs' = [n \in DOMAIN order |->
                            Job(order[n], IF stage[order[n]] = "flying" THEN "release" ELSE "run")]
            /\ answer' \in [Requests -> Answers]
            /\ stage' = [r \in Requests |-> IF r \in rs THEN "queued" ELSE stage[r]]
    BY DEF Turn
<1>2. PICK order \in Bijection(1..Cardinality(rs), rs) :
            /\ jobs' = [n \in DOMAIN order |->
                            Job(order[n], IF stage[order[n]] = "flying" THEN "release" ELSE "run")]
            /\ answer' \in [Requests -> Answers]
            /\ stage' = [r \in Requests |-> IF r \in rs THEN "queued" ELSE stage[r]]
    BY <1>1
<1> DEFINE size == Cardinality(rs)
<1>3. jobs = <<>> /\ UNCHANGED <<active, waiting, attempt>>
    BY DEF Turn
<1>4. rs \subseteq Requests /\ \A r \in rs : stage[r] \in {"out", "flying", "backoff"}
    BY DEF Pending
<1>5. /\ order \in [1..size -> rs]
      /\ \A m, n \in 1..size : order[m] = order[n] => m = n
      /\ \A r \in rs : \E n \in 1..size : order[n] = r
    BY DEF Bijection, Injection, Surjection, IsInjective
<1>6. size \in Nat
    BY <1>4, ProverAssumption, FS_Subset, FS_CardinalityType
<1>7. /\ DOMAIN jobs' = 1..size
      /\ \A n \in 1..size : /\ jobs'[n].request = order[n] /\ order[n] \in rs
                              /\ jobs'[n].does = (IF stage[order[n]] = "flying" THEN "release" ELSE "run")
                              /\ jobs'[n] = Job(order[n], IF stage[order[n]] = "flying" THEN "release" ELSE "run")
                              /\ jobs'[n] \in AllJobs
    BY <1>2, <1>4, <1>5 DEF Job, Deeds, AllJobs
<1>8. Shape'
    <2>1. jobs' \in Seq(AllJobs)
        BY <1>2, <1>5, <1>6, <1>7, IsASeq
    <2>2. stage' \in [Requests -> Stages]
        BY <1>2 DEF Shape, Stages
    <2> QED BY <1>2, <1>3, <2>1, <2>2 DEF Shape
<1>9. OneJob'
    BY <1>2, <1>4, <1>5, <1>7 DEF OneJob, Shape
<1>10. WaitsOnce'
    <2>1. \A n \in DOMAIN waiting : waiting[n] \notin rs
        BY <1>4 DEF WaitsOnce
    <2>2. \A n \in DOMAIN waiting : waiting[n] \in Requests
        BY ElementOfSeq, LenProperties DEF Shape
    <2> QED BY <1>2, <1>3, <1>7, <2>1, <2>2 DEF WaitsOnce
<1>11. AttemptsLeft'
    <2>1. ASSUME NEW n \in DOMAIN jobs', jobs'[n].does = "run"
          PROVE  attempt[jobs'[n].request] < MaxAttempts
        BY <1>4, <1>7, <2>1, ProverAssumption DEF AttemptsLeft, Shape
    <2> QED BY <1>2, <1>3, <2>1 DEF AttemptsLeft, Shape
<1>12. /\ About("release")' = InFlight \cap rs
       /\ About("resume")' = {}
    <2>1. ASSUME NEW q \in Requests
          PROVE  (\E n \in DOMAIN jobs' : jobs'[n] = Job(q, "release")) <=> (q \in InFlight /\ q \in rs)
        <3>1. ASSUME NEW n \in DOMAIN jobs', jobs'[n] = Job(q, "release")
              PROVE  q \in InFlight /\ q \in rs
            <4>1. jobs'[n].request = q /\ jobs'[n].does = "release"
                BY <3>1 DEF Job
            <4> QED BY <1>7, <4>1 DEF InFlight
        <3>2. ASSUME q \in InFlight, q \in rs
              PROVE  \E n \in DOMAIN jobs' : jobs'[n] = Job(q, "release")
            BY <1>5, <1>7, <3>2 DEF InFlight
        <3> QED BY <3>1, <3>2
    <2>2. \A n \in DOMAIN jobs' : jobs'[n].does # "resume"
        BY <1>7
    <2>3. \A q \in Requests : ~\E n \in DOMAIN jobs' : jobs'[n] = Job(q, "resume")
        BY <2>2 DEF Job
    <2> QED BY <1>4, <2>1, <2>3 DEF About, InFlight
<1>13. InFlight' = InFlight \ rs
    BY <1>2 DEF InFlight
<1>14. About("release") = {} /\ About("resume") = {}
    BY <1>3 DEF About
<1>15. Holders' = Holders /\ Claims' = Claims
    BY <1>12, <1>13, <1>14 DEF Holders, Claims
<1>16. Counted' /\ Full'
    BY <1>3, <1>15 DEF Counted, Full
<1> QED BY <1>8, <1>9, <1>10, <1>11, <1>16

\* After a job that adds none, requests not its own are where they were.
LEMMA PopKeeps ==
    ASSUME Shape, OneJob, jobs # <<>>, jobs' = Tail(jobs), NEW x \in Stages,
           stage' = [stage EXCEPT ![Head(jobs).request] = x]
    PROVE  /\ OneJob'
           /\ \A what : About(what)' = About(what) \ {Head(jobs).request}
           /\ jobs' \in Seq(AllJobs) /\ stage' \in [Requests -> Stages]
           /\ \A n \in DOMAIN jobs' : n + 1 \in DOMAIN jobs /\ jobs'[n] = jobs[n + 1]
                                     /\ jobs'[n].request \in Requests \ {Head(jobs).request}
<1> DEFINE r == Head(jobs).request
<1>1. /\ jobs' \in Seq(AllJobs) /\ r \in Requests
      /\ \A n \in DOMAIN jobs' : n + 1 \in DOMAIN jobs /\ jobs'[n] = jobs[n + 1] /\ jobs'[n].request # r
      /\ \A m, n \in DOMAIN jobs' : jobs'[m].request = jobs'[n].request => m = n
    BY Rest
<1>2. stage' \in [Requests -> Stages] /\ \A q \in Requests : q # r => stage'[q] = stage[q]
    BY <1>1 DEF Shape
<1>3. \A n \in DOMAIN jobs' : jobs'[n] \in AllJobs
    BY <1>1, ElementOfSeq, LenProperties
<1>4. \A n \in DOMAIN jobs' : stage'[jobs'[n].request] = stage[jobs'[n].request]
    BY <1>1, <1>2, <1>3 DEF AllJobs
<1>5. OneJob'
    BY <1>1, <1>4 DEF OneJob
<1>6. ASSUME NEW what PROVE About(what)' = About(what) \ {r}
    <2>1. About(what)' = {q \in Requests : \E n \in DOMAIN jobs' : jobs'[n] = Job(q, what)}
        BY DEF About, Job
    <2> QED BY <2>1, AboutRest
<1>7. \A n \in DOMAIN jobs' : jobs'[n].request \in Requests
    BY <1>3 DEF AllJobs
<1> QED BY <1>1, <1>2, <1>5, <1>6, <1>7

\* The request of the first job is there for that job only.
LEMMA HeadOnly ==
    ASSUME Shape, OneJob, jobs # <<>>, NEW what
    PROVE  /\ Head(jobs).request \in About(what) <=> Head(jobs).does = what
           /\ stage[Head(jobs).request] = IF Head(jobs).does = "resume" THEN "waiting" ELSE "queued"
<1> DEFINE r == Head(jobs).request
<1>1. r \in Requests /\ Head(jobs) = Job(r, Head(jobs).does) /\ 1 \in DOMAIN jobs /\ Head(jobs) = jobs[1]
    BY Rest
<1>2. Head(jobs).does = what => r \in About(what)
    BY <1>1 DEF About
<1>3. ASSUME r \in About(what) PROVE Head(jobs).does = what
    <2>1. PICK n \in DOMAIN jobs : jobs[n] = Job(r, what)
        BY <1>3 DEF About
    <2>2. jobs[n].request = r /\ jobs[n].does = what
        BY <2>1 DEF Job
    <2>3. n = 1
        BY <1>1, <2>2 DEF OneJob
    <2> QED BY <1>1, <2>2, <2>3
<1> QED BY <1>1, <1>2, <1>3 DEF OneJob

\* A request that enters takes a slot that is free, or waits because none is.
LEMMA RunKeeps == ASSUME IInv, Run PROVE IInv'
<1> USE DEF IInv
<1> DEFINE r == Head(jobs).request
<1>1. /\ jobs # <<>> /\ Head(jobs).does = "run" /\ jobs' = Tail(jobs) /\ answer' = answer
      /\ attempt' = [attempt EXCEPT ![r] = @ + 1]
    BY DEF Run, Does
<1>2. r \in Requests /\ stage[r] = "queued" /\ r \notin About("release") /\ r \notin About("resume")
    BY <1>1, Rest, HeadOnly
<1>3. r \notin Holders /\ r \notin Claims
    BY <1>2 DEF Holders, Claims, InFlight
<1>4. attempt[r] \in Nat /\ attempt[r] < MaxAttempts /\ 1 \in DOMAIN jobs /\ Head(jobs) = jobs[1]
    BY <1>1, <1>2, Rest DEF Shape, AttemptsLeft
<1>5. attempt' \in [Requests -> Nat]
      /\ \A q \in Requests : attempt'[q] = IF q = r THEN attempt[r] + 1 ELSE attempt[q]
    BY <1>1, <1>2, <1>4 DEF Shape
<1>6. ASSUME NEW x \in {"waiting", "flying"}, stage' = [stage EXCEPT ![r] = x]
      PROVE  /\ OneJob' /\ AttemptsLeft' /\ jobs' \in Seq(AllJobs) /\ stage' \in [Requests -> Stages]
             /\ About("release")' = About("release") /\ About("resume")' = About("resume")
             /\ \A n \in DOMAIN jobs' : n + 1 \in DOMAIN jobs /\ jobs'[n] = jobs[n + 1] /\ jobs'[n].request # r
    <2>1. /\ OneJob' /\ jobs' \in Seq(AllJobs) /\ stage' \in [Requests -> Stages]
          /\ \A what : About(what)' = About(what) \ {r}
          /\ \A n \in DOMAIN jobs' : n + 1 \in DOMAIN jobs /\ jobs'[n] = jobs[n + 1] /\ jobs'[n].request \in Requests \ {r}
        <3>1. x \in Stages
            BY DEF Stages
        <3> QED BY <1>1, <1>6, <3>1, PopKeeps
    <2>2. About("release")' = About("release") /\ About("resume")' = About("resume")
        BY <1>2, <2>1
    <2>3. \A q \in Requests : stage'[q] = IF q = r THEN x ELSE stage[q]
        BY <1>2, <1>6 DEF Shape
    <2>4. AttemptsLeft'
        <3>1. MaxAttempts \in Nat
            BY ProverAssumption
        <3>2. \A n \in DOMAIN jobs' : jobs'[n].does = "run" => attempt'[jobs'[n].request] < MaxAttempts
            BY <1>5, <2>1 DEF AttemptsLeft
        <3>3. \A q \in Requests : attempt'[q] <= MaxAttempts
            BY <1>4, <1>5, <3>1 DEF AttemptsLeft
        <3>4. \A q \in Requests : /\ stage'[q] = "out" => attempt'[q] = 0
                                  /\ stage'[q] = "backoff" => attempt'[q] < MaxAttempts
            BY <1>5, <1>6, <2>3 DEF AttemptsLeft
        <3> QED BY <3>2, <3>3, <3>4 DEF AttemptsLeft
    <2> QED BY <2>1, <2>2, <2>4
<1>7. CASE active >= MaxConcurrent
    <2>1. /\ waiting' = Append(waiting, r) /\ stage' = [stage EXCEPT ![r] = "waiting"] /\ active' = active
        BY <1>7 DEF Run
    <2>2. /\ OneJob' /\ AttemptsLeft' /\ jobs' \in Seq(AllJobs) /\ stage' \in [Requests -> Stages]
          /\ About("release")' = About("release") /\ About("resume")' = About("resume")
          /\ \A n \in DOMAIN jobs' : n + 1 \in DOMAIN jobs /\ jobs'[n] = jobs[n + 1] /\ jobs'[n].request # r
        <3>1. \E x \in {"waiting", "flying"} : stage' = [stage EXCEPT ![r] = x]
            BY <2>1
        <3> QED BY <1>6, <3>1
    <2>3. /\ waiting' \in Seq(Requests) /\ Len(waiting') = Len(waiting) + 1 /\ Len(waiting) \in Nat
          /\ \A n \in 1..Len(waiting) : waiting'[n] = waiting[n] /\ waiting[n] \in Requests
          /\ waiting'[Len(waiting) + 1] = r
          /\ DOMAIN waiting' = 1..Len(waiting') /\ DOMAIN waiting = 1..Len(waiting)
        BY <1>2, <2>1, AppendProperties, LenProperties, ElementOfSeq DEF Shape
    <2>4. \A n \in 1..Len(waiting) : waiting[n] # r
        BY <1>2, <2>3 DEF WaitsOnce
    <2>5. WaitsOnce'
        <3>1. \A m, n \in DOMAIN waiting' : waiting'[m] = waiting'[n] => m = n
            BY <2>3, <2>4 DEF WaitsOnce
        <3>2. \A n \in DOMAIN waiting' : stage'[waiting'[n]] = "waiting"
            BY <1>2, <2>1, <2>3, <2>4 DEF WaitsOnce, Shape
        <3>3. \A n \in DOMAIN waiting', m \in DOMAIN jobs' : waiting'[n] # jobs'[m].request
            BY <2>2, <2>3 DEF WaitsOnce
        <3> QED BY <3>1, <3>2, <3>3 DEF WaitsOnce
    <2>6. InFlight' = InFlight
        BY <1>2, <2>1 DEF InFlight, Shape
    <2>7. Holders' = Holders /\ Claims' = Claims
        BY <2>2, <2>6 DEF Holders, Claims
    <2>8. Counted' /\ Full'
        BY <1>7, <2>1, <2>7, FiniteClaims, ProverAssumption DEF Counted, Full
    <2>9. Shape'
        BY <1>1, <1>5, <2>1, <2>2, <2>3 DEF Shape
    <2> QED BY <2>2, <2>5, <2>8, <2>9
<1>8. CASE ~(active >= MaxConcurrent)
    <2>1. /\ active' = active + 1 /\ stage' = [stage EXCEPT ![r] = "flying"] /\ waiting' = waiting
        BY <1>8 DEF Run
    <2>2. /\ OneJob' /\ AttemptsLeft' /\ jobs' \in Seq(AllJobs) /\ stage' \in [Requests -> Stages]
          /\ About("release")' = About("release") /\ About("resume")' = About("resume")
          /\ \A n \in DOMAIN jobs' : n + 1 \in DOMAIN jobs /\ jobs'[n] = jobs[n + 1] /\ jobs'[n].request # r
        <3>1. \E x \in {"waiting", "flying"} : stage' = [stage EXCEPT ![r] = x]
            BY <2>1
        <3> QED BY <1>6, <3>1
    <2>3. \A n \in DOMAIN waiting : waiting[n] \in Requests /\ waiting[n] # r
        BY <1>2, ElementOfSeq, LenProperties DEF Shape, WaitsOnce
    <2>4. WaitsOnce'
        BY <1>2, <2>1, <2>2, <2>3 DEF WaitsOnce, Shape
    <2>5. InFlight' = InFlight \cup {r}
        BY <1>2, <2>1 DEF InFlight, Shape
    <2>6. Holders' = Holders \cup {r} /\ Claims' = Claims \cup {r}
        BY <2>2, <2>5 DEF Holders, Claims
    <2>7. Cardinality(Holders') = Cardinality(Holders) + 1 /\ Cardinality(Claims') = Cardinality(Claims) + 1
        BY <1>3, <2>6, FiniteClaims, FS_AddElement
    <2>8. Counted' /\ Full'
        BY <2>1, <2>7, FiniteClaims, ProverAssumption DEF Counted, Full
    <2>9. Shape'
        BY <1>1, <1>5, <2>1, <2>2 DEF Shape
    <2> QED BY <2>2, <2>4, <2>8, <2>9
<1> QED BY <1>7, <1>8

\* A woken request takes the slot it was promised.
LEMMA ResumeKeeps == ASSUME IInv, Resume PROVE IInv'
<1> USE DEF IInv
<1> DEFINE r == Head(jobs).request
<1>1. /\ jobs # <<>> /\ Head(jobs).does = "resume" /\ jobs' = Tail(jobs)
      /\ stage' = [stage EXCEPT ![r] = "flying"] /\ active' = active + 1
      /\ UNCHANGED <<waiting, attempt, answer>>
    BY DEF Resume, Does
<1>2. r \in Requests /\ stage[r] = "waiting" /\ r \notin About("release") /\ r \in About("resume")
    BY <1>1, Rest, HeadOnly
<1>3. r \notin Holders /\ r \in Claims
    BY <1>2 DEF Holders, Claims, InFlight
<1>4. /\ OneJob' /\ jobs' \in Seq(AllJobs) /\ stage' \in [Requests -> Stages]
      /\ \A what : About(what)' = About(what) \ {r}
      /\ \A n \in DOMAIN jobs' : n + 1 \in DOMAIN jobs /\ jobs'[n] = jobs[n + 1] /\ jobs'[n].request \in Requests \ {r}
    <2>1. "flying" \in Stages
        BY DEF Stages
    <2> QED BY <1>1, <2>1, PopKeeps
<1>5. \A q \in Requests : stage'[q] = IF q = r THEN "flying" ELSE stage[q]
    BY <1>1, <1>2 DEF Shape
<1>6. AttemptsLeft'
    BY <1>1, <1>4, <1>5 DEF AttemptsLeft
<1>7. WaitsOnce'
    <2>1. \A n \in DOMAIN waiting : waiting[n] \in Requests
        BY ElementOfSeq, LenProperties DEF Shape
    <2>2. \A n \in DOMAIN waiting : waiting[n] # r
        BY <1>1, Rest DEF WaitsOnce
    <2> QED BY <1>1, <1>4, <1>5, <2>1, <2>2 DEF WaitsOnce
<1>8. InFlight' = InFlight \cup {r}
    BY <1>2, <1>5 DEF InFlight
<1>9. About("release")' = About("release") /\ About("resume")' = About("resume") \ {r}
    BY <1>2, <1>4
<1>10. Holders' = Holders \cup {r} /\ Claims' = Claims
    BY <1>3, <1>8, <1>9 DEF Holders, Claims
<1>11. Counted' /\ Full'
    BY <1>1, <1>3, <1>10, FiniteClaims, FS_AddElement DEF Counted, Full
<1>12. Shape'
    BY <1>1, <1>4 DEF Shape
<1> QED BY <1>4, <1>6, <1>7, <1>11, <1>12

\* The caller of a request goes on: answered, failed, or with an attempt left.
LEMMA SettleKeeps == ASSUME IInv, Settle PROVE IInv'
<1> USE DEF IInv
<1> DEFINE r == Head(jobs).request
<1>1. /\ jobs # <<>> /\ Head(jobs).does = "settle" /\ jobs' = Tail(jobs)
      /\ UNCHANGED <<active, waiting, attempt, answer>>
    BY DEF Settle, Does
<1>2. PICK x \in {"answered", "failed", "backoff"} :
        /\ stage' = [stage EXCEPT ![r] = x]
        /\ x = "backoff" => attempt[r] < MaxAttempts
    BY DEF Settle, Retries
<1>3. r \in Requests /\ stage[r] = "queued" /\ r \notin About("release") /\ r \notin About("resume")
    BY <1>1, Rest, HeadOnly
<1>4. /\ OneJob' /\ jobs' \in Seq(AllJobs) /\ stage' \in [Requests -> Stages]
      /\ \A what : About(what)' = About(what) \ {r}
      /\ \A n \in DOMAIN jobs' : n + 1 \in DOMAIN jobs /\ jobs'[n] = jobs[n + 1] /\ jobs'[n].request \in Requests \ {r}
    <2>1. x \in Stages
        BY DEF Stages
    <2> QED BY <1>1, <1>2, <2>1, PopKeeps
<1>5. \A q \in Requests : stage'[q] = IF q = r THEN x ELSE stage[q]
    BY <1>2, <1>3 DEF Shape
<1>6. AttemptsLeft'
    BY <1>1, <1>2, <1>4, <1>5 DEF AttemptsLeft
<1>7. WaitsOnce'
    <2>1. \A n \in DOMAIN waiting : waiting[n] \in Requests
        BY ElementOfSeq, LenProperties DEF Shape
    <2>2. \A n \in DOMAIN waiting : waiting[n] # r
        BY <1>1, Rest DEF WaitsOnce
    <2> QED BY <1>1, <1>4, <1>5, <2>1, <2>2 DEF WaitsOnce
<1>8. InFlight' = InFlight
    BY <1>3, <1>5 DEF InFlight
<1>9. About("release")' = About("release") /\ About("resume")' = About("resume")
    BY <1>3, <1>4
<1>10. Holders' = Holders /\ Claims' = Claims
    BY <1>8, <1>9 DEF Holders, Claims
<1>11. Counted' /\ Full'
    BY <1>1, <1>10 DEF Counted, Full
<1>12. Shape'
    BY <1>1, <1>4 DEF Shape
<1> QED BY <1>4, <1>6, <1>7, <1>11, <1>12

\* A sequence with one more element.
LEMMA OneMore ==
    ASSUME NEW S, NEW s \in Seq(S), NEW x \in S
    PROVE  /\ s \o <<x>> \in Seq(S) /\ Len(s \o <<x>>) = Len(s) + 1
           /\ \A n \in 1..Len(s) : (s \o <<x>>)[n] = s[n]
           /\ (s \o <<x>>)[Len(s) + 1] = x
BY AppendIsConcat, AppendProperties

\* The job that gives a slot back is followed by that of the one it wakes, and by its
\* caller's.
LEMMA Releases ==
    ASSUME Shape, Release, jobs # <<>>
    PROVE  LET r == Head(jobs).request rest == Tail(jobs) IN
        \/ /\ waiting = <<>> /\ waiting' = <<>>
           /\ jobs' \in Seq(AllJobs) /\ Len(jobs') = Len(rest) + 1
           /\ \A n \in 1..Len(rest) : jobs'[n] = rest[n]
           /\ jobs'[Len(rest) + 1] = Job(r, "settle")
        \/ /\ waiting # <<>> /\ waiting' = Tail(waiting)
           /\ jobs' \in Seq(AllJobs) /\ Len(jobs') = Len(rest) + 2
           /\ \A n \in 1..Len(rest) : jobs'[n] = rest[n]
           /\ jobs'[Len(rest) + 1] = Job(Head(waiting), "resume")
           /\ jobs'[Len(rest) + 2] = Job(r, "settle")
<1> DEFINE r == Head(jobs).request
           rest == Tail(jobs)
           woken == [n \in DOMAIN Woken(r) |-> Job(Woken(r)[n], "resume")]
           last == <<Job(r, "settle")>>
<1>1. /\ rest \in Seq(AllJobs) /\ Len(rest) \in Nat /\ r \in Requests
    <2>1. rest \in Seq(AllJobs) /\ Head(jobs) \in AllJobs
        BY HeadTailProperties DEF Shape
    <2> QED BY <2>1, LenProperties DEF AllJobs
<1>2. last \in Seq(AllJobs) /\ Len(last) = 1 /\ last[1] = Job(r, "settle")
    <2>1. Job(r, "settle") \in AllJobs
        BY <1>1 DEF Job, AllJobs, Deeds
    <2> QED BY <2>1
<1>3. jobs' = (rest \o woken) \o last /\ waiting' = SubSeq(waiting, Len(Woken(r)) + 1, Len(waiting))
    BY DEF Release
<1>4. CASE waiting = <<>>
    <2>1. Woken(r) = <<>>
        BY <1>4 DEF Woken
    <2>2. woken = <<>>
        BY <2>1
    <2>3. jobs' = rest \o last
        BY <1>1, <1>3, <2>2, ConcatEmptySeq
    <2>4. waiting' = <<>>
        BY <1>3, <1>4, <2>1
    <2> QED BY <1>1, <1>2, <1>4, <2>3, <2>4, ConcatProperties
<1>5. CASE waiting # <<>>
    <2>1. Woken(r) = <<Head(waiting)>> /\ Head(waiting) \in Requests
        BY <1>5, HeadTailProperties DEF Woken, Shape
    <2>2. woken = <<Job(Head(waiting), "resume")>>
        BY <2>1
    <2>3. Job(Head(waiting), "resume") \in AllJobs /\ Job(r, "settle") \in AllJobs
        BY <1>1, <2>1 DEF Job, AllJobs, Deeds
    <2>4. waiting' = Tail(waiting)
        <3>1. Len(<<Head(waiting)>>) = 1
            OBVIOUS
        <3>2. waiting' = SubSeq(waiting, 1 + 1, Len(waiting))
            BY <1>3, <2>1, <3>1, Zenon
        <3> QED BY <1>5, <3>2, TailIsSubSeq DEF Shape
    <2> DEFINE both == rest \o <<Job(Head(waiting), "resume")>>
    <2>5. /\ both \in Seq(AllJobs) /\ Len(both) = Len(rest) + 1
          /\ \A n \in 1..Len(rest) : both[n] = rest[n]
          /\ both[Len(rest) + 1] = Job(Head(waiting), "resume")
        BY <1>1, <2>3, OneMore
    <2>6. jobs' = both \o <<Job(r, "settle")>>
        BY <1>3, <2>2
    <2> HIDE DEF both
    <2>7. /\ jobs' \in Seq(AllJobs) /\ Len(jobs') = Len(both) + 1
          /\ \A n \in 1..Len(both) : jobs'[n] = both[n]
          /\ jobs'[Len(both) + 1] = Job(r, "settle")
        <3>1. both \in Seq(AllJobs)
            BY <2>5
        <3> HIDE DEF r
        <3> QED BY <2>3, <2>6, <3>1, OneMore
    <2>8. /\ \A n \in 1..Len(rest) : jobs'[n] = rest[n]
          /\ jobs'[Len(rest) + 1] = Job(Head(waiting), "resume")
          /\ Len(jobs') = Len(rest) + 2 /\ jobs'[Len(rest) + 2] = Job(r, "settle")
        BY <1>1, <2>5, <2>7
    <2> QED BY <1>5, <2>4, <2>7, <2>8
<1> QED BY <1>4, <1>5

\* A slot is given back, or goes to the first that waits.
LEMMA ReleaseKeeps == ASSUME IInv, Release PROVE IInv'
<1> USE DEF IInv
<1> DEFINE r == Head(jobs).request
           rest == Tail(jobs)
           L == Len(rest)
           w == Head(waiting)
<1>1. /\ jobs # <<>> /\ Head(jobs).does = "release" /\ active' = active - 1
      /\ UNCHANGED <<stage, attempt, answer>>
    BY DEF Release, Does
<1>2. r \in Requests /\ stage[r] = "queued" /\ r \in About("release") /\ r \notin About("resume")
    BY <1>1, Rest, HeadOnly
<1>3. r \in Holders /\ r \in Claims
    BY <1>2 DEF Holders, Claims
<1>4. /\ rest \in Seq(AllJobs) /\ L \in Nat /\ DOMAIN rest = 1..L
      /\ \A n \in 1..L : n + 1 \in DOMAIN jobs /\ rest[n] = jobs[n + 1] /\ rest[n].request # r
      /\ \A m, n \in 1..L : rest[m].request = rest[n].request => m = n
    BY <1>1, Rest, LenProperties
<1>5. CASE waiting = <<>>
    <2>1. /\ waiting' = <<>> /\ jobs' \in Seq(AllJobs) /\ DOMAIN jobs' = 1..(L + 1)
          /\ \A n \in 1..L : jobs'[n] = rest[n]
          /\ jobs'[L + 1] = Job(r, "settle")
        BY <1>1, <1>5, Releases, LenProperties
    <2>2. jobs'[L + 1].request = r /\ jobs'[L + 1].does = "settle"
        BY <2>1 DEF Job
    <2>3. \A n \in DOMAIN jobs' : n \in 1..L \/ n = L + 1
        BY <1>4, <2>1
    <2>4. \A n \in 1..L : /\ jobs'[n].request # r
                         /\ stage[jobs'[n].request] = IF jobs'[n].does = "resume" THEN "waiting" ELSE "queued"
        BY <1>4, <2>1 DEF OneJob
    <2>9. OneJob'
        <3>1. \A m, n \in DOMAIN jobs' : jobs'[m].request = jobs'[n].request => m = n
            BY <1>4, <2>1, <2>2, <2>3, <2>4
        <3>2. \A n \in DOMAIN jobs' :
                stage'[jobs'[n].request] = IF jobs'[n].does = "resume" THEN "waiting" ELSE "queued"
            BY <1>1, <1>2, <2>2, <2>3, <2>4
        <3> QED BY <3>1, <3>2 DEF OneJob
    <2>10. AttemptsLeft'
        BY <1>1, <1>4, <2>1, <2>2, <2>3 DEF AttemptsLeft
    <2>11. WaitsOnce' /\ Full'
        BY <2>1 DEF WaitsOnce, Full
    <2>5. About("release")' = About("release") \ {r}
        <3>1. ASSUME NEW q \in Requests
              PROVE  (\E n \in DOMAIN jobs' : jobs'[n] = Job(q, "release"))
                        <=> \E n \in DOMAIN rest : rest[n] = Job(q, "release")
            <4>1. jobs'[L + 1] # Job(q, "release")
                BY <2>2 DEF Job
            <4> QED BY <1>4, <2>1, <4>1
        <3>2. About("release")' = {q \in Requests : \E n \in DOMAIN rest : rest[n] = Job(q, "release")}
            BY <3>1 DEF About, Job
        <3> QED BY <1>1, <3>2, AboutRest
    <2>6. Holders' = Holders \ {r}
        BY <1>1, <1>2, <2>5 DEF Holders, InFlight
    <2>7. Counted'
        BY <1>1, <1>3, <2>6, FiniteClaims, FS_RemoveElement DEF Counted
    <2>8. Shape'
        <3>1. active' \in Nat
            BY <2>7, FS_RemoveElement, FiniteClaims, FS_CardinalityType, <2>6 DEF Counted
        <3> QED BY <1>1, <2>1, <3>1 DEF Shape
    <2> QED BY <2>7, <2>8, <2>9, <2>10, <2>11
<1>6. CASE waiting # <<>>
    <2>1. /\ waiting' = Tail(waiting) /\ jobs' \in Seq(AllJobs) /\ DOMAIN jobs' = 1..(L + 2)
          /\ \A n \in 1..L : jobs'[n] = rest[n]
          /\ jobs'[L + 1] = Job(w, "resume") /\ jobs'[L + 2] = Job(r, "settle")
        BY <1>1, <1>6, Releases, LenProperties
    <2>2. /\ jobs'[L + 1].request = w /\ jobs'[L + 1].does = "resume"
          /\ jobs'[L + 2].request = r /\ jobs'[L + 2].does = "settle"
        BY <2>1 DEF Job
    <2>3. /\ w \in Requests /\ 1 \in DOMAIN waiting /\ w = waiting[1]
          /\ waiting' \in Seq(Requests)
          /\ \A n \in DOMAIN waiting' : n + 1 \in DOMAIN waiting /\ n + 1 # 1 /\ waiting'[n] = waiting[n + 1] /\ n \in Nat
        <3>1. /\ w \in Requests /\ waiting' \in Seq(Requests) /\ Len(waiting) \in Nat /\ Len(waiting) # 0
              /\ Len(waiting') = Len(waiting) - 1 /\ w = waiting[1]
              /\ \A n \in 1..Len(waiting') : waiting'[n] = waiting[n + 1]
            BY <1>6, <2>1, HeadTailProperties, LenProperties DEF Shape
        <3>2. DOMAIN waiting = 1..Len(waiting) /\ DOMAIN waiting' = 1..Len(waiting')
            BY <3>1, LenProperties DEF Shape
        <3> QED BY <3>1, <3>2
    <2>4. stage[w] = "waiting" /\ w # r /\ \A n \in DOMAIN jobs : jobs[n].request # w
        BY <1>2, <2>3 DEF WaitsOnce
    <2>16. \A n \in DOMAIN jobs' : n \in 1..L \/ n = L + 1 \/ n = L + 2
        BY <1>4, <2>1
    <2>5. OneJob'
        <3>1. \A n \in 1..L : jobs'[n].request # w /\ jobs'[n].request # r
            BY <1>4, <2>1, <2>4
        <3>2. \A m, n \in DOMAIN jobs' : jobs'[m].request = jobs'[n].request => m = n
            <4>1. \A m, n \in 1..L : jobs'[m].request = jobs'[n].request => m = n
                BY <1>4, <2>1
            <4> QED BY <2>2, <2>4, <2>16, <3>1, <4>1
        <3>3. \A n \in 1..L : stage[jobs'[n].request] = IF jobs'[n].does = "resume" THEN "waiting" ELSE "queued"
            BY <1>4, <2>1 DEF OneJob
        <3>4. \A n \in DOMAIN jobs' :
                stage'[jobs'[n].request] = IF jobs'[n].does = "resume" THEN "waiting" ELSE "queued"
            BY <1>1, <1>2, <2>2, <2>4, <2>16, <3>3
        <3> QED BY <3>2, <3>4 DEF OneJob
    <2>6. AttemptsLeft'
        BY <1>1, <1>4, <2>1, <2>2, <2>16 DEF AttemptsLeft
    <2>7. WaitsOnce'
        <3>1. \A m, n \in DOMAIN waiting' : waiting'[m] = waiting'[n] => m = n
            BY <2>3 DEF WaitsOnce
        <3>2. \A n \in DOMAIN waiting' : stage'[waiting'[n]] = "waiting" /\ waiting'[n] # w /\ waiting'[n] # r
            BY <1>1, <1>2, <2>3 DEF WaitsOnce
        <3>3. \A n \in DOMAIN waiting', m \in 1..L : waiting'[n] # jobs'[m].request
            BY <1>4, <2>1, <2>3 DEF WaitsOnce
        <3>4. \A n \in DOMAIN waiting', m \in DOMAIN jobs' : waiting'[n] # jobs'[m].request
            BY <2>2, <2>16, <3>2, <3>3
        <3> QED BY <3>1, <3>2, <3>4 DEF WaitsOnce
    <2>8. About("release")' = About("release") \ {r}
        <3>1. ASSUME NEW q \in Requests
              PROVE  (\E n \in DOMAIN jobs' : jobs'[n] = Job(q, "release"))
                        <=> \E n \in DOMAIN rest : rest[n] = Job(q, "release")
            <4>1. jobs'[L + 1] # Job(q, "release") /\ jobs'[L + 2] # Job(q, "release")
                BY <2>2 DEF Job
            <4> QED BY <1>4, <2>1, <4>1
        <3>2. About("release")' = {q \in Requests : \E n \in DOMAIN rest : rest[n] = Job(q, "release")}
            BY <3>1 DEF About, Job
        <3> QED BY <1>1, <3>2, AboutRest
    <2>9. About("resume")' = About("resume") \cup {w}
        <3>1. ASSUME NEW q \in Requests
              PROVE  (\E n \in DOMAIN jobs' : jobs'[n] = Job(q, "resume"))
                        <=> (q = w \/ \E n \in DOMAIN rest : rest[n] = Job(q, "resume"))
            <4>1. jobs'[L + 2] # Job(q, "resume")
                BY <2>2 DEF Job
            <4>2. jobs'[L + 1] = Job(q, "resume") <=> q = w
                BY <2>1 DEF Job
            <4>3. L + 1 \in DOMAIN jobs' /\ \A n \in 1..L : n \in DOMAIN jobs' /\ jobs'[n] = rest[n]
                BY <1>4, <2>1
            <4> QED BY <1>4, <2>16, <4>1, <4>2, <4>3
        <3>2. About("resume")' = {q \in Requests : q = w \/ \E n \in DOMAIN rest : rest[n] = Job(q, "resume")}
            BY <3>1 DEF About, Job
        <3>3. {q \in Requests : \E n \in DOMAIN rest : rest[n] = Job(q, "resume")} = About("resume") \ {r}
            BY <1>1, AboutRest
        <3>4. {q \in Requests : q = w \/ \E n \in DOMAIN rest : rest[n] = Job(q, "resume")}
                = {q \in Requests : \E n \in DOMAIN rest : rest[n] = Job(q, "resume")} \cup {w}
            BY <2>3
        <3> QED BY <1>2, <3>2, <3>3, <3>4
    <2>10. w \notin Claims
        <3>1. \A what : w \notin About(what)
            BY <2>4 DEF About, Job
        <3> QED BY <2>4, <3>1 DEF Claims, Holders, InFlight
    <2>11. Holders' = Holders \ {r} /\ Claims' = (Claims \ {r}) \cup {w}
        <3>1. InFlight' = InFlight /\ r \notin InFlight
            BY <1>1, <1>2 DEF InFlight
        <3> QED BY <1>2, <2>8, <2>9, <3>1 DEF Holders, Claims
    <2>12. Counted'
        BY <1>1, <1>3, <2>11, FiniteClaims, FS_RemoveElement DEF Counted
    <2>13. Cardinality(Claims') = Cardinality(Claims)
        <3>1. IsFiniteSet(Claims \ {r}) /\ Cardinality(Claims \ {r}) = Cardinality(Claims) - 1
            BY <1>3, FiniteClaims, FS_RemoveElement
        <3>2. w \notin Claims \ {r}
            BY <2>10
        <3>3. Cardinality((Claims \ {r}) \cup {w}) = Cardinality(Claims \ {r}) + 1
            BY <3>1, <3>2, FS_AddElement
        <3>4. Cardinality(Claims) \in Nat
            BY FiniteClaims
        <3> QED BY <2>11, <3>1, <3>3, <3>4
    <2>14. Full'
        BY <1>6, <2>13 DEF Full
    <2>15. Shape'
        <3>1. active' \in Nat
            BY <2>12, FS_RemoveElement, FiniteClaims, FS_CardinalityType, <2>11 DEF Counted
        <3> QED BY <1>1, <2>1, <2>3, <3>1 DEF Shape
    <2> QED BY <2>5, <2>6, <2>7, <2>12, <2>14, <2>15
<1> QED BY <1>5, <1>6

\* Every step keeps the invariant.
LEMMA NextInv == IInv /\ [Next]_vars => IInv'
<1> SUFFICES ASSUME IInv, [Next]_vars PROVE IInv'
    OBVIOUS
<1>1. CASE UNCHANGED vars
    BY <1>1 DEF vars, IInv, Shape, OneJob, WaitsOnce, Counted, Full, AttemptsLeft, Holders, Claims,
        InFlight, About, Job
<1> QED BY <1>1, TurnKeeps, RunKeeps, ResumeKeeps, ReleaseKeeps, SettleKeeps DEF Next

\* The named parts above hold at all times.
THEOREM Invariance == Spec => []IInv
BY InitInv, NextInv, PTL DEF Spec

-----------------------------------------------------------------------------
(* What follows *)

\* Every variable keeps its type; the count never exceeds the requests, and no request
\* is tried more than MaxAttempts times.
THEOREM TypeCorrect == Spec => []TypeOK
<1>1. IInv => TypeOK
    <2> SUFFICES ASSUME IInv PROVE TypeOK
        OBVIOUS
    <2>1. active \in 0..Cardinality(Requests)
        <3>1. Cardinality(Requests) \in Nat
            BY ProverAssumption, FS_CardinalityType
        <3> QED BY <3>1, FiniteClaims DEF IInv, Counted
    <2>2. \A n \in DOMAIN jobs : jobs[n].request \in Requests
        <3>1. \A n \in DOMAIN jobs : jobs[n] \in AllJobs
            BY ElementOfSeq, LenProperties DEF IInv, Shape
        <3> QED BY <3>1 DEF AllJobs
    <2>3. attempt \in [Requests -> 0..MaxAttempts]
        BY ProverAssumption DEF IInv, Shape, AttemptsLeft
    <2> QED BY <2>1, <2>2, <2>3 DEF IInv, Shape, TypeOK
<1> QED BY Invariance, <1>1, PTL

\* Whatever fails, is retried or answers late, no request waits while a slot is free.
THEOREM SlotsAreUsed == Spec => []NoIdleSlot
<1>1. IInv => NoIdleSlot
    <2> SUFFICES ASSUME IInv, jobs = <<>>, waiting # <<>> PROVE Cardinality(InFlight) >= MaxConcurrent
        BY DEF NoIdleSlot
    <2>1. Claims = InFlight
        BY DEF Claims, Holders, About
    <2> QED BY <2>1 DEF IInv, Full
<1> QED BY Invariance, <1>1, PTL
=============================================================================
